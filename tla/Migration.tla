----------------------------- MODULE Migration -----------------------------
(* The boot chain composed with what changes the partition table: the move   *)
(* of an older Luxel layout to the new one (firmware/src/migrate.rs) and the *)
(* takeover of a foreign one (takeover.rs), over the primitives of           *)
(* parttab.rs.  Both run once per boot between preboot_guard and the network *)
(* (the phases from "init" to "net"); every flash operation may fail and the *)
(* power may be cut inside any of them.                                      *)
(*                                                                           *)
(* Slot 1 of the old table is the migration's staging area: header sector in *)
(* the slot's head, repacked pattern log in its body.  The pattern library   *)
(* is the number of the last acknowledged save, and a copy of it is that     *)
(* number or Gone; the new table's slot 1 lies elsewhere and holds no image. *)
EXTENDS BootChain

CONSTANTS
    Gone,
    Faults          \* the fault classes explored, see AllFaults

(* Faults the code does not withstand; the README has what each one does.    *)
AllFaults == {"copy",       \* a self-copy stops after its first sector
              "staging",    \* staging stops under the old image's head
              "header",     \* a staging header is lost while it is rewritten
              "settle",     \* a resuming boot cannot erase otadata
              "wipe",       \* the config wipe fails past the guard record
              "save"}       \* a pattern is saved while a staged log waits

ASSUME MigrationAssumption == Faults \subseteq AllFaults /\ Gone \notin Nat

VARIABLES
    overlap,    \* while the table is old: does the new store lie over its log?
    stage,      \* S_STAGED.. in the staging header, while slot 1 has one
    staged,     \* the library in the staging area,
    oldLog,     \* in the old storage partition,
    newLog,     \* and in the new one
    lib,        \* history: the library as acknowledged to the clients
    tries       \* history: a takeover's reboots to retry, in a row

logs == <<stage, staged, oldLog, newLog>>
vars == <<bootVars, overlap, logs, lib, tries>>

Stages == 1 .. 3                \* S_STAGED, S_STORED, S_ASSETS
StagedAnew == FALSE             \* mutant
Resuming == slot[1].head = Hdr  \* read_hdr, keyed to the target table

InPlace == slot[0].head = Image \* image_is_ours: the descriptor, no more

(* copy_region writes sectors in ascending order, so what a stop leaves is   *)
(* an erased first sector, or the copy's first sector over the old tail.     *)
HalfCopied ==
    {[slot EXCEPT ![0].head = h] : h \in {None} \cup (IF "copy" \in Faults THEN {Image} ELSE {})}

Goto(p) == phase' = p /\ UNCHANGED <<running, volatile>>

-----------------------------------------------------------------------------
(* The takeover.                                                             *)

Taking(p) == phase = p /\ table = "foreign"

OneTooMany(g) == g.retries < 3       \* mutant
RetriesLeft(g) == g.retries + 1 < 3  \* TAKEOVER_TRIES, this boot included

(* retry_or_settle, on the guard record g.                                   *)
RetryOrSettle(g) ==
    IF RetriesLeft(g)
    THEN /\ guard' = [g EXCEPT !.attempts = 0, !.retries = @ + 1]
         /\ tries' = tries + 1
         /\ Reset
    ELSE /\ guard' = [g EXCEPT !.retries = 0]
         /\ tries' = 0
         /\ Goto("net")

SelfCopy ==
    /\ phase = "init" /\ table \in {"foreign", "old"}
    /\ slot' = IF running = 1 /\ ~InPlace THEN [slot EXCEPT ![0] = Holding(Image)] ELSE slot
    /\ Goto(IF table = "old" THEN "point" ELSE "wipe")
    /\ UNCHANGED <<otadata, guard, table, aps, bad, used, overlap, logs, lib, tries>>

(* Our image is not found, cannot be sized, or its copy does not verify.     *)
TakeoverCopyFails ==
    /\ Taking("init") /\ Fault
    /\ slot' \in {slot} \cup IF running = 1 /\ ~InPlace THEN HalfCopied ELSE {}
    /\ RetryOrSettle(guard)
    /\ UNCHANGED <<otadata, table, aps, bad, overlap, logs, lib>>

(* CONFIG_WIPE: nvs, the guard record, otadata, in this order.               *)
Wipe ==
    /\ Taking("wipe")
    /\ guard' = Blank /\ otadata' = <<>>
    /\ tries' = 0
    /\ Goto("install")
    /\ UNCHANGED <<slot, table, aps, bad, used, overlap, logs, lib>>

WipeFails ==
    /\ Taking("wipe") /\ Fault
    /\ \/ RetryOrSettle(guard) /\ UNCHANGED otadata
       \/ /\ "wipe" \in Faults
          /\ otadata' \in HalfErased(otadata)
          /\ RetryOrSettle(Blank)
    /\ UNCHANGED <<slot, table, aps, bad, overlap, logs, lib>>

NewTable ==                     \* slot 1 moves, slot 0 stays, and nobody
                                \* looks at the old regions again; a takeover
                                \* starts a library, a migration keeps its own
    /\ table' = "new"
    /\ slot' = [slot EXCEPT ![1] = NoImage]
    /\ oldLog' = Gone /\ staged' = Gone /\ stage' = 1
    /\ newLog' = IF table = "foreign" THEN lib ELSE newLog

TakeoverInstall ==
    /\ Taking("install")
    /\ NewTable
    /\ tries' = 0
    /\ Reset
    /\ UNCHANGED <<otadata, guard, aps, bad, used, overlap, lib>>

-----------------------------------------------------------------------------
(* The migration.                                                            *)

Moving(p) == phase = p /\ table = "old"

MigrateCopyFails ==
    /\ Moving("init") /\ running = 1 /\ ~InPlace /\ Fault
    /\ slot' \in HalfCopied
    /\ Goto("net")
    /\ UNCHANGED <<otadata, guard, table, aps, bad, overlap, logs, lib, tries>>

AlwaysReboots == TRUE           \* mutant
InStagingSlot == running = 1

(* settle_into_ota0: an erased otadata means ota_0.                          *)
Settle ==
    /\ Moving("point")
    /\ otadata' = <<>>
    /\ guard' = ClearedAttempts
    /\ IF InStagingSlot THEN Reset ELSE Goto("stage")
    /\ UNCHANGED <<slot, table, aps, bad, used, overlap, logs, lib, tries>>

SettleFails ==
    /\ Moving("point") /\ Fault
    /\ Resuming /\ oldLog = Gone => "settle" \in Faults
    /\ otadata' \in HalfErased(otadata)
    /\ Goto("net")
    /\ UNCHANGED <<slot, guard, table, aps, bad, overlap, logs, lib, tries>>

(* stage_log and its header, or the header of an earlier boot.               *)
StageLog ==
    /\ Moving("stage")
    /\ IF Resuming
       THEN UNCHANGED <<slot, stage, staged>>
       ELSE /\ slot' = [slot EXCEPT ![1] = [head |-> Hdr, body |-> Junk]]
            /\ stage' = 1
            /\ staged' = oldLog
    /\ phase' = "store"
    /\ hold' = (overlap \/ hold)
    /\ UNCHANGED <<upload, running, otadata, guard, table, aps, bad, used,
                   overlap, oldLog, newLog, lib, tries>>

HalfStaged ==                   \* the log's pages come before the header
    {[slot EXCEPT ![1] = [head |-> h, body |-> Junk]] :
        h \in {None} \cup (IF "staging" \in Faults \/ Headless(1) THEN {slot[1].head} ELSE {})}

StageFails ==
    /\ Moving("stage") /\ ~Resuming /\ Fault
    /\ slot' \in HalfStaged
    /\ Goto("net")
    /\ UNCHANGED <<otadata, guard, table, aps, bad, overlap, logs, lib, tries>>

OldLogErased == oldLog' = IF overlap THEN Gone ELSE oldLog

(* write_new_store, unless an earlier boot has marked it done.               *)
StoreLog ==
    /\ Moving("store")
    /\ IF stage = 1
       THEN OldLogErased /\ newLog' = staged
       ELSE UNCHANGED <<oldLog, newLog>>
    /\ Goto(IF stage = 3 THEN "install" ELSE "mark")
    /\ UNCHANGED <<slot, otadata, guard, table, aps, bad, used,
                   overlap, stage, staged, lib, tries>>

HalfStored == OldLogErased /\ newLog' = Gone

StoreFails ==
    /\ Moving("store") /\ stage = 1 /\ Fault
    /\ \/ UNCHANGED <<oldLog, newLog>>
       \/ HalfStored
    /\ Goto("net")
    /\ UNCHANGED <<slot, otadata, guard, table, aps, bad,
                   overlap, stage, staged, lib, tries>>

(* write_hdr STORED, then move_assets and write_hdr ASSETS.                  *)
Mark ==
    /\ Moving("mark")
    /\ stage' = stage + 1
    /\ Goto(IF stage = 2 THEN "install" ELSE "mark")
    /\ UNCHANGED <<slot, otadata, guard, table, aps, bad, used,
                   overlap, staged, oldLog, newLog, lib, tries>>

HeaderLost == "header" \in Faults /\ slot' = [slot EXCEPT ![1].head = None]

MarkFails ==
    /\ Moving("mark") /\ Fault
    /\ \/ stage = 2 /\ UNCHANGED slot       \* the asset bundle did not move
       \/ HeaderLost
    /\ Goto("net")
    /\ UNCHANGED <<otadata, guard, table, aps, bad, overlap, logs, lib, tries>>

Install ==
    /\ Moving("install")
    /\ NewTable
    /\ overlap' = FALSE
    /\ guard' = ClearedAttempts
    /\ Reset
    /\ UNCHANGED <<otadata, aps, bad, used, lib, tries>>

(* Three writes in place that do not verify: serial recovery only.           *)
InstallFails ==
    /\ phase = "install" /\ Fault
    /\ table' = "torn"
    /\ Goto("net")
    /\ UNCHANGED <<slot, otadata, guard, aps, bad, overlap, logs, lib, tries>>

(* A table that needs neither.                                               *)
NothingToDo ==
    /\ phase = "init" /\ table \in {"new", "torn"}
    /\ Goto("net")
    /\ UNCHANGED <<flashVars, aps, bad, used, overlap, logs, lib, tries>>

-----------------------------------------------------------------------------
(* A pattern saved and acknowledged.                                         *)
Save ==
    /\ phase = "up" /\ table \in {"old", "new"}
    /\ table = "old" /\ Resuming => "save" \in Faults
    /\ used.saves < MaxSaves /\ Spend("saves")
    /\ lib' = lib + 1
    /\ IF table = "new"
       THEN newLog' = lib' /\ UNCHANGED oldLog
       ELSE oldLog' = (IF oldLog = Gone THEN Gone ELSE lib') /\ UNCHANGED newLog
    /\ UNCHANGED <<flashVars, volatile, running, phase, aps, bad,
                   overlap, stage, staged, tries>>

-----------------------------------------------------------------------------
(* What a power cut leaves of the operation it interrupts.  A sector is      *)
(* erased before it is written, so a record in one sector is blank.          *)

CutBetween == UNCHANGED <<flashVars, logs>>

(* The boot guard, the force-AP flag, boot_ok; a takeover's count of its     *)
(* retries, after a copy that failed (after a wipe that did, see CutInErase);*)
(* clear_boot_attempts, with otadata erased before it.                       *)
CutInGuard ==
    /\ guard' = Blank
    /\ \/ phase \in {"guard", "net", "up"} /\ UNCHANGED <<slot, otadata>>
       \/ /\ Taking("init") /\ UNCHANGED otadata
          /\ slot' \in {slot} \cup IF running = 1 /\ ~InPlace THEN HalfCopied ELSE {}
       \/ Moving("point") /\ otadata' = <<>> /\ UNCHANGED slot
    /\ UNCHANGED <<table, logs>>

CutInRollBack ==
    /\ phase = "guard" /\ guard.attempts >= 2
    /\ guard' = ClearedAttempts
    /\ otadata' = HalfSwitched(otadata)
    /\ UNCHANGED <<slot, table, logs>>

CutInMarker ==                  \* boot_ok rewrites the current entry
    /\ Healthy
    /\ guard' = ClearedAttempts
    /\ otadata' = HalfMarked(otadata)
    /\ UNCHANGED <<slot, table, logs>>

CutInActivate ==
    /\ phase = "up" /\ upload.at = "landed"
    /\ otadata' \in HalfActivated(otadata, Target)
    /\ UNCHANGED <<slot, guard, table, logs>>

CutInCopy ==
    /\ phase = "init" /\ table \in {"foreign", "old"} /\ running = 1 /\ ~InPlace
    /\ slot' \in HalfCopied
    /\ UNCHANGED <<otadata, guard, table, logs>>

CutInErase ==
    /\ Taking("wipe") \/ Moving("point")
    /\ guard' = IF table = "foreign" THEN Blank ELSE guard
    /\ otadata' \in HalfErased(otadata)
    /\ UNCHANGED <<slot, table, logs>>

CutInStaging ==
    /\ Moving("stage") /\ ~Resuming
    /\ slot' \in HalfStaged
    /\ UNCHANGED <<otadata, guard, table, logs>>

CutInStore ==
    /\ Moving("store") /\ stage = 1
    /\ HalfStored
    /\ UNCHANGED <<flashVars, stage, staged>>

CutInMark ==
    /\ Moving("mark")
    /\ HeaderLost
    /\ UNCHANGED <<otadata, guard, table, logs>>

(* In the erase or in the write of the table, or once the new one is there:  *)
(* before the attempts are cleared, or while they are.                       *)
CutInInstall ==
    /\ Taking("install") \/ Moving("install")
    /\ \/ table' = "torn" /\ UNCHANGED <<slot, guard, logs>>
       \/ NewTable /\ guard' \in {guard, Blank}
    /\ UNCHANGED otadata

PowerCut ==
    /\ phase \notin {"reset", "dead", "stock"}
    /\ Fault
    /\ \/ CutBetween \/ CutInGuard \/ CutInRollBack \/ CutInMarker
       \/ CutInActivate \/ CutInCopy \/ CutInErase \/ CutInStaging
       \/ CutInStore \/ CutInMark \/ CutInInstall
    /\ bad' = MoreBad /\ tries' = 0
    /\ Reset
    /\ UNCHANGED <<aps, overlap, lib>>

-----------------------------------------------------------------------------
(* A device as it is delivered: serially flashed, or just updated from a     *)
(* firmware that worked.                                                     *)
Init ==
    /\ running \in Slots
    /\ table \in {"foreign", "old", "new"}
    /\ \E img \in Images, rest \in (Images \ Crashes) \cup {Stock, None} :
         /\ (rest = Stock) = (table = "foreign")
         /\ slot = [s \in Slots |-> IF s = running THEN Holding(img)
                                    ELSE IF rest = None THEN NoImage ELSE Holding(rest)]
    /\ otadata \in {<<running>>, <<running, Other(running)>>}
                   \cup (IF running = 0 THEN {<<>>} ELSE {})
    /\ guard = Blank
    /\ phase = "reset"
    /\ upload = NoUpload /\ hold = FALSE
    /\ aps = 0 /\ bad = 0 /\ tries = 0
    /\ used = [faults |-> 0, uploads |-> 0, asks |-> 0, saves |-> 0]
    /\ overlap \in {FALSE, table = "old"}
    /\ stage = 1 /\ staged = Gone
    /\ lib = 0
    /\ oldLog = IF table = "old" THEN 0 ELSE Gone
    /\ newLog = IF table = "new" THEN 0 ELSE Gone

Takeover == TakeoverCopyFails \/ Wipe \/ WipeFails \/ TakeoverInstall
Migrate ==
    \/ MigrateCopyFails \/ Settle \/ SettleFails \/ StageLog \/ StageFails
    \/ StoreLog \/ StoreFails \/ Mark \/ MarkFails \/ Install
BootOnly == BootStep /\ UNCHANGED <<overlap, logs, lib, tries>>
TableStep == NothingToDo \/ SelfCopy \/ InstallFails \/ Takeover \/ Migrate

Next == BootOnly \/ TableStep \/ Save \/ PowerCut

(* The CPU runs what main runs without waiting for anybody.                  *)
Unattended ==
    \/ (Bootloader \/ CountBoot \/ RollBack \/ RollBackFails \/ Panic \/ TakeForceAp)
       /\ UNCHANGED <<overlap, logs, lib, tries>>
    \/ TableStep

Spec == Init /\ [][Next]_vars /\ WF_vars(Unattended)

-----------------------------------------------------------------------------
Copies == 0 .. MaxSaves \cup {Gone}

TypeOK ==
    /\ slot \in [Slots -> [head : Firmware \cup {None, Hdr}, body : Firmware \cup {Junk}]]
    /\ otadata \in {<<>>, <<0>>, <<1>>, <<0, 1>>, <<1, 0>>}
    /\ guard \in [attempts : 0 .. 2 + MaxFaults, force : BOOLEAN, retries : 0 .. 3]
    /\ table \in {"foreign", "old", "new", "torn"}
    /\ running \in Slots
    /\ phase \in {"reset", "guard", "init", "wipe", "point", "stage", "store",
                  "mark", "install", "net", "up", "dead", "stock"}
    /\ upload \in [at : {"none", "open", "streaming", "streamed", "landed"},
                   img : Images \cup {None}]
    /\ hold \in BOOLEAN /\ overlap \in BOOLEAN
    /\ stage \in Stages
    /\ {staged, oldLog, newLog} \subseteq Copies /\ lib \in 0 .. MaxSaves

(* "An interrupted update must never leave the device without a bootable     *)
(* slot" (ota.rs), and no stop of the self-install either: whatever is cut,  *)
(* refused, aborted or rolled back, the bootloader finds a whole image, but  *)
(* for a cut inside the one write of the partition table.                    *)
Bootable == phase = "dead" => table = "torn"

(* The slot under the program counter is never erased or written.            *)
RunningSlotUntouched == [][phase # "reset" /\ phase' # "reset" => slot'[running] = slot[running]]_vars

(* The guard counts failed boots and nothing else: deliberate reboots - a    *)
(* request, a migration's two, a takeover's retries - never add up to a      *)
(* rollback.                                                                 *)
AttemptsAreFailures == phase = "reset" /\ bad < 2 => guard.attempts <= bad

(* A request for the access point brings up at most one.                     *)
OneApPerRequest == aps + (IF guard.force THEN 1 ELSE 0) <= used.asks

(* What the guard record says is so.                                         *)
RecordIsHonest == AttemptsAreFailures /\ OneApPerRequest

(* "Losing a pattern silently is not on the menu" (migrate.rs): what the     *)
(* boot after a cut here would go by holds every acknowledged save.          *)
LibraryKept ==
    CASE table = "old" -> /\ (IF Resuming THEN staged ELSE oldLog) = lib
                          /\ Resuming /\ stage > 1 => newLog = lib
      [] table = "new" -> newLog = lib
      [] OTHER -> TRUE

(* "At most TAKEOVER_TRIES boots total": a takeover that keeps failing       *)
(* settles into the access point.                                            *)
TakeoverGivesUp == tries <= 2

(* A build that crashes on every boot does not stay when the other slot has  *)
(* one that works - unless an update it accepted has already erased it.      *)
Works == phase \in {"up", "stock"} /\ Image \notin Crashes
CrashLoopEnds ==
    (/\ phase = "guard" /\ table = "new" /\ Image \in Crashes
     /\ Whole(Other(running)) /\ slot[Other(running)].head \notin Crashes)
        ~> (Works \/ upload.at = "streaming")

(* "Every stage is re-runnable": once nothing fails any more, one boot of a  *)
(* working build ends in the new table, wherever earlier boots stopped.      *)
MigrationFinishes ==
    (/\ phase = "reset" /\ table = "old"
     /\ used.faults = MaxFaults
     /\ Whole(Choice) /\ slot[Choice].head \notin Crashes /\ guard.attempts < 2)
        ~> table = "new"

=============================================================================
