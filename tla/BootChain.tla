----------------------------- MODULE BootChain -----------------------------
(* Which image a device boots, and what may change that: the two app slots,  *)
(* otadata, the boot guard's record (firmware/src/ota.rs), an update over    *)
(* the network (ota.rs, appimg.rs) and the second-stage bootloader, which is *)
(* not this repository's.  One CPU runs all of it; an action is the work     *)
(* between two points at which a power cut makes a difference, and PowerCut  *)
(* (module Migration) adds what a cut inside it leaves.                      *)
(*                                                                           *)
(* A slot is two cells: its first sector and all the others.  An image is    *)
(* whole when both cells hold it.  A slot without a head is no image to      *)
(* anybody; one image's head over something else's tail makes the bootloader *)
(* assert and reset for ever, without a look at the other slot.              *)
EXTENDS Integers, Sequences

CONSTANTS
    Images,         \* Luxel builds
    Crashes,        \* those that never survive until boot_ok
    Stock,          \* the firmware a takeover replaces
    None, Hdr,      \* a slot's head: erased; a migration's staging header
    Junk,           \* a slot's tail that is no image's
    MaxFaults,      \* bounds: flash operations that fail and power cuts,
    MaxUploads, MaxAsks, MaxSaves               \* and requests

ASSUME BootAssumption ==
    /\ Crashes \subseteq Images
    /\ {Stock, None, Hdr, Junk} \cap Images = {}
    /\ Stock \notin {None, Hdr, Junk} /\ Junk \notin {None, Hdr} /\ None # Hdr
    /\ {MaxFaults, MaxUploads, MaxAsks, MaxSaves} \subseteq Nat

VARIABLES
    slot,       \* [Slots -> [head, body]], the app partitions
    otadata,    \* the slots its valid entries name, newest first
    guard,      \* the guard record
    table,      \* the partition table: "foreign", "old", "new" or "torn"
    running,    \* BOOTED_AT: the slot the MMU maps
    phase,      \* how far this boot is
    upload,     \* OTA_ACTIVE and the writer's progress
    hold,       \* migrate's OTA_HOLD
    aps,        \* history: boots into the provisioning AP,
    bad,        \* and failed boots in a row, up to 2
    used        \* how much of each bound is spent

flashVars == <<slot, otadata, guard, table>>
volatile == <<upload, hold>>
bootVars == <<flashVars, volatile, running, phase, aps, bad, used>>

Slots == {0, 1}
Other(s) == 1 - s
Firmware == Images \cup {Stock}
Whole(s) == slot[s].head \in Firmware /\ slot[s].body = slot[s].head
Headless(s) == slot[s].head \notin Firmware
NoImage == [head |-> None, body |-> Junk]
Holding(img) == [head |-> img, body |-> img]
Image == slot[running].head
Blank == [attempts |-> 0, force |-> FALSE, retries |-> 0]
NoUpload == [at |-> "none", img |-> None]

Spend(what) == used' = [used EXCEPT ![what] = @ + 1]
Fault == used.faults < MaxFaults /\ Spend("faults")

-----------------------------------------------------------------------------
(* otadata, as the library ota.rs leaves it to keeps it: two sectors, the    *)
(* valid entry with the higher sequence number is current.                   *)

HalfSwitched(od) == IF od = <<>> THEN od ELSE <<od[1]>>
Switch(od, s) ==                \* overwrites the entry that is not current
    IF od # <<>> /\ od[1] = s THEN od ELSE <<s>> \o HalfSwitched(od)
HalfMarked(od) == IF od = <<>> THEN od ELSE Tail(od)    \* rewritten in place
HalfErased(od) == {od, HalfSwitched(od), HalfMarked(od), <<>>}

(* commit: an erased otadata first gets the slot we run from; the state of   *)
(* the new entry is written last.  What a stop in between leaves.            *)
Activated(od, s) == Switch(IF od = <<>> THEN <<Other(s)>> ELSE od, s)
HalfActivated(od, s) ==
    {HalfSwitched(od), HalfMarked(Activated(od, s)), Activated(od, s)}
      \cup (IF od = <<>> THEN {<<Other(s)>>} ELSE {})

-----------------------------------------------------------------------------
Reset ==
    /\ phase' = "reset"
    /\ upload' = NoUpload /\ hold' = FALSE
    /\ UNCHANGED running

FirstChoice == IF otadata = <<>> THEN 0 ELSE otadata[1]
Choice == IF Headless(FirstChoice) THEN Other(FirstChoice) ELSE FirstChoice

(* The bootloader.  It writes its choice back when otadata is erased.        *)
Bootloader ==
    /\ phase = "reset"
    /\ IF table = "torn" \/ ~Whole(Choice)
       THEN phase' = "dead" /\ UNCHANGED <<running, otadata>>
       ELSE /\ running' = Choice
            /\ phase' = IF slot[Choice].head = Stock THEN "stock" ELSE "guard"
            /\ otadata' = IF otadata = <<>> THEN <<0>> ELSE otadata
    /\ UNCHANGED <<slot, guard, table, volatile, aps, bad, used>>

ForgotToCount == 1              \* mutant
NextCount == guard.attempts + 1

(* preboot_guard on the first and second boot in a row.                      *)
CountBoot ==
    /\ phase = "guard" /\ guard.attempts < 2
    /\ guard' = [guard EXCEPT !.attempts = NextCount]
    /\ phase' = "init"
    /\ UNCHANGED <<slot, otadata, table, volatile, running, aps, bad, used>>

(* preboot_guard on the third: the other slot, whatever it holds.            *)
RollBack ==
    /\ phase = "guard" /\ guard.attempts >= 2
    /\ guard' = [guard EXCEPT !.attempts = 0]
    /\ otadata' = Switch(otadata, Other(otadata[1]))
    /\ bad' = 0
    /\ Reset
    /\ UNCHANGED <<slot, table, aps, used>>

RollBackFails ==
    /\ phase = "guard" /\ guard.attempts >= 2
    /\ Fault
    /\ guard' = [guard EXCEPT !.attempts = NextCount]
    /\ phase' = "init"
    /\ UNCHANGED <<slot, otadata, table, volatile, running, aps, bad>>

MoreBad == IF bad < 2 THEN bad + 1 ELSE bad

(* A build that crashes does so somewhere before boot_ok.                    *)
Panic ==
    /\ phase \notin {"reset", "guard", "dead", "stock"}
    /\ Image \in Crashes
    /\ bad' = MoreBad
    /\ Reset
    /\ UNCHANGED <<flashVars, aps, used>>

ForceTaken == [guard EXCEPT !.force = FALSE]

(* main, after the takeover and the migration: take_force_ap, then serve.    *)
TakeForceAp ==
    /\ phase = "net"
    /\ guard' = ForceTaken
    /\ aps' = IF guard.force THEN aps + 1 ELSE aps
    /\ phase' = "up"
    /\ UNCHANGED <<slot, otadata, table, volatile, running, bad, used>>

Healthy == phase = "up" /\ Image \notin Crashes

AskForAp ==
    /\ Healthy /\ used.asks < MaxAsks /\ Spend("asks")
    /\ guard' = [guard EXCEPT !.force = TRUE]
    /\ UNCHANGED <<slot, otadata, table, volatile, running, phase, aps, bad>>

NothingCleared == guard         \* mutant
ClearedAttempts == [guard EXCEPT !.attempts = 0]

(* The heartbeat after a minute, and the first half of a requested reboot.   *)
(* The state marker of otadata changes no choice.                            *)
BootOk ==
    /\ Healthy
    /\ guard' = ClearedAttempts
    /\ bad' = 0
    /\ UNCHANGED <<slot, otadata, table, volatile, running, phase, aps, used>>

Reboot ==
    /\ Healthy
    /\ guard' = ClearedAttempts
    /\ bad' = 0
    /\ Reset
    /\ UNCHANGED <<slot, otadata, table, aps, used>>

-----------------------------------------------------------------------------
(* An update.                                                                *)

NextOfOtadata == IF otadata = <<>> THEN 0 ELSE Other(otadata[1])     \* mutant
Target == Other(running)        \* ota_target: from the MMU, never otadata

Begin(img) ==
    /\ phase = "up" /\ upload.at = "none" /\ ~hold
    /\ used.uploads < MaxUploads /\ Spend("uploads")
    /\ upload' = [at |-> "open", img |-> img]
    /\ UNCHANGED <<flashVars, hold, running, phase, aps, bad>>

HeadFirst == [head |-> upload.img, body |-> Junk]    \* mutant
Begun == NoImage

(* The first sector stays in RAM, and its place on flash is erased first.    *)
FirstChunk ==
    /\ phase = "up" /\ upload.at = "open"
    /\ slot' = [slot EXCEPT ![Target] = Begun]
    /\ upload' = [upload EXCEPT !.at = "streaming"]
    /\ UNCHANGED <<otadata, guard, table, hold, running, phase, aps, bad, used>>

(* The rest of the body; a damaged one arrives too.                          *)
Stream ==
    /\ phase = "up" /\ upload.at = "streaming"
    /\ \E body \in {upload.img, Junk} : slot' = [slot EXCEPT ![Target].body = body]
    /\ upload' = [upload EXCEPT !.at = "streamed"]
    /\ UNCHANGED <<otadata, guard, table, hold, running, phase, aps, bad, used>>

(* The client goes away, a flash operation fails, the image is refused: the  *)
(* writer is dropped.                                                        *)
Abort ==
    /\ phase = "up" /\ upload.at # "none"
    /\ upload' = NoUpload
    /\ UNCHANGED <<flashVars, hold, running, phase, aps, bad, used>>

Verified == slot[Target].body = upload.img

LandHead ==
    /\ phase = "up" /\ upload.at = "streamed" /\ Verified
    /\ slot' = [slot EXCEPT ![Target].head = upload.img]
    /\ upload' = [upload EXCEPT !.at = "landed"]
    /\ UNCHANGED <<otadata, guard, table, hold, running, phase, aps, bad, used>>

Activate ==
    /\ phase = "up" /\ upload.at = "landed"
    /\ otadata' = Activated(otadata, Target)
    /\ upload' = NoUpload
    /\ UNCHANGED <<slot, guard, table, hold, running, phase, aps, bad, used>>

(* A write of otadata fails half-way: "activate failed", and the image stays *)
(* where it has landed.                                                      *)
ActivateFails ==
    /\ phase = "up" /\ upload.at = "landed" /\ Fault
    /\ otadata' \in HalfActivated(otadata, Target)
    /\ upload' = NoUpload
    /\ UNCHANGED <<slot, guard, table, hold, running, phase, aps, bad>>

BootStep ==
    \/ Bootloader \/ CountBoot \/ RollBack \/ RollBackFails
    \/ Panic \/ TakeForceAp \/ AskForAp \/ BootOk \/ Reboot
    \/ \E img \in Images : Begin(img)
    \/ FirstChunk \/ Stream \/ Abort \/ LandHead \/ Activate
    \/ ActivateFails

=============================================================================
