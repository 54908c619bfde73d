--------------------------- MODULE MigrationProofs ---------------------------
(* Whatever fails or is cut, in whatever order: the slot the CPU executes    *)
(* from is never written, by an update, a self-copy, a staging or a takeover, *)
(* and holds a whole image.  For any images, bounds and fault classes.  And  *)
(* as long as no self-copy and no staging stops under another image's head   *)
(* (WholeHeads), the bootloader always finds a whole image to boot.  Then,   *)
(* what a migration and a takeover keep across any number of failures and    *)
(* power cuts: the guard record counts only failed boots, retries end, and   *)
(* no acknowledged pattern is lost - the last two but for the fault classes  *)
(* of module Migration the code does not withstand, which the theorems       *)
(* exclude by name.                                                          *)
EXTENDS Migration, SequenceTheorems, TLAPS

(* Once otadata is settled, what writes slot 1 runs from slot 0.             *)
StagingPhases == {"stage", "store", "mark"}

WhereInv ==
  /\ DOMAIN slot = Slots
  /\ running \in Slots
  /\ otadata \in Seq(Slots)
  /\ phase = "guard" => otadata # <<>>
  /\ phase \in StagingPhases => running = 0

RunsWhole == phase \notin {"reset", "dead"} => Whole(running)

BootInv == WhereInv /\ RunsWhole

Untouched == phase # "reset" /\ phase' # "reset" => slot'[running] = slot[running]

(* otadata names slots, after every write and every torn write of it.        *)
LEMMA OtadataNamesSlots ==
  ASSUME NEW od \in Seq(Slots), NEW s \in Slots
  PROVE  /\ HalfSwitched(od) \in Seq(Slots) /\ HalfMarked(od) \in Seq(Slots)
         /\ Switch(od, s) \in Seq(Slots) /\ Activated(od, s) \in Seq(Slots)
         /\ HalfErased(od) \subseteq Seq(Slots)
         /\ HalfActivated(od, s) \subseteq Seq(Slots)
<1>1. /\ <<>> \in Seq(Slots) /\ \A t \in Slots: <<t>> \in Seq(Slots)
  OBVIOUS
<1>2. ASSUME NEW d \in Seq(Slots) PROVE HalfSwitched(d) \in Seq(Slots)
  <2>1. CASE d = <<>>
    BY <2>1 DEF HalfSwitched
  <2>2. CASE d # <<>>
    <3>1. d[1] \in Slots
      BY <2>2
    <3> QED BY <2>2, <3>1, <1>1 DEF HalfSwitched
  <2> QED BY <2>1, <2>2
<1>3. ASSUME NEW d \in Seq(Slots) PROVE HalfMarked(d) \in Seq(Slots)
  BY DEF HalfMarked
<1>4. ASSUME NEW d \in Seq(Slots), NEW t \in Slots PROVE Switch(d, t) \in Seq(Slots)
  <2>1. <<t>> \o HalfSwitched(d) \in Seq(Slots)
    BY <1>1, <1>2
  <2> QED BY <2>1 DEF Switch
<1>5. Other(s) \in Slots
  BY DEF Other, Slots
<1>6. Activated(od, s) \in Seq(Slots)
  BY <1>1, <1>4, <1>5 DEF Activated
<1>7. HalfErased(od) \subseteq Seq(Slots)
  BY <1>1, <1>2, <1>3 DEF HalfErased
<1>8. HalfActivated(od, s) \subseteq Seq(Slots)
  <2>1. HalfSwitched(od) \in Seq(Slots) /\ HalfMarked(Activated(od, s)) \in Seq(Slots)
        /\ <<Other(s)>> \in Seq(Slots)
    BY <1>1, <1>2, <1>3, <1>5, <1>6
  <2> QED BY <1>6, <2>1 DEF HalfActivated
<1> QED BY <1>2, <1>3, <1>4, <1>6, <1>7, <1>8

(* A delivered device.                                                       *)
LEMMA BootInit == ASSUME Init PROVE BootInv
<1>1. DOMAIN slot = Slots /\ running \in Slots /\ phase = "reset"
  BY DEF Init
<1>2. otadata \in Seq(Slots)
  <2>1. Other(running) \in Slots
    BY <1>1 DEF Other, Slots
  <2>2. /\ <<running>> \in Seq(Slots) /\ <<running, Other(running)>> \in Seq(Slots)
        /\ <<>> \in Seq(Slots)
    BY <1>1, <2>1
  <2>3. otadata = <<running>> \/ otadata = <<running, Other(running)>> \/ otadata = <<>>
    BY DEF Init
  <2> QED BY <2>2, <2>3
<1> QED BY <1>1, <1>2 DEF BootInv, WhereInv, RunsWhole, StagingPhases

(* What the bootloader starts is a slot, and whole.                          *)
LEMMA BootloaderStarts == ASSUME BootInv, Bootloader PROVE BootInv' /\ Untouched
<1>1. Choice \in Slots
  <2>1. FirstChoice \in Slots
    BY DEF FirstChoice, BootInv, WhereInv, Slots
  <2> QED BY <2>1 DEF Choice, Other, Slots
<1>2. phase = "reset" /\ UNCHANGED slot
  BY DEF Bootloader
<1>3. otadata' \in Seq(Slots) /\ (phase' = "guard" => otadata' # <<>>)
  <2>1. <<0>> \in Seq(Slots) /\ <<0>> # <<>>
    BY DEF Slots
  <2> QED BY <2>1 DEF Bootloader, BootInv, WhereInv
<1>4. CASE table = "torn" \/ ~Whole(Choice)
  <2>1. phase' = "dead" /\ running' = running
    BY <1>4 DEF Bootloader
  <2> QED BY <1>2, <1>3, <2>1 DEF BootInv, WhereInv, RunsWhole, StagingPhases, Untouched
<1>5. CASE ~(table = "torn" \/ ~Whole(Choice))
  <2>1. running' = Choice /\ phase' \in {"stock", "guard"} /\ Whole(Choice)
    BY <1>5 DEF Bootloader
  <2>2. Whole(running)'
    BY <1>2, <2>1 DEF Whole
  <2> QED BY <1>1, <1>2, <1>3, <2>1, <2>2
          DEF BootInv, WhereInv, RunsWhole, StagingPhases, Untouched
<1> QED BY <1>4, <1>5

(* The steps that write neither slots nor otadata and start no staging.      *)
LEMMA QuietStep ==
  ASSUME BootInv, UNCHANGED <<slot, otadata, running>>,
         phase' \in StagingPhases => phase \in StagingPhases,
         phase' # "guard",
         phase' \notin {"reset", "dead"} => phase \notin {"reset", "dead"}
  PROVE  BootInv' /\ Untouched
BY DEF BootInv, WhereInv, RunsWhole, Whole, StagingPhases, Untouched

(* A reset forgets where the CPU was: the next choice is checked anew.       *)
LEMMA ResetStep ==
  ASSUME BootInv, phase' = "reset", running' = running,
         DOMAIN slot' = Slots, otadata' \in Seq(Slots)
  PROVE  BootInv' /\ Untouched
BY DEF BootInv, WhereInv, RunsWhole, StagingPhases, Untouched

(* A write to the other slot.                                                *)
LEMMA OtherSlotStep ==
  ASSUME BootInv, UNCHANGED running, otadata' \in Seq(Slots),
         DOMAIN slot' = Slots, slot'[running] = slot[running],
         phase \notin {"reset", "dead"}, phase' # "guard",
         phase' \in StagingPhases => running = 0
  PROVE  BootInv' /\ Untouched
BY DEF BootInv, WhereInv, RunsWhole, Whole, StagingPhases, Untouched

(* The boot guard and the update.                                            *)
LEMMA BootPart == ASSUME BootInv, BootStep PROVE BootInv' /\ Untouched
<1> USE DEF flashVars, volatile, StagingPhases
<1>0. /\ DOMAIN slot = Slots /\ running \in Slots /\ otadata \in Seq(Slots)
      /\ Target \in Slots /\ Target # running
      /\ phase = "guard" => Other(otadata[1]) \in Slots
  BY DEF BootInv, WhereInv, Target, Other, Slots
<1>1. CASE Bootloader
  BY <1>1, BootloaderStarts
<1>2. CASE CountBoot \/ RollBackFails
  BY <1>2, QuietStep DEF CountBoot, RollBackFails
<1>3. CASE RollBack
  <2>1. otadata' \in Seq(Slots)
    BY <1>0, <1>3, OtadataNamesSlots DEF RollBack
  <2> QED BY <1>0, <1>3, <2>1, ResetStep DEF RollBack, Reset
<1>4. CASE Panic \/ Reboot
  BY <1>0, <1>4, ResetStep DEF Panic, Reboot, Reset
<1>5. CASE TakeForceAp \/ AskForAp \/ BootOk
  <2>1. UNCHANGED <<slot, otadata, running>> /\ phase \notin {"reset", "dead", "guard"}
        /\ phase' \notin {"guard", "stage", "store", "mark"}
    BY <1>5 DEF TakeForceAp, AskForAp, BootOk, Healthy
  <2> QED BY <2>1, QuietStep
<1>6. ASSUME NEW img \in Images, Begin(img) PROVE BootInv' /\ Untouched
  BY <1>6, QuietStep DEF Begin
<1>7. CASE Abort
  BY <1>7, QuietStep DEF Abort
<1>8. CASE FirstChunk
  BY <1>0, <1>8, OtherSlotStep DEF FirstChunk
<1>9. CASE Stream
  BY <1>0, <1>9, OtherSlotStep DEF Stream
<1>10. CASE LandHead
  BY <1>0, <1>10, OtherSlotStep DEF LandHead
<1>11. CASE Activate \/ ActivateFails
  <2>1. otadata' \in Seq(Slots)
    BY <1>0, <1>11, OtadataNamesSlots DEF Activate, ActivateFails
  <2> QED BY <1>0, <1>11, <2>1, OtherSlotStep DEF Activate, ActivateFails
<1> QED BY <1>1, <1>2, <1>3, <1>4, <1>5, <1>6, <1>7, <1>8, <1>9, <1>10, <1>11 DEF BootStep

(* The takeover and the migration: a self-copy runs from slot 1 into slot 0, *)
(* a staging from slot 0 into slot 1, and a new table comes with a reset.    *)
LEMMA TablePart == ASSUME BootInv, TableStep PROVE BootInv' /\ Untouched
<1> USE DEF flashVars, volatile, logs, Goto, Reset
<1>0. /\ DOMAIN slot = Slots /\ running \in Slots /\ otadata \in Seq(Slots)
      /\ Slots = {0, 1} /\ <<>> \in Seq(Slots)
      /\ HalfErased(otadata) \subseteq Seq(Slots)
      /\ phase \in StagingPhases => running = 0
  BY OtadataNamesSlots DEF BootInv, WhereInv, Slots
<1>1. CASE NothingToDo \/ InstallFails
  <2>1. UNCHANGED <<slot, otadata, running>> /\ phase \notin {"reset", "dead"} /\ phase' = "net"
    BY <1>1 DEF NothingToDo, InstallFails
  <2> QED BY <2>1, QuietStep DEF StagingPhases
<1>2. ASSUME running = 1, NEW img, slot' = [slot EXCEPT ![0] = img]
      PROVE  DOMAIN slot' = Slots /\ slot'[running] = slot[running]
  BY <1>0, <1>2
<1>3. ASSUME running = 1, slot' \in HalfCopied
      PROVE  DOMAIN slot' = Slots /\ slot'[running] = slot[running]
  BY <1>0, <1>3 DEF HalfCopied
<1>4. ASSUME slot' \in HalfStaged PROVE DOMAIN slot' = Slots /\ slot'[0] = slot[0]
  BY <1>0, <1>4 DEF HalfStaged
<1>5. ASSUME NewTable PROVE DOMAIN slot' = Slots
  BY <1>0, <1>5 DEF NewTable
<1>6. CASE SelfCopy
  <2>1. /\ UNCHANGED <<otadata, running>> /\ phase = "init" /\ phase' \in {"point", "wipe"}
        /\ slot' = slot \/ (running = 1 /\ slot' = [slot EXCEPT ![0] = Holding(Image)])
    BY <1>6 DEF SelfCopy
  <2> QED BY <1>0, <1>2, <2>1, OtherSlotStep DEF StagingPhases
<1>7. CASE TakeoverCopyFails
  <2>1. /\ UNCHANGED <<otadata, running>> /\ phase = "init" /\ phase' \in {"reset", "net"}
        /\ slot' = slot \/ (running = 1 /\ slot' \in HalfCopied)
    BY <1>7 DEF TakeoverCopyFails, Taking, RetryOrSettle
  <2> QED BY <1>0, <1>3, <2>1, OtherSlotStep DEF StagingPhases
<1>8. CASE Wipe \/ WipeFails
  <2>1. /\ UNCHANGED <<slot, running>> /\ phase = "wipe" /\ phase' \in {"install", "reset", "net"}
        /\ otadata' \in Seq(Slots)
    BY <1>0, <1>8 DEF Wipe, WipeFails, Taking, RetryOrSettle
  <2> QED BY <1>0, <2>1, OtherSlotStep DEF StagingPhases
<1>9. CASE TakeoverInstall \/ Install
  <2>1. UNCHANGED <<otadata, running>> /\ phase' = "reset" /\ NewTable
    BY <1>9 DEF TakeoverInstall, Install
  <2> QED BY <1>0, <1>5, <2>1, ResetStep DEF NewTable
<1>10. CASE MigrateCopyFails
  <2>1. /\ UNCHANGED <<otadata, running>> /\ phase = "init" /\ phase' = "net"
        /\ running = 1 /\ slot' \in HalfCopied
    BY <1>10 DEF MigrateCopyFails, Moving
  <2> QED BY <1>0, <1>3, <2>1, OtherSlotStep DEF StagingPhases
<1>11. CASE Settle
  <2>1. /\ UNCHANGED <<slot, running>> /\ phase = "point" /\ otadata' = <<>>
        /\ phase' = "reset" \/ (phase' = "stage" /\ running # 1)
    BY <1>11 DEF Settle, Moving, InStagingSlot
  <2> QED BY <1>0, <2>1, OtherSlotStep DEF StagingPhases
<1>12. CASE SettleFails
  <2>1. /\ UNCHANGED <<slot, running>> /\ phase = "point" /\ otadata' \in Seq(Slots)
        /\ phase' = "net"
    BY <1>0, <1>12 DEF SettleFails, Moving
  <2> QED BY <1>0, <2>1, OtherSlotStep DEF StagingPhases
<1>13. CASE StageLog
  <2>1. /\ UNCHANGED <<otadata, running>> /\ phase = "stage" /\ phase' = "store"
        /\ slot' = slot \/ slot' = [slot EXCEPT ![1] = [head |-> Hdr, body |-> Junk]]
    BY <1>13 DEF StageLog, Moving
  <2>2. running = 0 /\ DOMAIN slot' = Slots /\ slot'[0] = slot[0]
    BY <1>0, <2>1 DEF StagingPhases
  <2> QED BY <1>0, <2>1, <2>2, OtherSlotStep
<1>14. CASE StageFails
  <2>1. /\ UNCHANGED <<otadata, running>> /\ phase = "stage" /\ phase' = "net"
        /\ slot' \in HalfStaged
    BY <1>14 DEF StageFails, Moving
  <2> QED BY <1>0, <1>4, <2>1, OtherSlotStep DEF StagingPhases
<1>15. CASE StoreLog \/ StoreFails
  <2>1. /\ UNCHANGED <<slot, otadata, running>> /\ phase = "store"
        /\ phase' \in {"install", "mark", "net"}
    BY <1>15 DEF StoreLog, StoreFails, Moving
  <2> QED BY <2>1, QuietStep DEF StagingPhases
<1>16. CASE Mark
  <2>1. /\ UNCHANGED <<slot, otadata, running>> /\ phase = "mark"
        /\ phase' \in {"install", "mark"}
    BY <1>16 DEF Mark, Moving
  <2> QED BY <2>1, QuietStep DEF StagingPhases
<1>17. CASE MarkFails
  <2>1. /\ UNCHANGED <<otadata, running>> /\ phase = "mark" /\ phase' = "net"
        /\ slot' = slot \/ slot' = [slot EXCEPT ![1].head = None]
    BY <1>17 DEF MarkFails, Moving, HeaderLost
  <2>2. running = 0 /\ DOMAIN slot' = Slots /\ slot'[0] = slot[0]
    BY <1>0, <2>1 DEF StagingPhases
  <2> QED BY <1>0, <2>1, <2>2, OtherSlotStep DEF StagingPhases
<1> QED BY <1>1, <1>6, <1>7, <1>8, <1>9, <1>10, <1>11, <1>12, <1>13, <1>14, <1>15, <1>16, <1>17
        DEF TableStep, Takeover, Migrate

(* A power cut may leave anything half done, and resets.                     *)
LEMMA CutPart == ASSUME BootInv, PowerCut PROVE BootInv' /\ Untouched
<1> USE DEF flashVars, logs
<1>1. phase' = "reset" /\ running' = running
  BY DEF PowerCut, Reset
<1>2. /\ DOMAIN slot = Slots /\ running \in Slots /\ otadata \in Seq(Slots)
      /\ Target \in Slots /\ Slots = {0, 1}
  BY DEF BootInv, WhereInv, Target, Other, Slots
<1>3. DOMAIN slot' = Slots
  <2>1. CASE CutInCopy
    BY <1>2, <2>1 DEF CutInCopy, HalfCopied
  <2>2. CASE CutInStaging
    BY <1>2, <2>2 DEF CutInStaging, HalfStaged
  <2>3. CASE CutInMark
    BY <1>2, <2>3 DEF CutInMark, HeaderLost
  <2>4. CASE UNCHANGED slot
    BY <1>2, <2>4
  <2>5. CASE CutInGuard
    BY <1>2, <2>5 DEF CutInGuard, HalfCopied
  <2>6. CASE CutInInstall
    BY <1>2, <2>6 DEF CutInInstall, NewTable
  <2> QED BY <2>1, <2>2, <2>3, <2>4, <2>5, <2>6
          DEF PowerCut, CutBetween, CutInRollBack, CutInMarker,
              CutInActivate, CutInErase, CutInStore
<1>4. otadata' \in Seq(Slots)
  <2>1. /\ HalfSwitched(otadata) \in Seq(Slots) /\ HalfMarked(otadata) \in Seq(Slots)
        /\ HalfErased(otadata) \subseteq Seq(Slots) /\ <<>> \in Seq(Slots)
    BY <1>2, OtadataNamesSlots
  <2>2. HalfActivated(otadata, Target) \subseteq Seq(Slots)
    BY <1>2, OtadataNamesSlots
  <2>3. CASE UNCHANGED otadata
    BY <1>2, <2>3
  <2>4. CASE CutInRollBack \/ CutInMarker
    BY <2>1, <2>4 DEF CutInRollBack, CutInMarker
  <2>5. CASE CutInActivate
    BY <2>1, <2>2, <2>5 DEF CutInActivate
  <2>6. CASE CutInErase
    BY <2>1, <2>6 DEF CutInErase
  <2>7. CASE CutInGuard
    BY <1>2, <2>1, <2>7 DEF CutInGuard
  <2> QED BY <2>3, <2>4, <2>5, <2>6, <2>7
          DEF PowerCut, CutBetween, CutInCopy, CutInStaging, CutInStore,
              CutInMark, CutInInstall
<1> QED BY <1>1, <1>3, <1>4, ResetStep

(* Every step.                                                               *)
LEMMA AnyStep == ASSUME BootInv, [Next]_vars PROVE BootInv' /\ (Next => Untouched)
<1>1. CASE BootOnly
  BY <1>1, BootPart DEF BootOnly
<1>2. CASE TableStep
  BY <1>2, TablePart
<1>3. CASE Save
  <2>1. UNCHANGED <<slot, otadata, running>> /\ phase = "up" /\ phase' = "up"
    BY <1>3 DEF Save, flashVars
  <2> QED BY <2>1, QuietStep DEF StagingPhases
<1>4. CASE PowerCut
  BY <1>4, CutPart
<1>5. CASE UNCHANGED vars
  BY <1>5 DEF vars, bootVars, flashVars, BootInv, WhereInv, RunsWhole, Whole, Untouched
<1> QED BY <1>1, <1>2, <1>3, <1>4, <1>5 DEF Next

(* The inductive invariant of the boot chain's slots.                        *)
THEOREM BootInvariant == Spec => []BootInv
BY BootInit, AnyStep, PTL DEF Spec

(* What executes is a whole image from the first instruction to the reset,   *)
(* whatever is cut, refused or aborted meanwhile.                            *)
THEOREM RunningImageIsWhole == Spec => []RunsWhole
<1>1. BootInv => RunsWhole
  BY DEF BootInv
<1> QED BY <1>1, BootInvariant, PTL

(* The slot under the program counter is never erased or written ("the slot  *)
(* we are NOT running from", ota.rs).                                        *)
THEOREM RunningSlotStands == Spec => RunningSlotUntouched
<1>1. BootInv /\ [Next]_vars
        => [phase # "reset" /\ phase' # "reset" => slot'[running] = slot[running]]_vars
  BY AnyStep DEF Untouched
<1> QED BY <1>1, BootInvariant, PTL DEF Spec, RunningSlotUntouched

-----------------------------------------------------------------------------
(* Every head on flash is over its own tail, an image whose head is in RAM   *)
(* has none, and a slot that is whole exists - slot 0 from the self-copy on. *)
HeadsMatch == \A s \in Slots: slot[s] \in [head: Firmware \cup {None, Hdr}, body: Firmware \cup {Junk}]
                              /\ (Headless(s) \/ Whole(s))

HeadInRam ==
  /\ upload \in [at: {"none", "open", "streaming", "streamed", "landed"}, img: Images \cup {None}]
  /\ upload.at # "none" => phase = "up" /\ upload.img \in Images
  /\ upload.at \in {"streaming", "streamed"} => slot[Target].head = None

OneIsWhole ==
  /\ \E s \in Slots: Whole(s)
  /\ phase \in {"point", "wipe", "stage", "store", "mark", "install"} => Whole(0)

SlotsInv == HeadsMatch /\ HeadInRam /\ OneIsWhole /\ Bootable

(* The faults that leave one image's head over another's tail.               *)
WholeHeads == {"copy", "staging"} \cap Faults = {}

Content == [head: Firmware \cup {None, Hdr}, body: Firmware \cup {Junk}]

LEMMA SlotsInit == ASSUME Init PROVE SlotsInv
<1>1. PICK img \in Images, rest \in (Images \ Crashes) \cup {Stock, None} :
        slot = [s \in Slots |-> IF s = running THEN Holding(img)
                                ELSE IF rest = None THEN NoImage ELSE Holding(rest)]
  BY DEF Init
<1>2. running \in Slots /\ phase = "reset" /\ upload = [at |-> "none", img |-> None]
  BY DEF Init, NoUpload
<1>3. ASSUME NEW s \in Slots
      PROVE  slot[s] = Holding(img) \/ slot[s] = NoImage \/ (rest # None /\ slot[s] = Holding(rest))
  BY <1>1
<1>4. HeadsMatch
  <2> SUFFICES ASSUME NEW s \in Slots PROVE slot[s] \in Content /\ (Headless(s) \/ Whole(s))
    BY DEF HeadsMatch, Content
  <2> QED BY <1>1, <1>3, BootAssumption DEF Holding, NoImage, Firmware, Content, Headless, Whole
<1>5. slot[running] = Holding(img)
  BY <1>1, <1>2
<1>6. Whole(running)
  BY <1>5 DEF Whole, Holding, Firmware
<1> QED BY <1>2, <1>4, <1>6 DEF SlotsInv, HeadInRam, OneIsWhole, Bootable

(* Two images, one of them whole and the other whole or without a head: the  *)
(* bootloader's choice is whole.                                             *)
LEMMA ChoiceIsWhole == ASSUME SlotsInv, otadata \in Seq(Slots) PROVE Whole(Choice)
<1>1. FirstChoice \in Slots /\ Slots = {0, 1}
  BY DEF FirstChoice, Slots
<1>2. PICK w \in Slots : Whole(w)
  BY DEF SlotsInv, OneIsWhole
<1>3. CASE Headless(FirstChoice)
  <2>1. w # FirstChoice
    BY <1>2, <1>3 DEF Whole, Headless
  <2> QED BY <1>1, <1>2, <1>3, <2>1 DEF Choice, Other
<1>4. CASE ~Headless(FirstChoice)
  BY <1>1, <1>4 DEF SlotsInv, HeadsMatch, Choice
<1> QED BY <1>3, <1>4

(* Steps that write no slot.                                                 *)
LEMMA SlotsStand ==
  ASSUME SlotsInv, UNCHANGED slot, HeadInRam', phase' # "dead" \/ table' = "torn",
         phase' \in {"point", "wipe", "stage", "store", "mark", "install"} => Whole(0)
  PROVE  SlotsInv'
BY DEF SlotsInv, HeadsMatch, OneIsWhole, Bootable, Whole, Headless

(* A write to one slot while the other is whole.                             *)
LEMMA SlotWritten ==
  ASSUME SlotsInv, DOMAIN slot = Slots, NEW t \in Slots, NEW c \in Content,
         slot' = [slot EXCEPT ![t] = c], c.head \notin Firmware \/ c.body = c.head,
         Whole(Other(t)), HeadInRam', phase' # "dead",
         t = 1 \/ c.head \in Firmware
           \/ phase' \notin {"point", "wipe", "stage", "store", "mark", "install"}
  PROVE  SlotsInv'
<1>1. Slots = {0, 1} /\ Other(t) \in Slots /\ Other(t) # t
  BY DEF Slots, Other
<1>2. slot'[t] = c /\ slot'[Other(t)] = slot[Other(t)]
  BY <1>1
<1>3. HeadsMatch'
  <2> SUFFICES ASSUME NEW s \in Slots PROVE slot'[s] \in Content /\ (Headless(s) \/ Whole(s))'
    BY DEF HeadsMatch, Content
  <2>1. CASE s = t
    BY <1>2, <2>1 DEF Headless, Whole
  <2>2. CASE s = Other(t)
    BY <1>2, <2>2 DEF SlotsInv, HeadsMatch, Content, Headless, Whole
  <2> QED BY <1>1, <2>1, <2>2 DEF Other
<1>4. OneIsWhole'
  <2>1. Whole(Other(t))'
    BY <1>2 DEF Whole
  <2>2. c.head \in Firmware => Whole(t)'
    BY <1>2 DEF Whole
  <2>3. t = 1 => Whole(0)'
    BY <2>1 DEF Other
  <2> QED BY <1>1, <2>1, <2>2, <2>3 DEF OneIsWhole
<1> QED BY <1>3, <1>4 DEF SlotsInv, Bootable

(* No update is open but in a serving device.                                *)
LEMMA RamStands ==
  ASSUME SlotsInv,
         upload' = NoUpload \/ (UNCHANGED upload /\ (phase # "up" \/ (phase' = "up" /\ UNCHANGED <<slot, running>>)))
  PROVE  HeadInRam'
<1>1. CASE upload' = NoUpload
  <2>1. upload' \in [at: {"none", "open", "streaming", "streamed", "landed"}, img: Images \cup {None}]
        /\ upload'.at = "none"
    BY <1>1 DEF NoUpload
  <2> QED BY <2>1 DEF HeadInRam
<1>2. CASE UNCHANGED upload /\ phase # "up"
  BY <1>2 DEF SlotsInv, HeadInRam
<1>3. CASE UNCHANGED <<upload, slot, running>> /\ phase' = "up"
  BY <1>3 DEF SlotsInv, HeadInRam, Target, Other
<1> QED BY <1>1, <1>2, <1>3

(* The boot guard, the heartbeat and the update.                             *)
LEMMA SlotsBootStep == ASSUME SlotsInv, BootInv, BootStep PROVE SlotsInv'
<1> USE DEF flashVars, volatile
<1>0. /\ DOMAIN slot = Slots /\ running \in Slots /\ Slots = {0, 1} /\ otadata \in Seq(Slots)
      /\ Target \in Slots /\ Other(Target) = running
      /\ phase = "up" => Whole(running)
      /\ slot[Target] \in Content
  BY DEF BootInv, WhereInv, RunsWhole, Target, Other, Slots, SlotsInv, HeadsMatch, Content
<1>1. CASE Bootloader
  <2>1. UNCHANGED <<slot, upload, table>> /\ phase = "reset"
        /\ (phase' \in {"stock", "guard"} \/ (phase' = "dead" /\ table = "torn"))
    BY <1>0, <1>1, ChoiceIsWhole DEF Bootloader
  <2> QED BY <2>1, RamStands, SlotsStand
<1>2. CASE CountBoot \/ RollBackFails
  <2>1. UNCHANGED <<slot, upload>> /\ phase = "guard" /\ phase' = "init"
    BY <1>2 DEF CountBoot, RollBackFails
  <2> QED BY <2>1, RamStands, SlotsStand
<1>3. CASE RollBack \/ Panic \/ Reboot
  <2>1. UNCHANGED slot /\ upload' = NoUpload /\ phase' = "reset"
    BY <1>3 DEF RollBack, Panic, Reboot, Reset
  <2> QED BY <2>1, RamStands, SlotsStand
<1>4. CASE TakeForceAp \/ AskForAp \/ BootOk
  <2>1. UNCHANGED <<slot, upload, running>> /\ phase' = "up"
    BY <1>4 DEF TakeForceAp, AskForAp, BootOk, Healthy
  <2> QED BY <2>1, RamStands, SlotsStand
<1>5. CASE Abort \/ Activate \/ ActivateFails
  <2>1. UNCHANGED slot /\ upload' = NoUpload /\ phase = "up" /\ phase' = "up"
    BY <1>5 DEF Abort, Activate, ActivateFails
  <2> QED BY <2>1, RamStands, SlotsStand
<1>6. ASSUME NEW img \in Images, Begin(img) PROVE SlotsInv'
  <2>1. UNCHANGED slot /\ phase' = "up" /\ upload' = [at |-> "open", img |-> img]
    BY <1>6 DEF Begin
  <2>2. HeadInRam'
    BY <2>1 DEF HeadInRam
  <2> QED BY <2>1, <2>2, SlotsStand
<1>7. CASE FirstChunk \/ Stream \/ LandHead
  <2>1. /\ phase = "up" /\ phase' = "up" /\ UNCHANGED running /\ upload.at # "none"
        /\ Target' = Target
    BY <1>7 DEF FirstChunk, Stream, LandHead, Target, Other
  <2>2. PICK at \in {"streaming", "streamed", "landed"} : upload' = [upload EXCEPT !.at = at]
    BY <1>7 DEF FirstChunk, Stream, LandHead
  <2>3. /\ upload' \in [at: {"none", "open", "streaming", "streamed", "landed"}, img: Images \cup {None}]
        /\ upload'.img \in Images /\ upload.img \in Images /\ upload'.at = at
    BY <2>1, <2>2 DEF SlotsInv, HeadInRam
  <2>4. PICK c \in Content : /\ slot' = [slot EXCEPT ![Target] = c]
                             /\ c.head \notin Firmware \/ c.body = c.head
                             /\ at \in {"streaming", "streamed"} => c.head = None
    <3>1. CASE FirstChunk
      <4>1. slot' = [slot EXCEPT ![Target] = NoImage]
        BY <3>1 DEF FirstChunk, Begun
      <4>2. NoImage \in Content /\ NoImage.head = None /\ None \notin Firmware
        BY BootAssumption DEF NoImage, Content, Firmware
      <4> QED BY <4>1, <4>2
    <3>2. CASE Stream
      <4>1. PICK body \in {upload.img, Junk} : slot' = [slot EXCEPT ![Target].body = body]
        BY <3>2 DEF Stream
      <4>2. slot[Target].head = None /\ None \notin Firmware
        BY <3>2, BootAssumption DEF Stream, SlotsInv, HeadInRam, Firmware
      <4>3. [slot[Target] EXCEPT !.body = body] = [head |-> None, body |-> body]
        BY <1>0, <4>2 DEF Content
      <4>4. [head |-> None, body |-> body] \in Content
        BY <2>3 DEF Content, Firmware
      <4> QED BY <4>1, <4>2, <4>3, <4>4
    <3>3. CASE LandHead
      <4>1. slot' = [slot EXCEPT ![Target].head = upload.img] /\ slot[Target].body = upload.img
        BY <3>3 DEF LandHead, Verified
      <4>2. [slot[Target] EXCEPT !.head = upload.img] = [head |-> upload.img, body |-> upload.img]
        BY <1>0, <4>1 DEF Content
      <4>3. [head |-> upload.img, body |-> upload.img] \in Content
        BY <2>3 DEF Content, Firmware
      <4>4. at = "landed"
        <5>1. upload'.at = "landed"
          BY <2>1, <3>3 DEF LandHead, SlotsInv, HeadInRam
        <5> QED BY <2>3, <5>1
      <4> QED BY <4>1, <4>2, <4>3, <4>4
    <3> QED BY <1>7, <3>1, <3>2, <3>3
  <2>5. slot'[Target] = c
    BY <1>0, <2>4
  <2>6. HeadInRam'
    BY <2>1, <2>3, <2>4, <2>5 DEF HeadInRam
  <2> QED BY <1>0, <2>1, <2>4, <2>6, SlotWritten
<1> QED BY <1>1, <1>2, <1>3, <1>4, <1>5, <1>6, <1>7 DEF BootStep

(* What a self-copy or a staging that stops leaves in the slot it writes.    *)
LEMMA StopsHeadless ==
  ASSUME SlotsInv, DOMAIN slot = Slots, WholeHeads
  PROVE  /\ slot' \in HalfCopied
              => \/ slot' = slot
                 \/ \E c \in Content : c.head = None /\ slot' = [slot EXCEPT ![0] = c]
         /\ slot' \in HalfStaged
              => \E c \in Content : c.head \notin Firmware /\ slot' = [slot EXCEPT ![1] = c]
         /\ HeaderLost
              => \E c \in Content : c.head = None /\ slot' = [slot EXCEPT ![1] = c]
<1>1. slot[0] \in Content /\ slot[1] \in Content /\ "copy" \notin Faults /\ "staging" \notin Faults
  BY DEF SlotsInv, HeadsMatch, Content, Slots, WholeHeads
<1>2. ASSUME NEW t \in {0, 1}
      PROVE  [slot[t] EXCEPT !.head = None] \in Content /\ [slot[t] EXCEPT !.head = None].head = None
  BY <1>1 DEF Content
<1>3. ASSUME NEW h \in {None, slot[1].head}
      PROVE  [head |-> h, body |-> Junk] \in Content /\ [head |-> h, body |-> Junk].head = h
  BY <1>1 DEF Content
<1>4. slot' \in HalfCopied => slot' = [slot EXCEPT ![0].head = None]
  BY <1>1 DEF HalfCopied
<1>5. slot' \in HalfStaged
        => \E h \in {None, slot[1].head} : h \notin Firmware
             /\ slot' = [slot EXCEPT ![1] = [head |-> h, body |-> Junk]]
  BY <1>1, BootAssumption DEF HalfStaged, Headless, Firmware
<1> QED BY <1>2, <1>3, <1>4, <1>5 DEF HeaderLost

(* The takeover and the migration.                                           *)
LEMMA SlotsTableStep == ASSUME SlotsInv, BootInv, TableStep, WholeHeads PROVE SlotsInv'
<1> USE DEF flashVars, volatile, logs, Goto, Moving, Taking
<1>0. /\ DOMAIN slot = Slots /\ running \in Slots /\ Slots = {0, 1}
      /\ phase \notin {"reset", "dead"} => Whole(running)
      /\ phase \in {"stage", "store", "mark"} => running = 0
      /\ phase \in {"point", "wipe", "stage", "store", "mark", "install"} => Whole(0)
      /\ Other(1) = 0 /\ Other(0) = 1
  BY DEF BootInv, WhereInv, RunsWhole, StagingPhases, Slots, SlotsInv, OneIsWhole, Other
<1>1. CASE NothingToDo \/ InstallFails \/ Wipe \/ WipeFails \/ Settle \/ SettleFails
           \/ StoreLog \/ StoreFails \/ Mark
  <2>1. /\ UNCHANGED slot /\ (upload' = upload \/ upload' = NoUpload)
        /\ phase \notin {"up", "dead"} /\ phase' # "dead"
        /\ phase' \in {"net", "reset"} \/ phase # "init"
        /\ phase \in {"init", "point", "wipe", "stage", "store", "mark", "install"}
    BY <1>1 DEF NothingToDo, InstallFails, Wipe, WipeFails, Settle, SettleFails, StoreLog,
         StoreFails, Mark, RetryOrSettle, Reset
  <2> QED BY <1>0, <2>1, RamStands, SlotsStand
<1>2. CASE SelfCopy
  <2>1. /\ phase = "init" /\ phase' \in {"point", "wipe"} /\ UNCHANGED upload
        /\ \/ slot' = slot /\ (running = 0 \/ InPlace)
           \/ running = 1 /\ slot' = [slot EXCEPT ![0] = Holding(Image)]
    BY <1>0, <1>2 DEF SelfCopy
  <2>2. Image \in Firmware
    BY <1>0, <2>1 DEF Whole, Image
  <2>3. InPlace => Whole(0)
    BY <1>0, <2>2 DEF InPlace, SlotsInv, HeadsMatch, Headless
  <2>4. Holding(Image) \in Content /\ Holding(Image).body = Holding(Image).head
        /\ Holding(Image).head \in Firmware
    BY <2>2 DEF Holding, Content, Firmware
  <2>5. CASE slot' = slot
    <3>1. slot' = [slot EXCEPT ![0] = Holding(Image)] => slot'[0] = Holding(Image)
      BY <1>0
    <3>2. Whole(0)
      BY <1>0, <2>1, <2>3, <2>4, <2>5, <3>1 DEF Whole
    <3>3. HeadInRam'
      BY <2>1, RamStands
    <3> QED BY <2>1, <2>5, <3>2, <3>3, SlotsStand
  <2>6. CASE slot' # slot
    BY <1>0, <2>1, <2>4, <2>6, RamStands, SlotWritten
  <2> QED BY <2>5, <2>6
<1>3. CASE TakeoverCopyFails \/ MigrateCopyFails
  <2>1. /\ phase = "init" /\ phase' \in {"net", "reset"} /\ (upload' = upload \/ upload' = NoUpload)
        /\ slot' = slot \/ (running = 1 /\ slot' \in HalfCopied)
    BY <1>3 DEF TakeoverCopyFails, MigrateCopyFails, RetryOrSettle, Reset
  <2>2. HeadInRam'
    BY <2>1, RamStands
  <2>3. CASE slot' = slot
    BY <2>1, <2>2, <2>3, SlotsStand
  <2>4. CASE slot' # slot
    <3>1. PICK c \in Content : c.head = None /\ slot' = [slot EXCEPT ![0] = c]
      BY <1>0, <2>1, <2>4, StopsHeadless
    <3>2. c.head \notin Firmware
      BY <3>1, BootAssumption DEF Firmware
    <3> QED BY <1>0, <2>1, <2>2, <2>4, <3>1, <3>2, SlotWritten
  <2> QED BY <2>3, <2>4
<1>4. CASE TakeoverInstall \/ Install
  <2>1. /\ phase = "install" /\ phase' = "reset" /\ upload' = NoUpload
        /\ slot' = [slot EXCEPT ![1] = NoImage]
    BY <1>4 DEF TakeoverInstall, Install, NewTable, Reset
  <2>2. NoImage \in Content /\ NoImage.head \notin Firmware
    BY BootAssumption DEF NoImage, Content, Firmware
  <2> QED BY <1>0, <2>1, <2>2, RamStands, SlotWritten
<1>5. CASE StageLog
  <2>1. /\ phase = "stage" /\ phase' = "store" /\ UNCHANGED upload
        /\ slot' = slot \/ slot' = [slot EXCEPT ![1] = [head |-> Hdr, body |-> Junk]]
    BY <1>5 DEF StageLog
  <2>2. [head |-> Hdr, body |-> Junk] \in Content /\ [head |-> Hdr, body |-> Junk].head \notin Firmware
    BY BootAssumption DEF Content, Firmware
  <2>3. CASE slot' = slot
    BY <1>0, <2>1, <2>3, RamStands, SlotsStand
  <2>4. CASE slot' # slot
    BY <1>0, <2>1, <2>2, <2>4, RamStands, SlotWritten
  <2> QED BY <2>3, <2>4
<1>6. CASE StageFails \/ MarkFails
  <2>1. /\ phase \in {"stage", "mark"} /\ phase' = "net" /\ UNCHANGED upload
        /\ slot' = slot \/ slot' \in HalfStaged \/ HeaderLost
    BY <1>6 DEF StageFails, MarkFails
  <2>2. HeadInRam'
    BY <2>1, RamStands
  <2>3. CASE slot' = slot
    BY <2>1, <2>2, <2>3, SlotsStand
  <2>4. CASE slot' # slot
    <3>1. PICK c \in Content : c.head \notin Firmware /\ slot' = [slot EXCEPT ![1] = c]
      <4>1. None \notin Firmware
        BY BootAssumption DEF Firmware
      <4> QED BY <1>0, <2>1, <2>4, <4>1, StopsHeadless
    <3> QED BY <1>0, <2>1, <2>2, <3>1, SlotWritten
  <2> QED BY <2>3, <2>4
<1> QED BY <1>1, <1>2, <1>3, <1>4, <1>5, <1>6 DEF TableStep, Takeover, Migrate

(* A power cut.                                                              *)
LEMMA SlotsCut == ASSUME SlotsInv, BootInv, PowerCut, WholeHeads PROVE SlotsInv'
<1> USE DEF flashVars, logs
<1>0. /\ DOMAIN slot = Slots /\ Slots = {0, 1} /\ Other(1) = 0 /\ Other(0) = 1
      /\ phase \notin {"reset", "dead"} => Whole(running)
      /\ phase = "install" => Whole(0)
      /\ phase' = "reset" /\ HeadInRam'
  <2>1. upload' = NoUpload /\ phase' = "reset"
    BY DEF PowerCut, Reset
  <2> QED BY <2>1, RamStands DEF BootInv, WhereInv, RunsWhole, Slots, Other, SlotsInv, OneIsWhole
<1>1. CASE UNCHANGED slot
  BY <1>0, <1>1, SlotsStand
<1>2. CASE (CutInCopy \/ CutInGuard) /\ slot' # slot
  <2>1. phase = "init" /\ running = 1 /\ slot' \in HalfCopied
    BY <1>2 DEF CutInCopy, CutInGuard, Taking
  <2>2. PICK c \in Content : c.head = None /\ slot' = [slot EXCEPT ![0] = c]
    BY <1>0, <1>2, <2>1, StopsHeadless
  <2>3. c.head \notin Firmware
    BY <2>2, BootAssumption DEF Firmware
  <2> QED BY <1>0, <2>1, <2>2, <2>3, SlotWritten
<1>3. CASE CutInStaging \/ CutInMark
  <2>1. Whole(0) /\ (slot' \in HalfStaged \/ HeaderLost)
    BY <1>3 DEF CutInStaging, CutInMark, Moving, SlotsInv, OneIsWhole
  <2>2. PICK c \in Content : c.head \notin Firmware /\ slot' = [slot EXCEPT ![1] = c]
    <3>1. None \notin Firmware
      BY BootAssumption DEF Firmware
    <3> QED BY <1>0, <2>1, <3>1, StopsHeadless
  <2> QED BY <1>0, <2>1, <2>2, SlotWritten
<1>4. CASE CutInInstall /\ slot' # slot
  <2>1. phase = "install" /\ slot' = [slot EXCEPT ![1] = NoImage]
    BY <1>4 DEF CutInInstall, NewTable, Taking, Moving
  <2>2. NoImage \in Content /\ NoImage.head \notin Firmware
    BY BootAssumption DEF NoImage, Content, Firmware
  <2> QED BY <1>0, <2>1, <2>2, SlotWritten
<1> QED BY <1>1, <1>2, <1>3, <1>4
        DEF PowerCut, CutBetween, CutInRollBack, CutInMarker, CutInActivate,
            CutInErase, CutInStore

LEMMA SlotsStep == ASSUME SlotsInv, BootInv, [Next]_vars, WholeHeads PROVE SlotsInv'
<1>1. CASE BootOnly
  BY <1>1, SlotsBootStep DEF BootOnly
<1>2. CASE TableStep
  BY <1>2, SlotsTableStep
<1>3. CASE Save
  <2>1. UNCHANGED <<slot, upload, running>> /\ phase' = "up"
    BY <1>3 DEF Save, flashVars, volatile
  <2> QED BY <2>1, RamStands, SlotsStand
<1>4. CASE PowerCut
  BY <1>4, SlotsCut
<1>5. CASE UNCHANGED vars
  BY <1>5 DEF vars, bootVars, flashVars, volatile, SlotsInv, HeadsMatch, HeadInRam, OneIsWhole,
     Bootable, Whole, Headless, Target, Other
<1> QED BY <1>1, <1>2, <1>3, <1>4, <1>5 DEF Next

(* The bootloader always finds a whole image, if no self-copy stops after    *)
(* the first sector and no staging under the old image's head.               *)
THEOREM AlwaysBootable == ASSUME WholeHeads PROVE Spec => []Bootable
<1>1. Init => SlotsInv
  BY SlotsInit
<1>2. SlotsInv /\ BootInv /\ [Next]_vars => SlotsInv'
  BY SlotsStep
<1>3. SlotsInv => Bootable
  BY DEF SlotsInv
<1> QED BY <1>1, <1>2, <1>3, BootInvariant, PTL DEF Spec

-----------------------------------------------------------------------------
(* The guard record.                                                         *)

Early == {"reset", "guard"}

RecordTypes ==
  /\ guard \in [attempts: Nat, force: BOOLEAN, retries: 0..2]
  /\ bad \in 0..2 /\ aps \in Nat /\ tries \in Nat
  /\ used \in [faults: Nat, uploads: Nat, asks: Nat, saves: Nat]

(* Up to the count of this boot, the record has one attempt for each failed  *)
(* boot; from then on one more, until a reset without failure clears it.     *)
CountsFailures ==
  /\ bad < 2 /\ phase \in Early => guard.attempts <= bad
  /\ bad = 0 => guard.attempts <= 1
  /\ bad = 1 => guard.attempts <= 2
  /\ phase = "install" /\ table = "foreign" => guard.attempts = 0

RetriesCounted == "wipe" \notin Faults => tries <= guard.retries

RecordInv == RecordTypes /\ CountsFailures /\ OneApPerRequest /\ RetriesCounted

USE DEF RecordInv, RecordTypes, CountsFailures, OneApPerRequest, RetriesCounted, Early

(* A delivered device.                                                       *)
LEMMA RecordInit == ASSUME Init PROVE RecordInv
BY DEF Init, Blank

(* Steps that leave the record and what it is measured by alone, and start   *)
(* no new boot.                                                              *)
LEMMA RecordStands ==
  ASSUME RecordInv, UNCHANGED <<guard, bad, aps, tries>>,
         used' \in [faults: Nat, uploads: Nat, asks: Nat, saves: Nat], used'.asks = used.asks,
         phase' \in Early => phase \in Early,
         phase' = "install" /\ table' = "foreign"
           => (phase = "install" /\ table = "foreign") \/ guard.attempts = 0
  PROVE  RecordInv'
OBVIOUS

(* A record with no attempt, and as much of the request as there was.        *)
LEMMA ClearedRecord ==
  ASSUME RecordInv, NEW f \in BOOLEAN, NEW n \in 0..2,
         guard' = [attempts |-> 0, force |-> f, retries |-> n],
         f = FALSE \/ f = guard.force, UNCHANGED aps, bad' \in 0..2, tries' \in Nat,
         "wipe" \notin Faults => tries' <= n,
         used' \in [faults: Nat, uploads: Nat, asks: Nat, saves: Nat], used'.asks = used.asks
  PROVE  RecordInv'
<1>1. guard'.attempts = 0 /\ guard'.retries = n
  OBVIOUS
<1>2. OneApPerRequest'
  <2>1. CASE f = FALSE
    BY <2>1
  <2>2. CASE f = guard.force
    BY <2>2
  <2> QED BY <2>1, <2>2
<1>3. RecordTypes'
  BY <1>1
<1>4. CountsFailures'
  BY <1>1
<1>5. RetriesCounted'
  BY <1>1
<1> QED BY <1>2, <1>3, <1>4, <1>5

(* retry_or_settle with the record it read, or with none.                    *)
LEMMA RetryStep ==
  ASSUME RecordInv, NEW g, RetryOrSettle(g), UNCHANGED <<aps, bad>>,
         g = guard \/ (g = Blank /\ "wipe" \in Faults),
         used' \in [faults: Nat, uploads: Nat, asks: Nat, saves: Nat], used'.asks = used.asks
  PROVE  RecordInv'
<1>1. g \in [attempts: Nat, force: BOOLEAN, retries: 0..2] /\ (g.force = FALSE \/ g.force = guard.force)
      /\ ("wipe" \notin Faults => tries <= g.retries)
  <2>1. CASE g = guard
    BY <2>1
  <2>2. CASE g = Blank /\ "wipe" \in Faults
    <3>1. Blank \in [attempts: Nat, force: BOOLEAN, retries: 0..2] /\ Blank.force = FALSE
      BY DEF Blank
    <3> QED BY <2>2, <3>1
  <2> QED BY <2>1, <2>2
<1>2. CASE RetriesLeft(g)
  <2>1. guard' = [attempts |-> 0, force |-> g.force, retries |-> g.retries + 1] /\ tries' = tries + 1
    BY <1>1, <1>2 DEF RetryOrSettle
  <2>2. g.retries + 1 \in 0..2 /\ tries' \in Nat /\ ("wipe" \notin Faults => tries' <= g.retries + 1)
    BY <1>1, <1>2, <2>1 DEF RetriesLeft
  <2>3. g.force \in BOOLEAN /\ bad' \in 0..2
    BY <1>1
  <2> HIDE DEF RecordInv, RecordTypes, CountsFailures, OneApPerRequest, RetriesCounted
  <2> QED BY <1>1, <2>1, <2>2, <2>3, ClearedRecord
<1>3. CASE ~RetriesLeft(g)
  <2>1. guard' = [attempts |-> g.attempts, force |-> g.force, retries |-> 0] /\ tries' = 0
        /\ phase' = "net"
    BY <1>1, <1>3 DEF RetryOrSettle, Goto
  <2>2. g.attempts <= guard.attempts
    BY DEF Blank
  <2>3. OneApPerRequest'
    BY <1>1, <2>1
  <2>4. RecordTypes' /\ CountsFailures' /\ RetriesCounted'
    BY <1>1, <2>1, <2>2
  <2> QED BY <2>3, <2>4
<1> QED BY <1>2, <1>3

(* Faults, uploads and saves are no requests for the access point.           *)
LEMMA SpendsNoAsk ==
  ASSUME RecordInv, used' = used \/ Spend("faults") \/ Spend("uploads") \/ Spend("saves")
  PROVE  used' \in [faults: Nat, uploads: Nat, asks: Nat, saves: Nat] /\ used'.asks = used.asks
BY DEF Spend

LEMMA BadGrows == ASSUME RecordInv PROVE MoreBad \in 0..2 /\ (MoreBad < 2 => bad = 0 /\ MoreBad = 1)
BY DEF MoreBad

(* The boot guard, the heartbeat and the update.                             *)
LEMMA RecordBootStep == ASSUME RecordInv, BootStep, UNCHANGED tries PROVE RecordInv'
<1> USE DEF flashVars, volatile
<1>0. /\ guard.attempts \in Nat /\ guard.force \in BOOLEAN /\ guard.retries \in 0..2
      /\ guard = [attempts |-> guard.attempts, force |-> guard.force, retries |-> guard.retries]
      /\ ("wipe" \notin Faults => tries <= guard.retries)
      /\ [guard EXCEPT !.attempts = 0] = [attempts |-> 0, force |-> guard.force, retries |-> guard.retries]
  OBVIOUS
<1>1. CASE Bootloader
  BY <1>1, RecordStands DEF Bootloader
<1>2. CASE CountBoot
  <2>1. guard' = [attempts |-> guard.attempts + 1, force |-> guard.force, retries |-> guard.retries]
        /\ phase' = "init" /\ phase = "guard" /\ UNCHANGED <<aps, bad, used>>
    BY <1>0, <1>2 DEF CountBoot, NextCount
  <2>2. RecordTypes' /\ OneApPerRequest' /\ RetriesCounted'
    BY <1>0, <2>1
  <2>3. CountsFailures'
    BY <1>0, <2>1
  <2> QED BY <2>2, <2>3
<1>3. CASE RollBack
  <2>1. guard' = [attempts |-> 0, force |-> guard.force, retries |-> guard.retries]
        /\ bad' = 0 /\ UNCHANGED <<aps, used>>
    BY <1>0, <1>3 DEF RollBack
  <2>2. bad' \in 0..2 /\ tries' \in Nat
    BY <2>1
  <2> HIDE DEF RecordInv, RecordTypes, CountsFailures, OneApPerRequest, RetriesCounted
  <2> QED BY <1>0, <2>1, <2>2, ClearedRecord, SpendsNoAsk
<1>4. CASE RollBackFails
  <2>1. guard' = [attempts |-> guard.attempts + 1, force |-> guard.force, retries |-> guard.retries]
        /\ phase' = "init" /\ UNCHANGED <<aps, bad>>
    BY <1>0, <1>4 DEF RollBackFails, NextCount
  <2>2. bad = 2
    BY <1>4 DEF RollBackFails
  <2>3. used' \in [faults: Nat, uploads: Nat, asks: Nat, saves: Nat] /\ used'.asks = used.asks
    BY <1>4, SpendsNoAsk DEF RollBackFails, Fault
  <2>4. RecordTypes' /\ OneApPerRequest' /\ RetriesCounted'
    BY <1>0, <2>1, <2>3
  <2>5. CountsFailures'
    BY <1>0, <2>1, <2>2
  <2> QED BY <2>4, <2>5
<1>5. CASE Panic
  <2>1. UNCHANGED <<guard, aps, used>> /\ phase' = "reset" /\ bad' = MoreBad
    BY <1>5 DEF Panic, Reset
  <2>2. CountsFailures'
    BY <1>0, <2>1, BadGrows
  <2>3. RecordTypes' /\ OneApPerRequest' /\ RetriesCounted'
    BY <2>1, BadGrows
  <2> QED BY <2>2, <2>3
<1>6. CASE TakeForceAp
  <2>1. guard' = [attempts |-> guard.attempts, force |-> FALSE, retries |-> guard.retries]
        /\ phase' = "up" /\ UNCHANGED <<bad, used>>
        /\ aps' = IF guard.force THEN aps + 1 ELSE aps
    BY <1>0, <1>6 DEF TakeForceAp, ForceTaken
  <2>2. OneApPerRequest'
    <3>1. CASE guard.force
      BY <2>1, <3>1
    <3>2. CASE ~guard.force
      BY <2>1, <3>2
    <3> QED BY <3>1, <3>2
  <2>3. aps' \in Nat
    BY <1>0, <2>1
  <2>4. RecordTypes' /\ CountsFailures' /\ RetriesCounted'
    BY <1>0, <2>1, <2>3
  <2> QED BY <2>2, <2>4
<1>7. CASE AskForAp
  <2>1. guard' = [attempts |-> guard.attempts, force |-> TRUE, retries |-> guard.retries]
        /\ phase' = "up" /\ UNCHANGED <<bad, aps>>
    BY <1>0, <1>7 DEF AskForAp, Healthy
  <2>2. used' \in [faults: Nat, uploads: Nat, asks: Nat, saves: Nat] /\ used'.asks = used.asks + 1
    BY <1>7 DEF AskForAp, Spend
  <2>3. OneApPerRequest'
    <3>1. guard'.force
      BY <2>1
    <3> QED BY <2>1, <2>2, <3>1
  <2>4. RecordTypes' /\ CountsFailures' /\ RetriesCounted'
    BY <1>0, <2>1, <2>2
  <2> QED BY <2>3, <2>4
<1>8. CASE BootOk \/ Reboot
  <2>1. guard' = [attempts |-> 0, force |-> guard.force, retries |-> guard.retries]
        /\ bad' = 0 /\ UNCHANGED <<aps, used>>
    BY <1>0, <1>8 DEF BootOk, Reboot, ClearedAttempts
  <2>2. bad' \in 0..2 /\ tries' \in Nat
    BY <2>1
  <2> HIDE DEF RecordInv, RecordTypes, CountsFailures, OneApPerRequest, RetriesCounted
  <2> QED BY <1>0, <2>1, <2>2, ClearedRecord, SpendsNoAsk
<1>9. CASE (\E img \in Images : Begin(img)) \/ FirstChunk \/ Stream \/ Abort \/ LandHead \/ Activate
         \/ ActivateFails
  <2>1. UNCHANGED <<guard, bad, aps, phase>> /\ phase = "up"
        /\ (used' = used \/ Spend("uploads") \/ Spend("faults"))
    BY <1>9 DEF Begin, FirstChunk, Stream, Abort, LandHead, Activate, ActivateFails, Fault
  <2> HIDE DEF RecordInv, RecordTypes, CountsFailures, OneApPerRequest, RetriesCounted
  <2> QED BY <2>1, SpendsNoAsk, RecordStands
<1> QED BY <1>1, <1>2, <1>3, <1>4, <1>5, <1>6, <1>7, <1>8, <1>9 DEF BootStep

(* The takeover and the migration.                                           *)
LEMMA RecordTableStep == ASSUME RecordInv, TableStep PROVE RecordInv'
<1> USE DEF flashVars, volatile, logs, Goto, Reset
<1>0. /\ guard.attempts \in Nat /\ guard.force \in BOOLEAN /\ guard.retries \in 0..2
      /\ bad \in 0..2 /\ tries \in Nat
      /\ ("wipe" \notin Faults => tries <= guard.retries)
      /\ [guard EXCEPT !.attempts = 0] = [attempts |-> 0, force |-> guard.force, retries |-> guard.retries]
  OBVIOUS
<1>1. CASE NothingToDo \/ SelfCopy \/ InstallFails \/ MigrateCopyFails \/ SettleFails
           \/ StageLog \/ StageFails \/ StoreLog \/ StoreFails \/ Mark \/ MarkFails
  <2>1. UNCHANGED <<guard, bad, aps, tries>> /\ (used' = used \/ Spend("faults"))
        /\ phase' \notin Early
    BY <1>1 DEF NothingToDo, SelfCopy, InstallFails, MigrateCopyFails, SettleFails, StageLog,
         StageFails, StoreLog, StoreFails, Mark, MarkFails, Fault
  <2>2. ~(phase' = "install" /\ table' = "foreign")
    BY <1>1 DEF NothingToDo, SelfCopy, InstallFails, MigrateCopyFails, SettleFails, StageLog,
         StageFails, StoreLog, StoreFails, Mark, MarkFails, Moving
  <2> HIDE DEF RecordInv, RecordTypes, CountsFailures, OneApPerRequest, RetriesCounted
  <2> QED BY <2>1, <2>2, SpendsNoAsk, RecordStands
<1>2. CASE TakeoverCopyFails
  <2>1. RetryOrSettle(guard) /\ UNCHANGED <<aps, bad>> /\ Spend("faults")
    BY <1>2 DEF TakeoverCopyFails, Fault
  <2> HIDE DEF RecordInv, RecordTypes, CountsFailures, OneApPerRequest, RetriesCounted
  <2> QED BY <2>1, SpendsNoAsk, RetryStep
<1>3. CASE WipeFails
  <2>1. UNCHANGED <<aps, bad>> /\ Spend("faults")
        /\ (RetryOrSettle(guard) \/ ("wipe" \in Faults /\ RetryOrSettle(Blank)))
    BY <1>3 DEF WipeFails, Fault
  <2> HIDE DEF RecordInv, RecordTypes, CountsFailures, OneApPerRequest, RetriesCounted
  <2> QED BY <2>1, SpendsNoAsk, RetryStep
<1>4. CASE Wipe
  <2>1. guard' = [attempts |-> 0, force |-> FALSE, retries |-> 0] /\ tries' = 0
        /\ UNCHANGED <<aps, bad, used>>
    BY <1>4 DEF Wipe, Blank
  <2>2. bad' \in 0..2 /\ tries' \in Nat /\ tries' <= 0 /\ 0 \in 0..2
    BY <1>0, <2>1
  <2> HIDE DEF RecordInv, RecordTypes, CountsFailures, OneApPerRequest, RetriesCounted
  <2> QED BY <2>1, <2>2, SpendsNoAsk, ClearedRecord
<1>5. CASE Settle \/ Install
  <2>1. guard' = [attempts |-> 0, force |-> guard.force, retries |-> guard.retries]
        /\ UNCHANGED <<aps, bad, used, tries>>
    BY <1>0, <1>5 DEF Settle, Install, ClearedAttempts
  <2> HIDE DEF RecordInv, RecordTypes, CountsFailures, OneApPerRequest, RetriesCounted
  <2> QED BY <1>0, <2>1, SpendsNoAsk, ClearedRecord
<1>6. CASE TakeoverInstall
  <2>1. UNCHANGED <<guard, bad, aps, used>> /\ tries' = 0 /\ phase' = "reset" /\ guard.attempts = 0
    BY <1>6 DEF TakeoverInstall, Taking
  <2>2. CountsFailures'
    BY <1>0, <2>1
  <2>3. RecordTypes' /\ OneApPerRequest' /\ RetriesCounted'
    BY <1>0, <2>1
  <2> QED BY <2>2, <2>3
<1> QED BY <1>1, <1>2, <1>3, <1>4, <1>5, <1>6 DEF TableStep, Takeover, Migrate

(* A power cut.                                                              *)
LEMMA RecordCut == ASSUME RecordInv, PowerCut PROVE RecordInv'
<1> USE DEF flashVars, logs
<1>0. /\ guard.attempts \in Nat /\ guard.force \in BOOLEAN /\ guard.retries \in 0..2
      /\ bad \in 0..2
      /\ [guard EXCEPT !.attempts = 0] = [attempts |-> 0, force |-> guard.force, retries |-> guard.retries]
      /\ MoreBad \in 0..2
  BY BadGrows
<1>1. /\ phase' = "reset" /\ bad' = MoreBad /\ tries' = 0 /\ UNCHANGED aps /\ Spend("faults")
      /\ (guard' = guard \/ guard' = Blank \/ guard' = ClearedAttempts)
  BY DEF PowerCut, Reset, Fault, CutBetween, CutInGuard, CutInRollBack, CutInMarker, CutInActivate,
     CutInCopy, CutInErase, CutInStaging, CutInStore, CutInMark, CutInInstall
<1>2. used' \in [faults: Nat, uploads: Nat, asks: Nat, saves: Nat] /\ used'.asks = used.asks
  BY <1>1, SpendsNoAsk
<1>3. CASE guard' = guard
  <2>1. CountsFailures'
    BY <1>0, <1>1, <1>3, BadGrows
  <2>2. RecordTypes' /\ OneApPerRequest' /\ RetriesCounted'
    BY <1>0, <1>1, <1>2, <1>3
  <2> QED BY <2>1, <2>2
<1>4. CASE guard' = Blank
  <2>1. guard' = [attempts |-> 0, force |-> FALSE, retries |-> 0]
    BY <1>4 DEF Blank
  <2>2. bad' \in 0..2 /\ tries' \in Nat /\ tries' <= 0 /\ 0 \in 0..2
    BY <1>0, <1>1
  <2> HIDE DEF RecordInv, RecordTypes, CountsFailures, OneApPerRequest, RetriesCounted
  <2> QED BY <1>1, <1>2, <2>1, <2>2, ClearedRecord
<1>5. CASE guard' = ClearedAttempts
  <2>1. guard' = [attempts |-> 0, force |-> guard.force, retries |-> guard.retries]
    BY <1>0, <1>5 DEF ClearedAttempts
  <2>2. bad' \in 0..2 /\ tries' \in Nat /\ tries' <= guard.retries
    BY <1>0, <1>1
  <2> HIDE DEF RecordInv, RecordTypes, CountsFailures, OneApPerRequest, RetriesCounted
  <2> QED BY <1>0, <1>1, <1>2, <2>1, <2>2, ClearedRecord
<1> QED BY <1>1, <1>3, <1>4, <1>5

LEMMA RecordStep == ASSUME RecordInv, [Next]_vars PROVE RecordInv'
<1>1. CASE BootOnly
  BY <1>1, RecordBootStep DEF BootOnly
<1>2. CASE TableStep
  BY <1>2, RecordTableStep
<1>3. CASE Save
  <2>1. UNCHANGED <<guard, bad, aps, phase, tries>> /\ phase = "up" /\ Spend("saves")
    BY <1>3 DEF Save, flashVars
  <2> HIDE DEF RecordInv, RecordTypes, CountsFailures, OneApPerRequest, RetriesCounted
  <2> QED BY <2>1, SpendsNoAsk, RecordStands
<1>4. CASE PowerCut
  BY <1>4, RecordCut
<1>5. CASE UNCHANGED vars
  <2>1. UNCHANGED <<guard, bad, aps, phase, table, tries, used>>
    BY <1>5 DEF vars, bootVars, flashVars
  <2> HIDE DEF RecordInv, RecordTypes, CountsFailures, OneApPerRequest, RetriesCounted
  <2> QED BY <2>1, SpendsNoAsk, RecordStands
<1> QED BY <1>1, <1>2, <1>3, <1>4, <1>5 DEF Next

THEOREM RecordInvariant == Spec => []RecordInv
BY RecordInit, RecordStep, PTL DEF Spec

(* What the guard record says is so: the failed boots it counts happened, a  *)
(* deliberate reboot is none of them, and one request for the access point   *)
(* brings up one.  Whatever is cut or refused, in every fault class.         *)
THEOREM RecordStaysHonest == Spec => []RecordIsHonest
<1>1. RecordInv => RecordIsHonest
  BY DEF RecordIsHonest, AttemptsAreFailures
<1> QED BY <1>1, RecordInvariant, PTL

(* A takeover that keeps failing settles, if the wipe of the config region   *)
(* does not fail between the guard record and otadata.                       *)
THEOREM RetriesEnd == ASSUME "wipe" \notin Faults PROVE Spec => []TakeoverGivesUp
<1>1. RecordInv => TakeoverGivesUp
  BY DEF TakeoverGivesUp
<1> QED BY <1>1, RecordInvariant, PTL
-----------------------------------------------------------------------------
(* The library.                                                              *)

SlotOne == slot[1] \in [head: Firmware \cup {None, Hdr}, body: Firmware \cup {Junk}]

UploadOpen ==
  /\ hold \in BOOLEAN
  /\ upload \in [at: {"none", "open", "streaming", "streamed", "landed"}, img: Images \cup {None}]
  /\ upload.at # "none" => phase = "up" /\ ~hold /\ upload.img \in Images

(* Where the library is: in the log of the table in force, but from the      *)
(* staging header on in the staging area, and from the new store on there.   *)
LogsInv ==
  /\ lib \in Nat /\ stage \in 1..3 /\ overlap \in BOOLEAN
  /\ table = "old" /\ (~overlap \/ ~Resuming) => oldLog = lib
  /\ table = "old" /\ Resuming
       => staged = lib /\ oldLog \in {lib, Gone} /\ (stage > 1 => newLog = lib)
  /\ table = "new" => newLog = lib

(* The header stands while it is gone by, and updates are refused once the   *)
(* staging area is the only copy.                                            *)
HeaderStands ==
  table = "old" /\ phase \in {"store", "mark", "install"}
    => /\ Resuming /\ (overlap => hold)
       /\ phase # "store" => newLog = lib
       /\ phase = "mark" => stage < 3

Held == table = "old" /\ phase \in {"net", "up"} /\ Resuming /\ oldLog = Gone => hold

LibInv == SlotOne /\ UploadOpen /\ LogsInv /\ HeaderStands /\ Held

(* No update, no hold.                                                       *)
LEMMA NothingOpen == ASSUME hold = FALSE, upload = [at |-> "none", img |-> None] PROVE UploadOpen
<1>1. upload \in [at: {"none", "open", "streaming", "streamed", "landed"}, img: Images \cup {None}]
      /\ upload.at = "none"
  OBVIOUS
<1>2. hold \in BOOLEAN
  BY Zenon
<1> QED BY <1>1, <1>2 DEF UploadOpen

LEMMA LibInit == ASSUME Init PROVE LibInv
<1>1. slot[1] \in [head: Firmware \cup {None, Hdr}, body: Firmware \cup {Junk}] /\ slot[1].head # Hdr
  <2>1. PICK img \in Images, rest \in (Images \ Crashes) \cup {Stock, None} :
          slot = [s \in Slots |-> IF s = running THEN Holding(img)
                                  ELSE IF rest = None THEN NoImage ELSE Holding(rest)]
    BY DEF Init
  <2>2. slot[1] = Holding(img) \/ slot[1] = NoImage \/ (rest # None /\ slot[1] = Holding(rest))
    BY <2>1 DEF Slots
  <2> QED BY <2>1, <2>2, BootAssumption DEF Holding, NoImage, Firmware
<1>2. UploadOpen
  <2>1. hold = FALSE /\ upload = [at |-> "none", img |-> None]
    BY DEF Init, NoUpload
  <2> QED BY <2>1, NothingOpen
<1>3. LogsInv
  <2>1. lib = 0 /\ stage = 1 /\ overlap \in BOOLEAN /\ ~Resuming
    BY <1>1 DEF Init, Resuming
  <2>2. (table = "old" => oldLog = 0) /\ (table = "new" => newLog = 0)
    BY DEF Init
  <2> QED BY <2>1, <2>2 DEF LogsInv
<1>4. HeaderStands /\ Held
  BY DEF HeaderStands, Held, Init
<1> QED BY <1>1, <1>2, <1>3, <1>4 DEF LibInv, SlotOne

(* Steps that touch no copy of the library and not the staging header.       *)
LEMMA LibStands ==
  ASSUME LibInv, UNCHANGED <<logs, overlap, lib, table>>, SlotOne', slot'[1].head = slot[1].head,
         UploadOpen', phase' \notin {"store", "mark", "install"} \/ table # "old",
         table = "old" /\ phase' \in {"net", "up"} /\ Resuming /\ oldLog = Gone => hold'
  PROVE  LibInv'
<1>1. Resuming' = Resuming
  BY DEF Resuming
<1>2. LogsInv'
  BY <1>1 DEF LibInv, LogsInv, logs
<1>3. HeaderStands' /\ Held'
  BY <1>1 DEF HeaderStands, Held, logs
<1> QED BY <1>2, <1>3 DEF LibInv

(* A slot 1 rewritten with no header that counts for the library.            *)
LEMMA StagingGone ==
  ASSUME LibInv, UNCHANGED <<logs, overlap, lib, table>>, SlotOne', slot'[1].head # Hdr,
         table = "old" => oldLog = lib,
         UploadOpen', phase' \notin {"store", "mark", "install"} \/ table # "old"
  PROVE  LibInv'
<1>1. ~Resuming'
  BY DEF Resuming
<1>2. LogsInv'
  BY <1>1 DEF LibInv, LogsInv, logs
<1>3. HeaderStands' /\ Held'
  BY <1>1 DEF HeaderStands, Held
<1> QED BY <1>2, <1>3 DEF LibInv

(* A reset drops the update and the hold.                                    *)
LEMMA ResetDrops == ASSUME Reset PROVE UploadOpen' /\ phase' = "reset"
<1>1. hold' = FALSE /\ upload' = [at |-> "none", img |-> None] /\ phase' = "reset"
  BY DEF Reset, NoUpload
<1>2. hold' \in BOOLEAN
  BY <1>1, Zenon
<1>3. upload' \in [at: {"none", "open", "streaming", "streamed", "landed"}, img: Images \cup {None}]
      /\ upload'.at = "none"
  BY <1>1
<1> QED BY <1>1, <1>2, <1>3 DEF UploadOpen

(* The boot guard, the heartbeat and the update: a slot 1 that is the only   *)
(* copy is never opened for an update.                                       *)
LEMMA LibBootStep ==
  ASSUME LibInv, BootInv, BootStep, UNCHANGED <<overlap, logs, lib>>
  PROVE  LibInv'
<1> USE DEF flashVars, volatile
<1>0. /\ DOMAIN slot = {0, 1} /\ Target \in {0, 1} /\ SlotOne /\ UploadOpen
      /\ phase # "up" => upload.at = "none"
      /\ table = "old" /\ phase \in {"net", "up"} /\ Resuming /\ oldLog = Gone => hold
  BY DEF BootInv, WhereInv, Target, Other, Slots, LibInv, UploadOpen, Held
<1>1. upload.at # "none" => phase = "up" /\ ~hold /\ upload.img \in Images
                            /\ (table = "old" => oldLog = lib)
  BY DEF LibInv, UploadOpen, LogsInv, Held
<1>2. UNCHANGED slot => SlotOne' /\ slot'[1].head = slot[1].head
  BY <1>0 DEF SlotOne
<1>3. CASE Bootloader \/ CountBoot \/ RollBackFails
  <2>1. UNCHANGED <<slot, table, upload, hold>> /\ upload.at = "none"
        /\ phase' \in {"dead", "stock", "guard", "init"}
    BY <1>0, <1>3 DEF Bootloader, CountBoot, RollBackFails
  <2>2. UploadOpen'
    BY <1>0, <2>1 DEF UploadOpen
  <2> QED BY <1>2, <2>1, <2>2, LibStands
<1>4. CASE RollBack \/ Panic \/ Reboot
  <2>1. UNCHANGED <<slot, table>> /\ Reset
    BY <1>4 DEF RollBack, Panic, Reboot
  <2> QED BY <1>2, <2>1, ResetDrops, LibStands
<1>5. CASE TakeForceAp \/ AskForAp \/ BootOk
  <2>1. UNCHANGED <<slot, table, upload, hold>> /\ phase \in {"net", "up"} /\ phase' = "up"
    BY <1>5 DEF TakeForceAp, AskForAp, BootOk, Healthy
  <2>2. UploadOpen'
    BY <1>0, <2>1 DEF UploadOpen
  <2> QED BY <1>0, <1>2, <2>1, <2>2, LibStands
<1>6. ASSUME NEW img \in Images, Begin(img) PROVE LibInv'
  <2>1. UNCHANGED <<slot, table, hold>> /\ phase = "up" /\ phase' = "up" /\ ~hold
        /\ upload' = [at |-> "open", img |-> img]
    BY <1>6 DEF Begin
  <2>2. upload' \in [at: {"none", "open", "streaming", "streamed", "landed"}, img: Images \cup {None}]
        /\ upload'.img \in Images
    BY <2>1
  <2>3. UploadOpen'
    BY <1>0, <2>1, <2>2 DEF UploadOpen
  <2> QED BY <1>0, <1>2, <2>1, <2>3, LibStands
<1>7. CASE Abort \/ Activate \/ ActivateFails
  <2>1. UNCHANGED <<slot, table, hold>> /\ phase = "up" /\ phase' = "up"
        /\ upload' = [at |-> "none", img |-> None]
    BY <1>7 DEF Abort, Activate, ActivateFails, NoUpload
  <2>2. upload' \in [at: {"none", "open", "streaming", "streamed", "landed"}, img: Images \cup {None}]
        /\ upload'.at = "none"
    BY <2>1
  <2>3. UploadOpen'
    BY <1>0, <2>1, <2>2 DEF UploadOpen
  <2> QED BY <1>0, <1>2, <2>1, <2>3, LibStands
<1>8. CASE FirstChunk \/ Stream \/ LandHead
  <2>1. UNCHANGED <<table, hold>> /\ phase = "up" /\ phase' = "up" /\ upload.at # "none"
    BY <1>8 DEF FirstChunk, Stream, LandHead
  <2>2. PICK at \in {"streaming", "streamed", "landed"} : upload' = [upload EXCEPT !.at = at]
    BY <1>8 DEF FirstChunk, Stream, LandHead
  <2>3. upload' \in [at: {"none", "open", "streaming", "streamed", "landed"}, img: Images \cup {None}]
        /\ upload'.img \in Images
    BY <1>0, <1>1, <2>1, <2>2 DEF UploadOpen
  <2>4. UploadOpen'
    BY <1>0, <1>1, <2>1, <2>3 DEF UploadOpen
  <2>5. SlotOne' /\ (slot'[1].head = slot[1].head \/ slot'[1].head # Hdr)
    <3>1. CASE FirstChunk
      <4>1. slot' = [slot EXCEPT ![Target] = NoImage]
        BY <3>1 DEF FirstChunk, Begun
      <4> QED BY <1>0, <4>1, BootAssumption DEF SlotOne, NoImage
    <3>2. CASE Stream
      <4>1. PICK body \in {upload.img, Junk} : slot' = [slot EXCEPT ![Target].body = body]
        BY <3>2 DEF Stream
      <4>2. body \in Firmware \cup {Junk}
        BY <1>1, <2>1 DEF Firmware
      <4> QED BY <1>0, <4>1, <4>2 DEF SlotOne
    <3>3. CASE LandHead
      <4>1. slot' = [slot EXCEPT ![Target].head = upload.img]
        BY <3>3 DEF LandHead
      <4>2. upload.img \in Firmware \cup {None, Hdr} /\ upload.img # Hdr
        BY <1>1, <2>1, BootAssumption DEF Firmware
      <4> QED BY <1>0, <4>1, <4>2 DEF SlotOne
    <3> QED BY <1>8, <3>1, <3>2, <3>3
  <2>6. CASE slot'[1].head = slot[1].head
    BY <1>0, <2>1, <2>4, <2>5, <2>6, LibStands
  <2>7. CASE slot'[1].head # Hdr
    BY <1>1, <2>1, <2>4, <2>5, <2>7, StagingGone
  <2> QED BY <2>5, <2>6, <2>7
<1> QED BY <1>3, <1>4, <1>5, <1>6, <1>7, <1>8 DEF BootStep

(* The faults that can cost a pattern.                                       *)
Sparing == {"header", "settle", "save"} \cap Faults = {}

(* A half-done copy writes slot 0, a half-done staging no header.            *)
LEMMA HalfWrites ==
  ASSUME SlotOne, DOMAIN slot = {0, 1}
  PROVE  /\ slot' \in HalfCopied => slot'[1] = slot[1]
         /\ slot' \in HalfStaged /\ ~Resuming => SlotOne' /\ slot'[1].head # Hdr
<1>1. slot' \in HalfCopied => slot'[1] = slot[1]
  BY DEF HalfCopied
<1>2. ASSUME slot' \in HalfStaged, ~Resuming PROVE SlotOne' /\ slot'[1].head # Hdr
  <2>1. PICK h \in {None, slot[1].head} : slot' = [slot EXCEPT ![1] = [head |-> h, body |-> Junk]]
    BY <1>2 DEF HalfStaged
  <2>2. h \in Firmware \cup {None, Hdr} /\ h # Hdr
    BY <1>2, BootAssumption DEF SlotOne, Resuming
  <2> QED BY <2>1, <2>2 DEF SlotOne
<1> QED BY <1>1, <1>2

(* A new table over a library that has moved.                                *)
LEMMA LibMoved ==
  ASSUME LibInv, NewTable, Reset, DOMAIN slot = {0, 1}, table # "foreign" => newLog = lib,
         UNCHANGED lib, overlap' \in BOOLEAN
  PROVE  LibInv'
<1>1. table' = "new" /\ slot'[1] = [head |-> None, body |-> Junk] /\ newLog' = lib /\ stage' = 1
  BY DEF NewTable, NoImage
<1>2. SlotOne'
  BY <1>1 DEF SlotOne
<1>3. LogsInv'
  BY <1>1 DEF LibInv, LogsInv
<1>4. HeaderStands' /\ Held'
  BY <1>1 DEF HeaderStands, Held
<1> QED BY <1>2, <1>3, <1>4, ResetDrops DEF LibInv

(* The takeover and the migration.                                           *)
LEMMA LibTableStep ==
  ASSUME LibInv, BootInv, TableStep, Sparing PROVE LibInv'
<1> USE DEF flashVars, volatile, logs, Goto, Moving, Taking
<1>0. /\ DOMAIN slot = {0, 1} /\ SlotOne /\ UploadOpen
      /\ phase \notin {"reset", "dead"} => Whole(running)
      /\ "header" \notin Faults /\ "settle" \notin Faults
      /\ lib \in Nat /\ stage \in 1..3 /\ overlap \in BOOLEAN
  BY DEF BootInv, WhereInv, RunsWhole, Slots, LibInv, LogsInv, Sparing
<1>1. SlotOne' <=> slot'[1] \in [head: Firmware \cup {None, Hdr}, body: Firmware \cup {Junk}]
  BY DEF SlotOne
<1>2. slot'[1] = slot[1] => SlotOne' /\ slot'[1].head = slot[1].head
  BY <1>0, <1>1 DEF SlotOne
<1>3. ASSUME UNCHANGED volatile, phase \notin {"net", "up"} PROVE UploadOpen'
  BY <1>0, <1>3 DEF UploadOpen
<1>4. running = 1 /\ phase = "init" => ~Resuming
  BY <1>0, BootAssumption DEF Whole, Firmware, Resuming
<1>5. CASE NothingToDo \/ SelfCopy \/ InstallFails
  <2>1. /\ UNCHANGED <<upload, hold, logs, overlap, lib>> /\ phase \notin {"net", "up"}
        /\ phase' \in {"net", "point", "wipe"} /\ (phase' = "net" => table' # "old")
        /\ slot'[1] = slot[1]
        /\ table' = table \/ table' = "torn"
    BY <1>0, <1>5 DEF NothingToDo, SelfCopy, InstallFails
  <2>2. CASE table' = table
    BY <1>2, <1>3, <2>1, <2>2, LibStands
  <2>3. CASE table' = "torn"
    <3>1. LogsInv'
      BY <2>1, <2>3 DEF LibInv, LogsInv
    <3>2. HeaderStands' /\ Held'
      BY <2>3 DEF HeaderStands, Held
    <3> QED BY <1>2, <1>3, <2>1, <3>1, <3>2 DEF LibInv
  <2> QED BY <2>1, <2>2, <2>3
<1>6. CASE TakeoverCopyFails \/ Wipe \/ WipeFails
  <2>1. /\ UNCHANGED <<table, logs, overlap, lib>> /\ phase \notin {"net", "up"} /\ table = "foreign"
        /\ slot' = slot \/ slot' \in HalfCopied
        /\ Reset \/ UNCHANGED <<upload, hold>>
    BY <1>6 DEF TakeoverCopyFails, Wipe, WipeFails, RetryOrSettle
  <2>2. slot'[1] = slot[1]
    BY <1>0, <2>1, HalfWrites
  <2>3. UploadOpen'
    BY <1>3, <2>1, ResetDrops
  <2> QED BY <1>2, <2>1, <2>2, <2>3, LibStands
<1>7. CASE TakeoverInstall
  <2>1. NewTable /\ Reset /\ table = "foreign" /\ UNCHANGED <<lib, overlap>>
    BY <1>7 DEF TakeoverInstall
  <2> QED BY <1>0, <2>1, LibMoved
<1>8. CASE MigrateCopyFails
  <2>1. /\ UNCHANGED <<table, logs, overlap, lib, upload, hold>> /\ phase = "init" /\ phase' = "net"
        /\ slot' \in HalfCopied /\ ~Resuming
    BY <1>4, <1>8 DEF MigrateCopyFails
  <2>2. slot'[1] = slot[1]
    BY <1>0, <2>1, HalfWrites
  <2> QED BY <1>2, <1>3, <2>1, <2>2, LibStands
<1>9. CASE Settle
  <2>1. /\ UNCHANGED <<slot, table, logs, overlap, lib>> /\ phase = "point"
        /\ Reset \/ (UNCHANGED <<upload, hold>> /\ phase' = "stage")
    BY <1>9 DEF Settle
  <2>2. UploadOpen' /\ phase' \in {"reset", "stage"}
    BY <1>3, <2>1, ResetDrops
  <2> QED BY <1>2, <2>1, <2>2, LibStands
<1>10. CASE SettleFails
  <2>1. /\ UNCHANGED <<slot, table, logs, overlap, lib, upload, hold>> /\ phase = "point"
        /\ phase' = "net" /\ ~(Resuming /\ oldLog = Gone)
    BY <1>0, <1>10 DEF SettleFails
  <2> QED BY <1>2, <1>3, <2>1, LibStands
<1>11. CASE StageLog
  <2>1. /\ UNCHANGED <<upload, table, overlap, oldLog, newLog, lib>> /\ phase = "stage"
        /\ phase' = "store" /\ table = "old" /\ hold' = (overlap \/ hold)
    BY <1>11 DEF StageLog
  <2>2. upload.at = "none" /\ hold' \in BOOLEAN /\ (overlap => hold')
    BY <1>0, <2>1 DEF UploadOpen
  <2>3. UploadOpen'
    BY <1>0, <2>1, <2>2 DEF UploadOpen
  <2>4. CASE Resuming
    <3>1. UNCHANGED <<slot, stage, staged>> /\ Resuming'
      BY <1>11, <2>4 DEF StageLog, Resuming
    <3>2. LogsInv'
      BY <2>1, <2>4, <3>1 DEF LibInv, LogsInv
    <3>3. HeaderStands' /\ Held'
      BY <2>1, <2>2, <3>1 DEF HeaderStands, Held
    <3> QED BY <1>2, <2>3, <3>1, <3>2, <3>3 DEF LibInv
  <2>5. CASE ~Resuming
    <3>1. /\ slot' = [slot EXCEPT ![1] = [head |-> Hdr, body |-> Junk]]
          /\ stage' = 1 /\ staged' = oldLog /\ oldLog = lib
      BY <2>1, <2>5, <1>11 DEF StageLog, LibInv, LogsInv
    <3>2. slot'[1] = [head |-> Hdr, body |-> Junk]
      BY <1>0, <3>1
    <3>3. SlotOne' /\ Resuming'
      BY <1>1, <3>2 DEF Resuming
    <3>4. LogsInv'
      BY <1>0, <2>1, <3>1, <3>3 DEF LogsInv
    <3>5. HeaderStands' /\ Held'
      BY <2>1, <2>2, <3>3 DEF HeaderStands, Held
    <3> QED BY <2>3, <3>3, <3>4, <3>5 DEF LibInv
  <2> QED BY <2>4, <2>5
<1>12. CASE StageFails
  <2>1. /\ UNCHANGED <<table, logs, overlap, lib, upload, hold>> /\ phase = "stage" /\ phase' = "net"
        /\ table = "old" /\ ~Resuming /\ slot' \in HalfStaged
    BY <1>12 DEF StageFails
  <2>2. oldLog = lib
    BY <2>1 DEF LibInv, LogsInv
  <2> QED BY <1>0, <1>3, <2>1, <2>2, HalfWrites, StagingGone
<1>13. CASE StoreLog
  <2>1. /\ UNCHANGED <<slot, upload, hold, table, overlap, stage, staged, lib>>
        /\ phase = "store" /\ table = "old" /\ phase' \in {"install", "mark"}
        /\ phase' = "mark" => stage # 3
    BY <1>13 DEF StoreLog
  <2>2. Resuming /\ Resuming' /\ (overlap => hold) /\ staged = lib /\ oldLog \in {lib, Gone}
        /\ (stage > 1 => newLog = lib) /\ (~overlap => oldLog = lib)
    BY <2>1 DEF LibInv, LogsInv, HeaderStands, Resuming
  <2>3. newLog' = lib /\ oldLog' \in {lib, Gone} /\ (~overlap => oldLog' = lib)
    BY <1>0, <1>13, <2>2 DEF StoreLog, OldLogErased
  <2>4. LogsInv'
    BY <1>0, <2>1, <2>2, <2>3 DEF LogsInv
  <2>5. HeaderStands' /\ Held'
    BY <1>0, <2>1, <2>2, <2>3 DEF HeaderStands, Held
  <2> QED BY <1>2, <1>3, <2>1, <2>4, <2>5 DEF LibInv
<1>14. CASE StoreFails
  <2>1. /\ UNCHANGED <<slot, upload, hold, table, overlap, stage, staged, lib>>
        /\ phase = "store" /\ table = "old" /\ phase' = "net" /\ stage = 1
        /\ oldLog' = oldLog \/ oldLog' = (IF overlap THEN Gone ELSE oldLog)
    BY <1>14 DEF StoreFails, HalfStored, OldLogErased
  <2>2. Resuming /\ Resuming' /\ (overlap => hold) /\ staged = lib /\ oldLog \in {lib, Gone}
        /\ (~overlap => oldLog = lib)
    BY <2>1 DEF LibInv, LogsInv, HeaderStands, Resuming
  <2>3. LogsInv'
    BY <1>0, <2>1, <2>2 DEF LogsInv
  <2>4. oldLog' = Gone => hold
    BY <1>0, <2>1, <2>2, MigrationAssumption
  <2>5. HeaderStands' /\ Held'
    BY <2>1, <2>4 DEF HeaderStands, Held
  <2> QED BY <1>2, <1>3, <2>1, <2>3, <2>5 DEF LibInv
<1>15. CASE Mark
  <2>1. /\ UNCHANGED <<slot, upload, hold, table, overlap, oldLog, newLog, staged, lib>>
        /\ phase = "mark" /\ table = "old" /\ stage' = stage + 1
        /\ phase' = IF stage = 2 THEN "install" ELSE "mark"
    BY <1>15 DEF Mark
  <2>2. /\ Resuming /\ Resuming' /\ (overlap => hold) /\ staged = lib /\ oldLog \in {lib, Gone}
        /\ newLog = lib /\ stage < 3 /\ (~overlap => oldLog = lib)
    BY <2>1 DEF LibInv, LogsInv, HeaderStands, Resuming
  <2>3. LogsInv'
    BY <1>0, <2>1, <2>2 DEF LogsInv
  <2>4. HeaderStands' /\ Held'
    BY <1>0, <2>1, <2>2 DEF HeaderStands, Held
  <2> QED BY <1>2, <1>3, <2>1, <2>3, <2>4 DEF LibInv
<1>16. CASE MarkFails
  <2>1. /\ UNCHANGED <<slot, upload, hold, table, logs, overlap, lib>> /\ table = "old"
        /\ phase = "mark" /\ phase' = "net"
    BY <1>0, <1>16 DEF MarkFails, HeaderLost
  <2>2. oldLog = Gone => hold
    BY <1>0, <2>1, MigrationAssumption DEF LibInv, LogsInv, HeaderStands
  <2> QED BY <1>2, <1>3, <2>1, <2>2, LibStands
<1>17. CASE Install
  <2>1. NewTable /\ Reset /\ newLog = lib /\ UNCHANGED lib /\ overlap' = FALSE
    BY <1>17 DEF Install, LibInv, HeaderStands
  <2>2. overlap' \in BOOLEAN
    BY <2>1, Zenon
  <2> QED BY <1>0, <2>1, <2>2, LibMoved
<1> QED BY <1>5, <1>6, <1>7, <1>8, <1>9, <1>10, <1>11, <1>12, <1>13, <1>14, <1>15, <1>16, <1>17
        DEF TableStep, Takeover, Migrate

(* A power cut.                                                              *)
LEMMA LibCut == ASSUME LibInv, BootInv, PowerCut, Sparing PROVE LibInv'
<1> USE DEF flashVars, logs, Moving
<1>0. /\ DOMAIN slot = {0, 1} /\ SlotOne /\ Reset /\ UNCHANGED <<overlap, lib>>
      /\ "header" \notin Faults
  BY DEF BootInv, WhereInv, Slots, LibInv, Sparing, PowerCut
<1>1. UploadOpen' /\ phase' = "reset"
  BY <1>0, ResetDrops
<1>2. slot'[1] = slot[1] => SlotOne' /\ slot'[1].head = slot[1].head /\ Resuming' = Resuming
  BY <1>0 DEF SlotOne, Resuming
<1>3. CASE UNCHANGED <<slot, table, logs>>
  BY <1>0, <1>1, <1>2, <1>3, LibStands
<1>4. CASE CutInCopy
  <2>1. UNCHANGED <<table, logs>> /\ slot'[1] = slot[1]
    BY <1>0, <1>4, HalfWrites DEF CutInCopy
  <2> QED BY <1>0, <1>1, <1>2, <2>1, LibStands
<1>5. CASE CutInStaging
  <2>1. UNCHANGED <<table, logs>> /\ table = "old" /\ ~Resuming /\ slot' \in HalfStaged
    BY <1>5 DEF CutInStaging
  <2>2. oldLog = lib
    BY <2>1 DEF LibInv, LogsInv
  <2> QED BY <1>0, <1>1, <2>1, <2>2, HalfWrites, StagingGone
<1>6. CASE CutInStore
  <2>1. /\ UNCHANGED <<slot, table, stage, staged>> /\ table = "old" /\ stage = 1 /\ phase = "store"
        /\ oldLog' = (IF overlap THEN Gone ELSE oldLog)
    BY <1>6 DEF CutInStore, HalfStored, OldLogErased
  <2>2. Resuming' /\ Resuming /\ staged = lib /\ (~overlap => oldLog = lib) /\ oldLog \in {lib, Gone}
        /\ lib \in Nat /\ overlap \in BOOLEAN
    BY <1>2, <2>1 DEF LibInv, LogsInv, HeaderStands
  <2>3. LogsInv'
    BY <1>0, <2>1, <2>2 DEF LogsInv
  <2>4. HeaderStands' /\ Held'
    BY <1>1 DEF HeaderStands, Held
  <2> QED BY <1>1, <1>2, <2>1, <2>3, <2>4 DEF LibInv
<1>7. CASE CutInInstall /\ table' = "torn"
  <2>1. UNCHANGED <<slot, logs>> /\ table' = "torn"
    BY <1>7 DEF CutInInstall, NewTable
  <2>2. LogsInv'
    BY <1>0, <2>1 DEF LibInv, LogsInv
  <2>3. HeaderStands' /\ Held'
    BY <2>1 DEF HeaderStands, Held
  <2> QED BY <1>1, <1>2, <2>1, <2>2, <2>3 DEF LibInv
<1>8. CASE CutInInstall /\ table' # "torn"
  <2>1. NewTable /\ phase = "install" /\ table \in {"foreign", "old"}
    BY <1>8 DEF CutInInstall, Taking
  <2>2. table # "foreign" => newLog = lib
    BY <2>1 DEF LibInv, HeaderStands, LogsInv
  <2>3. overlap' \in BOOLEAN
    BY <1>0 DEF LibInv, LogsInv
  <2> QED BY <1>0, <2>1, <2>2, <2>3, LibMoved
<1>9. CASE CutInGuard
  <2>1. UNCHANGED <<table, logs>> /\ (slot' = slot \/ slot' \in HalfCopied)
    BY <1>9 DEF CutInGuard
  <2>2. slot'[1] = slot[1]
    BY <1>0, <2>1, HalfWrites
  <2> QED BY <1>0, <1>1, <1>2, <2>1, <2>2, LibStands
<1> QED BY <1>0, <1>3, <1>4, <1>5, <1>6, <1>7, <1>8, <1>9
        DEF PowerCut, CutBetween, CutInRollBack, CutInMarker, CutInActivate,
            CutInErase, CutInMark, HeaderLost

(* A save goes to the log the boot after this one reads.                     *)
LEMMA LibSave == ASSUME LibInv, Save, Sparing PROVE LibInv'
<1>1. /\ UNCHANGED <<slot, upload, hold, table, overlap, stage, staged, phase>> /\ phase = "up"
      /\ lib \in Nat /\ lib' = lib + 1 /\ ~(table = "old" /\ Resuming)
      /\ table = "old" => oldLog' = (IF oldLog = Gone THEN Gone ELSE lib')
      /\ table = "new" => newLog' = lib'
  BY DEF Save, flashVars, volatile, Sparing, LibInv, LogsInv
<1>2. SlotOne' /\ UploadOpen' /\ Resuming' = Resuming
  BY <1>1 DEF LibInv, SlotOne, UploadOpen, Resuming
<1>3. LogsInv'
  <2>1. table = "old" => oldLog = lib /\ oldLog # Gone
    BY <1>1, MigrationAssumption DEF LibInv, LogsInv
  <2>2. lib' \in Nat
    BY <1>1
  <2> QED BY <1>1, <1>2, <2>1, <2>2 DEF LibInv, LogsInv
<1>4. HeaderStands' /\ Held'
  BY <1>1, <1>2 DEF HeaderStands, Held
<1> QED BY <1>2, <1>3, <1>4 DEF LibInv

LEMMA LibStep == ASSUME LibInv, BootInv, [Next]_vars, Sparing PROVE LibInv'
<1>1. CASE BootOnly
  BY <1>1, LibBootStep DEF BootOnly
<1>2. CASE TableStep
  BY <1>2, LibTableStep
<1>3. CASE Save
  BY <1>3, LibSave
<1>4. CASE PowerCut
  BY <1>4, LibCut
<1>5. CASE UNCHANGED vars
  BY <1>5 DEF vars, bootVars, flashVars, volatile, logs, LibInv, SlotOne, UploadOpen, LogsInv,
     HeaderStands, Held, Resuming
<1> QED BY <1>1, <1>2, <1>3, <1>4, <1>5 DEF Next

(* "Losing a pattern silently is not on the menu" (migrate.rs): the log or   *)
(* staging area the next boot goes by holds every acknowledged save, if no   *)
(* header is lost while it is rewritten, no resuming boot fails to erase     *)
(* otadata and nobody saves while a staged log waits.                        *)
THEOREM LibraryStands == ASSUME Sparing PROVE Spec => []LibraryKept
<1>1. LibInv => LibraryKept
  BY DEF LibInv, LogsInv, LibraryKept
<1>2. Init => LibInv
  BY LibInit
<1>3. LibInv /\ BootInv /\ [Next]_vars => LibInv'
  BY LibStep
<1> QED BY <1>1, <1>2, <1>3, BootInvariant, PTL DEF Spec
==============================================================================
