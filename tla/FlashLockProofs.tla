-------------------------- MODULE FlashLockProofs ---------------------------
(* The two locks in front of the flash.                                      *)
(*                                                                           *)
(* The store's guard, which every task takes before it reads or changes the  *)
(* store: it excludes, for any finite number of tasks, any number of tries   *)
(* and any width of the BUSY word.                                           *)
(*                                                                           *)
(* The fence, which a core raises around each operation on the chip, for any *)
(* number of waits that run out: at most one core operates on the flash, and *)
(* a fencing core keeps its interrupts masked until the other one has been   *)
(* released.                                                                 *)
EXTENDS StoreGuard, Fence, FiniteSetTheorems, TLAPS

-----------------------------------------------------------------------------
(* The guard.                                                                *)

\* How the two sets follow the state of the one task that moves.
LEMMA SetsFollowTask ==
    ASSUME GuardTypeOK, NEW t \in Tasks, NEW s, stage' = [stage EXCEPT ![t] = s]
    PROVE  /\ Readers' = IF s = "reading" THEN Readers \cup {t} ELSE Readers \ {t}
           /\ Writers' = IF s = "writing" THEN Writers \cup {t} ELSE Writers \ {t}
BY DEF GuardTypeOK, Readers, Writers

\* A task that goes idle leaves both.
LEMMA LeavingTask ==
    ASSUME GuardTypeOK, NEW t \in Tasks, stage' = [stage EXCEPT ![t] = "idle"]
    PROVE  Readers' = Readers \ {t} /\ Writers' = Writers \ {t}
BY DEF GuardTypeOK, Readers, Writers

\* The readers are finitely many.
LEMMA ReadersFinite == IsFiniteSet(Readers)
<1>1. Readers \subseteq Tasks
  BY DEF Readers
<1>. QED
  BY <1>1, GuardAssumption, FS_Subset

\* Initially nobody holds the guard and BUSY says so.
LEMMA GuardStarts == GuardInit => GuardInv
<1>. SUFFICES ASSUME GuardInit
              PROVE  GuardInv
  OBVIOUS
<1>1. Readers = {} /\ Writers = {}
  BY DEF GuardInit, Readers, Writers
<1>2. GuardTypeOK /\ Exclusion /\ TriesLeft
  BY <1>1, GuardAssumption DEF GuardInit, GuardTypeOK, Exclusion, TriesLeft
<1>3. BusyCounts
  BY <1>1, FS_EmptySet, GuardAssumption DEF GuardInit, BusyCounts
<1>. QED
  BY <1>2, <1>3 DEF GuardInv

\* A task that begins to wait, or is refused, moves no holder.
LEMMA WaitingStep ==
    ASSUME GuardInv, NEW t \in Tasks, AskWrite(t) \/ AskRead(t) \/ Retry(t)
    PROVE  GuardInv'
<1>. USE GuardAssumption DEF GuardInv, GuardTypeOK
<1>1. stage[t] \notin {"reading", "writing"} /\ stage'[t] \notin {"reading", "writing"}
  BY DEF AskWrite, AskRead, Ask, Retry, Spent
<1>2. /\ \A u \in Tasks \ {t} : stage'[u] = stage[u] /\ tries'[u] = tries[u]
      /\ busy' = busy /\ GuardTypeOK' /\ TriesLeft'
  BY DEF AskWrite, AskRead, Ask, Retry, Spent, TriesLeft
<1>3. Readers' = Readers /\ Writers' = Writers
  BY <1>1, <1>2 DEF Readers, Writers
<1>. QED
  BY <1>2, <1>3 DEF Exclusion, BusyCounts

\* A mutation starts only when BUSY is 0, that is with no reader and no writer.
LEMMA TakeWriteStep ==
    ASSUME GuardInv, NEW t \in Tasks, TakeWrite(t)
    PROVE  GuardInv'
<1>. USE GuardAssumption DEF GuardInv, GuardTypeOK
<1>1. Writers = {} /\ Readers = {}
  <2>1. Writers = {} /\ Cardinality(Readers) = 0
    BY DEF TakeWrite, WriteFree, BusyCounts
  <2>. QED
    BY <2>1, ReadersFinite, FS_EmptySet
<1>2. Readers' = {} /\ Writers' = {t}
  BY <1>1, SetsFollowTask DEF TakeWrite
<1>3. GuardTypeOK' /\ TriesLeft' /\ busy' = WRITER
  BY DEF TakeWrite, TriesLeft
<1>. QED
  BY <1>2, <1>3 DEF Exclusion, BusyCounts

\* A reader is counted, and the count stays below WRITER.
LEMMA TakeReadStep ==
    ASSUME GuardInv, NEW t \in Tasks, TakeRead(t)
    PROVE  GuardInv'
<1>. USE GuardAssumption DEF GuardInv, GuardTypeOK
<1>1. Writers = {} /\ busy = Cardinality(Readers) /\ t \notin Readers
  BY DEF TakeRead, ReadFree, BusyCounts, Readers
<1>2. Readers' = Readers \cup {t} /\ Writers' = {}
  BY <1>1, SetsFollowTask DEF TakeRead
<1>3. GuardTypeOK' /\ TriesLeft' /\ busy' = busy + 1 /\ busy' # WRITER
  BY DEF TakeRead, ReadFree, TriesLeft
<1>4. Cardinality(Readers') = Cardinality(Readers) + 1
  BY <1>1, <1>2, ReadersFinite, FS_AddElement
<1>. QED
  BY <1>1, <1>2, <1>3, <1>4 DEF Exclusion, BusyCounts

\* The writer leaves BUSY at 0, and it was alone.
LEMMA DropWriteStep ==
    ASSUME GuardInv, NEW t \in Tasks, DropWrite(t)
    PROVE  GuardInv'
<1>. USE GuardAssumption DEF GuardInv, GuardTypeOK
<1>1. Writers = {t} /\ Readers = {}
  <2>1. t \in Writers
    BY DEF DropWrite, Writers
  <2>. QED
    BY <2>1 DEF Exclusion
<1>2. Readers' = {} /\ Writers' = {}
  <2>1. Readers' = Readers \ {t} /\ Writers' = Writers \ {t}
    BY LeavingTask DEF DropWrite
  <2>. QED
    BY <1>1, <2>1
<1>3. GuardTypeOK' /\ TriesLeft' /\ busy' = 0
  BY DEF DropWrite, TriesLeft
<1>. QED
  BY <1>2, <1>3, FS_EmptySet DEF Exclusion, BusyCounts

\* A reader that leaves is counted out; the saturation never hides one.
LEMMA DropReadStep ==
    ASSUME GuardInv, NEW t \in Tasks, DropRead(t)
    PROVE  GuardInv'
<1>. USE GuardAssumption DEF GuardInv, GuardTypeOK
<1>1. Writers = {} /\ t \in Readers
  <2>1. t \in Readers
    BY DEF DropRead, Readers
  <2>2. Writers \subseteq Tasks
    BY DEF Writers
  <2>. QED
    BY <2>1, <2>2 DEF Exclusion
<1>2. busy = Cardinality(Readers) /\ busy # WRITER
  BY <1>1 DEF BusyCounts
<1>3. Readers' = Readers \ {t} /\ Writers' = {}
  <2>1. Readers' = Readers \ {t} /\ Writers' = Writers \ {t}
    BY LeavingTask DEF DropRead
  <2>. QED
    BY <1>1, <2>1
<1>4. Cardinality(Readers') = Cardinality(Readers) - 1 /\ Cardinality(Readers) # 0
  BY <1>1, <1>3, ReadersFinite, FS_RemoveElement, FS_EmptySet
<1>5. GuardTypeOK' /\ TriesLeft' /\ busy' = busy - 1 /\ busy' # WRITER
  BY <1>2, <1>4 DEF DropRead, TriesLeft
<1>. QED
  BY <1>2, <1>3, <1>4, <1>5 DEF Exclusion, BusyCounts

\* GuardInv holds in every reachable state.
THEOREM GuardInvariant == GuardSpec => []GuardInv
<1>1. GuardInit => GuardInv
  BY GuardStarts
<1>2. GuardInv /\ [GuardNext]_guardVars => GuardInv'
  <2>. SUFFICES ASSUME GuardInv, [GuardNext]_guardVars
                PROVE  GuardInv'
    OBVIOUS
  <2>1. CASE UNCHANGED guardVars
    BY <2>1 DEF guardVars, GuardInv, GuardTypeOK, Exclusion, BusyCounts, TriesLeft, Readers, Writers
  <2>2. CASE GuardNext
    BY <2>2, WaitingStep, TakeWriteStep, TakeReadStep, DropWriteStep, DropReadStep
    DEF GuardNext, Step
  <2>. QED
    BY <2>1, <2>2
<1>. QED
  BY <1>1, <1>2, PTL DEF GuardSpec

\* A mutation of the store excludes every other mutation and every mapped read,
\* whatever the number of tasks (StoreWrite and MapRead of patterns.rs).
THEOREM GuardExcludes == GuardSpec => []Exclusion
BY GuardInvariant, PTL DEF GuardInv

\* BUSY is WRITER exactly during a mutation and else counts the readers: the
\* refusal at WRITER - 1 keeps the count from ever reading as a writer.
THEOREM BusyNeverLies == GuardSpec => []BusyCounts
BY GuardInvariant, PTL DEF GuardInv

-----------------------------------------------------------------------------
(* The fence.                                                                *)

(* The core that asked for the park is the one whose request stands.         *)
Asking == {"raise", "ack", "ack.park", "quiet", "op", "release"}
(* Where a fencing core has masked its own interrupts.                       *)
Masking == {"ask", "out", "unlock", "unmask"} \cup Asking

OneHolder == \A c \in Core: pc[c] \in Holding => pc[Other(c)] \notin Holding

(* The second core arms its park handler before the first one leaves         *)
(* core1::start, so an operation without a fence finds it off.               *)
StartUp ==
  /\ ready[PRO] /\ (ready[APP] <=> pc[APP] \notin {"off", "boot"})
  /\ pc[APP] \notin {"start", "bare"} /\ pc[PRO] # "off"
  /\ pc[PRO] = "boot" => pc[APP] = "off"
  /\ pc[APP] = "boot" => pc[PRO] = "start"
  /\ pc[PRO] = "start" => pc[APP] # "off"
  /\ pc[PRO] = "bare" => pc[APP] = "off"

RequestStands == \A c \in Core: parkReq[Other(c)] <=> pc[c] \in Asking

MaskStands ==
  \A c \in Core:
    /\ pc[c] \in Masking => masked[c]
    /\ park[c] # "no" => masked[c] /\ (pc[c] \in Masking => before[c])

FenceInv == FenceTypeOK /\ OneHolder /\ StartUp /\ RequestStands /\ MaskStands

USE DEF PRO, APP, Core, Other

(* The invariant holds at boot.                                              *)
LEMMA FenceInit == ASSUME Init PROVE FenceInv
<1> USE DEF Init
<1>1. pc[PRO] = "boot" /\ pc[APP] = "off"
  OBVIOUS
<1>2. FenceTypeOK
  <2>1. (\A c \in Core: pc[c] \notin Holding) /\ ~fence
    BY <1>1 DEF Holding
  <2>2. /\ pc \in [Core -> ThreadStates] /\ park \in [Core -> ParkStates]
        /\ slow \in 0..MaxSlow
    BY MaxSlowAssumption DEF ThreadStates, ParkStates
  <2>3. ready \in [Core -> BOOLEAN]
    OBVIOUS
  <2>4. /\ masked \in [Core -> BOOLEAN] /\ held \in [Core -> BOOLEAN]
        /\ before \in [Core -> BOOLEAN] /\ pending \in [Core -> BOOLEAN]
        /\ parkReq \in [Core -> BOOLEAN] /\ parked \in [Core -> BOOLEAN]
        /\ acked \in BOOLEAN /\ dma \in BOOLEAN /\ fence \in BOOLEAN
    OBVIOUS
  <2> QED BY <2>1, <2>2, <2>3, <2>4 DEF FenceTypeOK
<1>3. OneHolder /\ RequestStands /\ MaskStands
  BY <1>1 DEF OneHolder, RequestStands, MaskStands, Holding, Asking, Masking
<1>4. StartUp
  <2>1. APP # PRO /\ PRO \in Core /\ APP \in Core
    OBVIOUS
  <2>2. ready[PRO] /\ ~ready[APP]
    BY <2>1, Zenon
  <2> QED BY <1>1, <2>2 DEF StartUp
<1> QED BY <1>2, <1>3, <1>4 DEF FenceInv

(* Every step of either core, of the transfer hardware and of the start-up   *)
(* preserves the invariant.                                                  *)
LEMMA FenceStep == ASSUME FenceInv, [Next]_vars PROVE FenceInv'
<1> USE MaxSlowAssumption DEF FenceInv, FenceTypeOK, ThreadStates, Holding, ParkStates,
      OneHolder, StartUp, RequestStands, MaskStands, Asking, Masking,
      At, Runs, flags, masks, ghosts
<1>1. CASE NoStack \/ StartApp
  BY <1>1 DEF NoStack, StartApp
<1>2. CASE InstallAppParker \/ Started
  <2>1. CASE InstallAppParker
    <3>1. ready' \in [Core -> BOOLEAN] /\ ready'[APP] /\ ready'[PRO]
      BY <2>1, Zenon DEF InstallAppParker
    <3>2. At(APP, "boot", "run")
          /\ UNCHANGED <<park, masks, pending, parkReq, parked, fence, ghosts>>
      BY <2>1 DEF InstallAppParker
    <3> QED BY <3>1, <3>2
  <2>2. CASE Started
    BY <2>2 DEF Started
  <2> QED BY <1>2, <2>1, <2>2
<1>3. CASE TransferEnds
  BY <1>3 DEF TransferEnds
<1>4. ASSUME NEW c \in Core, Acquire(c) PROVE FenceInv'
  <2>1. CASE CallFence(c)
    BY <2>1 DEF CallFence, Caller
  <2>2. CASE TakeLock(c)
    BY <2>2 DEF TakeLock
  <2>3. CASE MaskSelf(c)
    BY <2>3 DEF MaskSelf
  <2>4. CASE Request(c)
    BY <2>4 DEF Request
  <2>5. CASE RaisePark(c)
    BY <2>5 DEF RaisePark
  <2>6. CASE Acknowledged(c)
    BY <2>6 DEF Acknowledged
  <2>7. CASE AckTimeout(c)
    <3>1. acked' \in BOOLEAN
      BY <2>7, Zenon DEF AckTimeout
    <3>2. At(c, "ack", "op") /\ slow' \in 0..MaxSlow
          /\ UNCHANGED <<park, masks, flags, dma>>
      BY <2>7 DEF AckTimeout
    <3> QED BY <3>1, <3>2
  <2>8. CASE TransferDone(c)
    BY <2>8 DEF TransferDone
  <2>9. CASE TransferTimeout(c)
    <3>1. At(c, "quiet", "op") /\ slow' \in 0..MaxSlow
          /\ UNCHANGED <<park, masks, flags, acked, dma>>
      BY <2>9 DEF TransferTimeout
    <3> QED BY <3>1
  <2> QED BY <1>4, <2>1, <2>2, <2>3, <2>4, <2>5, <2>6, <2>7, <2>8, <2>9 DEF Acquire
<1>5. ASSUME NEW c \in Core, Finish(c) PROVE FenceInv'
  <2>1. CASE BareOp(c)
    BY <2>1 DEF BareOp, Caller
  <2>2. CASE OpEnds(c)
    BY <2>2 DEF OpEnds
  <2>3. CASE Release(c)
    BY <2>3 DEF Release
  <2>4. CASE SeenOut(c)
    BY <2>4 DEF SeenOut
  <2>5. CASE OutTimeout(c)
    BY <2>5 DEF OutTimeout
  <2>6. CASE Unlock(c)
    <3>1. fence' \in BOOLEAN /\ ~fence'
      BY <2>6, Zenon DEF Unlock
    <3>2. At(c, "unlock", "unmask")
          /\ UNCHANGED <<park, masks, pending, ready, parkReq, parked, ghosts>>
      BY <2>6 DEF Unlock
    <3> QED BY <3>1, <3>2
  <2>7. CASE Unmask(c)
    BY <2>7 DEF Unmask, Caller
  <2> QED BY <1>5, <2>1, <2>2, <2>3, <2>4, <2>5, <2>6, <2>7 DEF Finish
<1>6. ASSUME NEW c \in Core, Park(c) PROVE FenceInv'
  <2>1. CASE ParkInterrupt(c)
    BY <2>1 DEF ParkInterrupt, EnterPark
  <2>2. CASE SeeAsked(c)
    BY <2>2 DEF SeeAsked
  <2>3. CASE CallPark(c)
    BY <2>3 DEF CallPark, EnterPark
  <2>4. CASE SayParked(c)
    BY <2>4 DEF SayParked
  <2>5. CASE SeeRelease(c)
    BY <2>5 DEF SeeRelease
  <2>6. CASE LeavePark(c)
    BY <2>6 DEF LeavePark
  <2> QED BY <1>6, <2>1, <2>2, <2>3, <2>4, <2>5, <2>6 DEF Park
<1>7. ASSUME NEW c \in Core, Ordinary(c) PROVE FenceInv'
  <2>1. CASE EnterCritical(c)
    BY <2>1 DEF EnterCritical
  <2>2. CASE LeaveCritical(c)
    BY <2>2 DEF LeaveCritical
  <2>3. CASE StartTransfer(c)
    BY <2>3 DEF StartTransfer
  <2> QED BY <1>7, <2>1, <2>2, <2>3 DEF Ordinary
<1>8. CASE UNCHANGED vars
  BY <1>8 DEF vars
<1> QED BY <1>1, <1>2, <1>3, <1>4, <1>5, <1>6, <1>7, <1>8 DEF Next

(* The inductive invariant of the fence.                                     *)
THEOREM FenceInvariant == Spec => []FenceInv
BY FenceInit, FenceStep, PTL DEF Spec

(* Two cores never operate on the flash at once, whichever parks ran out:    *)
(* what core1.rs's `fenced` and the start-up order are for.                  *)
THEOREM FenceExcludes == Spec => []OneOpAtATime
<1>1. FenceInv => OneOpAtATime
  BY DEF FenceInv, OneHolder, StartUp, Holding, OneOpAtATime, InOp
<1> QED BY <1>1, FenceInvariant, PTL

(* A fencing core gets its interrupts back only after the other core was     *)
(* released and seen to run (the comment of Drop, issue #292).               *)
THEOREM MaskOutlivesPark == Spec => []MaskedUntilReleased
<1>1. FenceInv => MaskedUntilReleased
  BY DEF FenceInv, RequestStands, MaskStands, Masking, Asking, MaskedUntilReleased
<1> QED BY <1>1, FenceInvariant, PTL

(* What a core does that leaves the bus alone: it is in park(), or about to  *)
(* be taken there by its interrupt before it runs on.                        *)
Stands(o) ==
  \/ park[o] \in {"enter", "spin"}
  \/ park[o] = "leave" /\ pending[o] /\ ~before[o]
  \/ park[o] = "no" /\ pending[o] /\ ~masked[o]

(* PARKED is up exactly from SayParked to LeavePark, and the holder of the   *)
(* fence is never asked to park.                                             *)
ParkedIsSaid ==
  \A c \in Core: (parked[c] <=> park[c] \in {"spin", "leave"}) /\ pc[c] # "ack.park"

(* A core that parks inline with its interrupts masked cannot be taken back  *)
(* to park() once it leaves, so it must be out before the fence that asked   *)
(* for it is dropped.                                                        *)
InlineParks ==
  \A c \in Core:
    /\ pc[Other(c)] = "lock.park" /\ park[Other(c)] = "no" /\ masked[Other(c)]
         => pc[c] \in {"raise", "ack"}
    /\ pc[Other(c)] = "lock.park" /\ park[Other(c)] # "no" => ~before[Other(c)]
    /\ park[Other(c)] = "enter" /\ before[Other(c)] => pc[c] \in {"raise", "ack"}
    /\ park[Other(c)] = "spin" /\ before[Other(c)]
         => pc[c] \in {"raise", "ack", "quiet", "op", "release", "out"}
    /\ park[Other(c)] = "leave" /\ before[Other(c)] => pc[c] = "out"

(* An acknowledgement may be a late one, of a core on its way out of an      *)
(* earlier park; then the new raise is still pending there.                  *)
AckStands ==
  \A c \in Core:
    /\ pc[c] = "ack" /\ park[Other(c)] = "leave" => pending[Other(c)]
    /\ pc[c] \in {"quiet", "op", "release"} => Stands(Other(c))

Timely == slow = 0 => InlineParks /\ AckStands /\ QuietDuringOp
BusInv == ParkedIsSaid /\ Timely

(* The core alone moves its thread and its park routine, so each step has to *)
(* be looked at from the fence it makes and from the fence it stands for.    *)
LEMMA BusStep == ASSUME FenceInv, BusInv, [Next]_vars PROVE BusInv'
<1> USE MaxSlowAssumption DEF FenceInv, FenceTypeOK, OneHolder, StartUp, RequestStands,
      MaskStands, BusInv, ParkedIsSaid, Timely, InlineParks, AckStands, QuietDuringOp, Stands,
      ThreadStates, Holding, ParkStates, Asking, Masking, At, Runs, flags, masks, ghosts
<1>1. CASE NoStack \/ StartApp
  BY <1>1 DEF NoStack, StartApp
<1>2. CASE InstallAppParker \/ Started
  BY <1>2 DEF InstallAppParker, Started
<1>3. CASE TransferEnds
  BY <1>3 DEF TransferEnds
<1>4. ASSUME NEW c \in Core, Acquire(c) PROVE BusInv'
  <2>1. CASE CallFence(c)
    BY <2>1 DEF CallFence, Caller
  <2>2. CASE TakeLock(c)
    BY <2>2 DEF TakeLock
  <2>3. CASE MaskSelf(c)
    BY <2>3 DEF MaskSelf
  <2>4. CASE Request(c)
    BY <2>4 DEF Request
  <2>5. CASE RaisePark(c)
    BY <2>5 DEF RaisePark
  <2>6. CASE Acknowledged(c)
    BY <2>6 DEF Acknowledged
  <2>7. CASE AckTimeout(c)
    BY <2>7 DEF AckTimeout
  <2>8. CASE TransferDone(c)
    BY <2>8 DEF TransferDone
  <2>9. CASE TransferTimeout(c)
    BY <2>9 DEF TransferTimeout
  <2> QED BY <1>4, <2>1, <2>2, <2>3, <2>4, <2>5, <2>6, <2>7, <2>8, <2>9 DEF Acquire
<1>5. ASSUME NEW c \in Core, Finish(c) PROVE BusInv'
  <2>1. CASE BareOp(c)
    BY <2>1 DEF BareOp, Caller
  <2>2. CASE OpEnds(c)
    BY <2>2 DEF OpEnds
  <2>3. CASE Release(c)
    BY <2>3 DEF Release
  <2>4. CASE SeenOut(c)
    BY <2>4 DEF SeenOut
  <2>5. CASE OutTimeout(c)
    BY <2>5 DEF OutTimeout
  <2>6. CASE Unlock(c)
    BY <2>6 DEF Unlock
  <2>7. CASE Unmask(c)
    BY <2>7 DEF Unmask, Caller
  <2> QED BY <1>5, <2>1, <2>2, <2>3, <2>4, <2>5, <2>6, <2>7 DEF Finish
<1>6. ASSUME NEW c \in Core, Park(c) PROVE BusInv'
  <2>1. CASE ParkInterrupt(c)
    BY <2>1 DEF ParkInterrupt, EnterPark
  <2>2. CASE SeeAsked(c)
    BY <2>2 DEF SeeAsked
  <2>3. CASE CallPark(c)
    BY <2>3 DEF CallPark, EnterPark
  <2>4. CASE SayParked(c)
    BY <2>4 DEF SayParked
  <2>5. CASE SeeRelease(c)
    BY <2>5 DEF SeeRelease
  <2>6. CASE LeavePark(c)
    BY <2>6 DEF LeavePark
  <2> QED BY <1>6, <2>1, <2>2, <2>3, <2>4, <2>5, <2>6 DEF Park
<1>7. ASSUME NEW c \in Core, Ordinary(c) PROVE BusInv'
  <2>1. CASE EnterCritical(c)
    BY <2>1 DEF EnterCritical
  <2>2. CASE LeaveCritical(c)
    BY <2>2 DEF LeaveCritical
  <2>3. CASE StartTransfer(c)
    BY <2>3 DEF StartTransfer
  <2> QED BY <1>7, <2>1, <2>2, <2>3 DEF Ordinary
<1>8. CASE UNCHANGED vars
  BY <1>8 DEF vars
<1> QED BY <1>1, <1>2, <1>3, <1>4, <1>5, <1>6, <1>7, <1>8 DEF Next

(* While no wait has run out, a fenced operation has the flash bus to        *)
(* itself: the other core executes nothing, also when the acknowledgement    *)
(* was an earlier park's, and no output transfer is under way.               *)
THEOREM FencedOpHasTheBus == Spec => []OpHasTheBus
<1>1. Init => BusInv
  BY MaxSlowAssumption DEF Init, BusInv, ParkedIsSaid, Timely, InlineParks, AckStands,
     QuietDuringOp, Stands
<1>2. FenceInv /\ BusInv => OpHasTheBus
  BY DEF FenceInv, StartUp, BusInv, Timely, AckStands, Stands, OpHasTheBus, OtherStands,
     InOp, Runs, FenceTypeOK, ParkStates, QuietDuringOp
<1>3. FenceInv /\ FenceInv' /\ BusInv /\ [Next]_vars => BusInv'
  BY BusStep
<1> QED BY <1>1, <1>2, <1>3, FenceInvariant, PTL DEF Spec
=============================================================================
