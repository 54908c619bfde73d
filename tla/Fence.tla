------------------------------- MODULE Fence -------------------------------
(***************************************************************************)
(* The flash fence of the dual-core boards (core1.rs): a core that drives  *)
(* the flash parks the other one for the length of the operation.  A core  *)
(* is its thread-mode program (pc) and the park routine that preempts it   *)
(* (park), entered from the park software interrupt or inline from the     *)
(* spin-wait on the fence lock.  Every load or store of a shared flag is   *)
(* a step of its own.                                                      *)
(*                                                                         *)
(* Hardware assumption: a pending park interrupt is taken as soon as its   *)
(* core's mask lets it, before the next thread-mode instruction (Runs).    *)
(***************************************************************************)
EXTENDS Integers

CONSTANT MaxSlow    \* waits that outlast PARK_TIMEOUT, in one behaviour

ASSUME MaxSlowAssumption == MaxSlow \in Nat

PRO == 0
APP == 1
Core == {PRO, APP}
Other(c) == 1 - c

VARIABLES
  pc,        \* thread-mode program counter of each core
  park,      \* where each core is in park(): "no" when it is not there
  masked,    \* interrupts masked on the core
  held,      \* the mask a fence on this core will restore (Fence.mask)
  before,    \* the mask park() will restore
  pending,   \* the core's park software interrupt is raised
  ready,     \* PARKER_READY
  parkReq,   \* PARK_REQ
  parked,    \* PARKED
  fence,     \* FENCE
  acked,     \* the fence in flight saw its park acknowledged
  dma,       \* the output driver's SPI transfer is running
  slow       \* FENCE_TIMEOUTS, and the release waits that ran out

vars == <<pc, park, masked, held, before, pending, ready, parkReq, parked,
          fence, acked, dma, slow>>

ThreadStates == {"off", "boot", "start", "run", "crit", "bare", "lock", "won",
                 "ask", "raise", "ack", "quiet", "op", "release", "out",
                 "unlock", "unmask", "lock.park", "ack.park"}
Holding == {"won", "ask", "raise", "ack", "ack.park", "quiet", "op",
            "release", "out", "unlock"}
ParkStates == {"no", "enter", "spin", "leave"}

FenceTypeOK ==
  /\ pc \in [Core -> ThreadStates]
  /\ park \in [Core -> ParkStates]
  /\ masked \in [Core -> BOOLEAN] /\ held \in [Core -> BOOLEAN]
  /\ before \in [Core -> BOOLEAN] /\ pending \in [Core -> BOOLEAN]
  /\ ready \in [Core -> BOOLEAN] /\ parkReq \in [Core -> BOOLEAN]
  /\ parked \in [Core -> BOOLEAN]
  /\ fence \in BOOLEAN /\ acked \in BOOLEAN /\ dma \in BOOLEAN
  /\ slow \in 0..MaxSlow
  /\ fence <=> \E c \in Core: pc[c] \in Holding    \* the lock is somebody's

(* main.rs installs the ProCpu's park handler before anything else here;   *)
(* the second core is off until core1::start.                              *)
Init ==
  /\ pc = [c \in Core |-> IF c = PRO THEN "boot" ELSE "off"]
  /\ park = [c \in Core |-> "no"]
  /\ masked = [c \in Core |-> FALSE] /\ held = [c \in Core |-> FALSE]
  /\ before = [c \in Core |-> FALSE] /\ pending = [c \in Core |-> FALSE]
  /\ ready = [c \in Core |-> c = PRO]
  /\ parkReq = [c \in Core |-> FALSE] /\ parked = [c \in Core |-> FALSE]
  /\ fence = FALSE /\ acked = FALSE /\ dma = FALSE
  /\ slow = 0

(* The core executes thread-mode code.                                     *)
Runs(c) == park[c] = "no" /\ ~(pending[c] /\ ~masked[c])

At(c, from, to) == Runs(c) /\ pc[c] = from /\ pc' = [pc EXCEPT ![c] = to]

flags == <<pending, ready, parkReq, parked, fence>>
masks == <<masked, held, before>>
ghosts == <<acked, dma, slow>>

(***************************************************************************)
(* Start-up: the ProCpu hands the second core its entry point and spins    *)
(* until that core has armed its park handler.                             *)
(***************************************************************************)
NoStack ==      \* the stack allocation failed: the board stays single-core
  /\ At(PRO, "boot", "run")
  /\ UNCHANGED <<park, masks, flags, ghosts>>

StartApp ==
  /\ Runs(PRO) /\ pc[PRO] = "boot"
  /\ pc' = [pc EXCEPT ![PRO] = "start", ![APP] = "boot"]
  /\ UNCHANGED <<park, masks, flags, ghosts>>

InstallAppParker ==
  /\ At(APP, "boot", "run")
  /\ ready' = [ready EXCEPT ![APP] = TRUE]
  /\ UNCHANGED <<park, masks, pending, parkReq, parked, fence, ghosts>>

StartedUnseen ==              \* mutant
  At(PRO, "start", "run") /\ UNCHANGED <<park, masks, flags, ghosts>>
Started ==
  /\ At(PRO, "start", "run")
  /\ ready[APP]
  /\ UNCHANGED <<park, masks, flags, ghosts>>

(***************************************************************************)
(* Ordinary code: critical sections, and output transfers that outlive the *)
(* code that started them.                                                 *)
(***************************************************************************)
EnterCritical(c) ==
  /\ At(c, "run", "crit")
  /\ masked' = [masked EXCEPT ![c] = TRUE]
  /\ UNCHANGED <<park, held, before, flags, ghosts>>

LeaveCritical(c) ==
  /\ At(c, "crit", "run")
  /\ masked' = [masked EXCEPT ![c] = FALSE]
  /\ UNCHANGED <<park, held, before, flags, ghosts>>

StartTransfer(c) ==
  /\ Runs(c) /\ pc[c] = "run" /\ ~dma
  /\ dma' = TRUE
  /\ UNCHANGED <<pc, park, masks, flags, acked, slow>>

TransferEnds ==
  /\ dma
  /\ dma' = FALSE
  /\ UNCHANGED <<pc, park, masks, flags, acked, slow>>

(***************************************************************************)
(* Fence::acquire                                                          *)
(***************************************************************************)
Caller(mask) == IF mask THEN "crit" ELSE "run"

CallFence(c) ==
  /\ At(c, Caller(masked[c]), IF ready[Other(c)] THEN "lock" ELSE "bare")
  /\ UNCHANGED <<park, masks, flags, ghosts>>

(* The other core has no park handler: the operation runs as it is.        *)
BareOp(c) ==
  /\ At(c, "bare", Caller(masked[c]))
  /\ UNCHANGED <<park, masks, flags, ghosts>>

TakeLock(c) ==
  /\ At(c, "lock", "won")
  /\ ~fence
  /\ fence' = TRUE
  /\ UNCHANGED <<park, masks, pending, ready, parkReq, parked, ghosts>>

MaskSelf(c) ==
  /\ At(c, "won", "ask")
  /\ held' = [held EXCEPT ![c] = masked[c]]
  /\ masked' = [masked EXCEPT ![c] = TRUE]
  /\ UNCHANGED <<park, before, flags, ghosts>>

Request(c) ==
  /\ At(c, "ask", "raise")
  /\ parkReq' = [parkReq EXCEPT ![Other(c)] = TRUE]
  /\ UNCHANGED <<park, masks, pending, ready, parked, fence, ghosts>>

RaisePark(c) ==
  /\ At(c, "raise", "ack")
  /\ pending' = [pending EXCEPT ![Other(c)] = TRUE]
  /\ UNCHANGED <<park, masks, ready, parkReq, parked, fence, ghosts>>

Acknowledged(c) ==
  /\ At(c, "ack", "quiet")
  /\ parked[Other(c)]
  /\ acked' = TRUE
  /\ UNCHANGED <<park, masks, flags, dma, slow>>

(* PARK_TIMEOUT: the other core kept its interrupts masked for longer.     *)
AckTimeout(c) ==
  /\ At(c, "ack", "op")
  /\ ~parked[Other(c)] /\ slow < MaxSlow
  /\ acked' = FALSE
  /\ slow' = slow + 1
  /\ UNCHANGED <<park, masks, flags, dma>>

TransferIgnored(c) ==         \* mutant
  At(c, "quiet", "op") /\ UNCHANGED <<park, masks, flags, ghosts>>
(* Acknowledged: wait for the output driver's transfer to finish.          *)
TransferDone(c) ==
  /\ At(c, "quiet", "op")
  /\ ~dma
  /\ UNCHANGED <<park, masks, flags, ghosts>>

(* A transfer that outlasts PARK_TIMEOUT does not hold the operation back.  *)
TransferTimeout(c) ==
  /\ At(c, "quiet", "op")
  /\ dma /\ slow < MaxSlow
  /\ slow' = slow + 1
  /\ UNCHANGED <<park, masks, flags, acked, dma>>

(***************************************************************************)
(* The operation, and Drop for Fence                                       *)
(***************************************************************************)
UnmaskedEarly(c) ==           \* mutant
  /\ At(c, "op", "release")
  /\ masked' = [masked EXCEPT ![c] = held[c]]
  /\ UNCHANGED <<park, held, before, flags, ghosts>>
OpEnds(c) ==
  /\ At(c, "op", "release")
  /\ UNCHANGED <<park, masks, flags, ghosts>>

Release(c) ==
  /\ At(c, "release", "out")
  /\ parkReq' = [parkReq EXCEPT ![Other(c)] = FALSE]
  /\ UNCHANGED <<park, masks, pending, ready, parked, fence, ghosts>>

SeenOut(c) ==
  /\ At(c, "out", "unlock")
  /\ ~parked[Other(c)]
  /\ UNCHANGED <<park, masks, flags, ghosts>>

OutTimeout(c) ==
  /\ At(c, "out", "unlock")
  /\ parked[Other(c)] /\ slow < MaxSlow
  /\ slow' = slow + 1
  /\ UNCHANGED <<park, masks, flags, acked, dma>>

Unlock(c) ==
  /\ At(c, "unlock", "unmask")
  /\ fence' = FALSE
  /\ UNCHANGED <<park, masks, pending, ready, parkReq, parked, ghosts>>

Unmask(c) ==
  /\ At(c, "unmask", Caller(held[c]))
  /\ masked' = [masked EXCEPT ![c] = held[c]]
  /\ UNCHANGED <<park, held, before, flags, ghosts>>

(***************************************************************************)
(* The park routine: entered from the interrupt, whose handler resets the  *)
(* raise first, or inline from the spin-waits of acquire (park_if_asked),  *)
(* which leaves the raise pending.                                         *)
(***************************************************************************)
EnterPark(c) ==
  /\ park' = [park EXCEPT ![c] = "enter"]
  /\ before' = [before EXCEPT ![c] = masked[c]]
  /\ masked' = [masked EXCEPT ![c] = TRUE]

ParkInterrupt(c) ==
  /\ park[c] = "no" /\ pending[c] /\ ~masked[c]
  /\ pending' = [pending EXCEPT ![c] = FALSE]
  /\ EnterPark(c)
  /\ UNCHANGED <<pc, held, ready, parkReq, parked, fence, ghosts>>

NeverAsked(c) == pc[c] = "lock" /\ FALSE /\ UNCHANGED vars    \* mutant
SeeAsked(c) ==
  /\ parkReq[c]
  /\ At(c, "lock", "lock.park") \/ At(c, "ack", "ack.park")
  /\ UNCHANGED <<park, masks, flags, ghosts>>

CallPark(c) ==
  /\ At(c, "lock.park", "lock") \/ At(c, "ack.park", "ack")
  /\ EnterPark(c)
  /\ UNCHANGED <<held, flags, ghosts>>

SayParked(c) ==
  /\ park[c] = "enter"
  /\ park' = [park EXCEPT ![c] = "spin"]
  /\ parked' = [parked EXCEPT ![c] = TRUE]
  /\ UNCHANGED <<pc, masks, pending, ready, parkReq, fence, ghosts>>

SeeRelease(c) ==
  /\ park[c] = "spin" /\ ~parkReq[c]
  /\ park' = [park EXCEPT ![c] = "leave"]
  /\ UNCHANGED <<pc, masks, flags, ghosts>>

LeavePark(c) ==
  /\ park[c] = "leave"
  /\ park' = [park EXCEPT ![c] = "no"]
  /\ parked' = [parked EXCEPT ![c] = FALSE]
  /\ masked' = [masked EXCEPT ![c] = before[c]]
  /\ UNCHANGED <<pc, held, before, pending, ready, parkReq, fence, ghosts>>

(***************************************************************************)
(* The system                                                              *)
(***************************************************************************)
Acquire(c) == \/ CallFence(c) \/ TakeLock(c) \/ MaskSelf(c) \/ Request(c)
              \/ RaisePark(c) \/ Acknowledged(c) \/ AckTimeout(c)
              \/ TransferDone(c) \/ TransferTimeout(c)
Finish(c) == \/ BareOp(c) \/ OpEnds(c) \/ Release(c) \/ SeenOut(c)
             \/ OutTimeout(c) \/ Unlock(c) \/ Unmask(c)
Park(c) == \/ ParkInterrupt(c) \/ SeeAsked(c) \/ CallPark(c)
           \/ SayParked(c) \/ SeeRelease(c) \/ LeavePark(c)
Ordinary(c) == EnterCritical(c) \/ LeaveCritical(c) \/ StartTransfer(c)

Next ==
  \/ NoStack \/ StartApp \/ InstallAppParker \/ Started \/ TransferEnds
  \/ \E c \in Core: Acquire(c) \/ Finish(c) \/ Park(c) \/ Ordinary(c)

(* A core that is not stuck goes on: the fence and park code, the way out  *)
(* of a critical section, the transfer hardware and the start-up.  Nothing *)
(* says that a core ever fences, or how often the lock spin wins.          *)
Progress(c) ==
  \/ TakeLock(c) \/ MaskSelf(c) \/ Request(c) \/ RaisePark(c)
  \/ Acknowledged(c) \/ TransferDone(c) \/ OpEnds(c) \/ Release(c)
  \/ SeenOut(c) \/ Unlock(c) \/ Unmask(c) \/ BareOp(c)

Fairness ==
  /\ WF_vars(InstallAppParker) /\ WF_vars(Started) /\ WF_vars(TransferEnds)
  /\ \A c \in Core:
       /\ WF_vars(Progress(c)) /\ WF_vars(LeaveCritical(c))
       /\ WF_vars(SeeAsked(c)) /\ WF_vars(ParkInterrupt(c))
       /\ WF_vars(CallPark(c) \/ SayParked(c) \/ SeeRelease(c) \/ LeavePark(c))

Spec == Init /\ [][Next]_vars /\ Fairness

-----------------------------------------------------------------------------
(* At most one core is in a flash operation, time-outs or not: the fence   *)
(* lock is exclusive, and no unfenced operation of the boot is still in    *)
(* flight when the second core can take its first fence.                   *)
InOp(c) == pc[c] \in {"bare", "op"}
OneOpAtATime == \A c \in Core: InOp(c) => ~InOp(Other(c))

(* The interrupts of a fencing core stay masked from before the other core *)
(* is asked to park until it has been seen to run again (issue #292 in the *)
(* comment of Drop: a wedge where they came back while it was parked).     *)
MaskedUntilReleased ==
  \A c \in Core:
    parkReq[Other(c)] \/ (pc[c] = "out" /\ parked[Other(c)]) => masked[c]

(* While no wait has timed out, no output transfer is in flight during a   *)
(* fenced flash operation (the SPI hosts share one DMA engine).            *)
QuietDuringOp == \A c \in Core: pc[c] = "op" /\ slow = 0 => ~dma

(* While no wait has timed out, a core executes no thread-mode code during *)
(* the other core's flash operation -- also when the acknowledgement the   *)
(* fence saw was an earlier park's, on its way out.                        *)
OtherStands ==
  \A c \in Core:
    InOp(c) /\ slow = 0 => pc[Other(c)] = "off" \/ ~Runs(Other(c))

(* A fenced operation has the flash bus to itself.                         *)
OpHasTheBus == QuietDuringOp /\ OtherStands

(* A fence that was won is released: two cores that fence at once do not   *)
(* wait for each other, whether their callers mask interrupts or not.      *)
FenceEnds == fence ~> ~fence
=============================================================================
