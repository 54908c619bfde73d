------------------------------ MODULE Pipeline ------------------------------
(***************************************************************************)
(* The frame hand-off of the pipelined boards (pipeline.rs, mod pipe): the *)
(* render task on one core and the output task on the other pass a single  *)
(* travelling buffer through SLOT, the panel takes a frame when its        *)
(* previous swap has landed, and GET /api/pixels copies the parked buffer  *)
(* chunk by chunk.  Every SLOT.lock section is one step.                   *)
(***************************************************************************)
EXTENDS Integers, Sequences, FiniteSets

CONSTANTS
  MaxSeq,     \* bound: frames rendered
  Chunks,     \* chunks of a frame (its bytes over PREVIEW_CHUNK)
  Restarts,   \* PREVIEW_RESTARTS
  MaxWaits    \* waits for a parked frame before the preview gives up

ASSUME PipelineAssumption ==
  /\ {MaxSeq, Chunks} \subseteq Nat \ {0}
  /\ {Restarts, MaxWaits} \subseteq Nat

NoBuffer == 0                  \* no buffer
Buffer == {1, 2}           \* the travelling buffer and the stage, by address
NoSeq == -1                \* u32::MAX, the free buffer's number
Empty == -1                \* a cleared buffer's content

VARIABLES
  cap,       \* the panel driver came up (paces_frames)
  vsync,     \* VSYNC
  free,      \* Slot.free: a buffer or NoBuffer
  ready,     \* Slot.ready: [buf, seq], buf NoBuffer when empty
  stage,     \* RenderSide.stage
  content,   \* the frame each buffer holds
  seq,       \* NEXT_SEQ; also the number of the frame being handed over
  rend,      \* the render task: [pc, staged, buf]
  out,       \* the output task: [pc, buf, seq, shown]
  last,      \* last_shown
  dropped,   \* DROPPED
  panel,     \* "ready", "busy" (a swap on its way), "dead"
  prev,      \* the preview: [pc, want, got, restarts, waits]
  shown,     \* ghost: the frames the panel took
  late       \* ghost: a wait outlasted VSYNC_HOLD, or an allocation failed

vars == <<cap, vsync, free, ready, stage, content, seq, rend, out, last,
          dropped, panel, prev, shown, late>>

Nobody == [buf |-> NoBuffer, seq |-> NoSeq]
NoCopy == [pc |-> "no", want |-> Nobody, got |-> <<>>, restarts |-> 0,
           waits |-> 0]

Init ==
  /\ cap \in BOOLEAN
  /\ vsync = FALSE
  /\ free = 1 /\ ready = Nobody /\ stage = 2
  /\ content = [b \in Buffer |-> Empty]
  /\ seq = 0
  /\ rend = [pc |-> "idle", staged |-> FALSE, buf |-> NoBuffer]
  /\ out = [pc |-> "boot", buf |-> NoBuffer, seq |-> NoSeq, shown |-> FALSE]
  /\ last = NoSeq /\ dropped = 0
  /\ panel = "ready"
  /\ prev = NoCopy
  /\ shown = {} /\ late = FALSE

slot == <<free, ready>>
render == <<stage, seq, rend>>
output == <<cap, vsync, out, last, dropped, shown>>

(***************************************************************************)
(* The render task, on the other core from the first instruction of        *)
(* core1::start: it may emit before the output task published VSYNC.       *)
(***************************************************************************)
Render(staged) ==        \* emit or emit_staged: the number is taken first
  /\ rend.pc = "idle" /\ seq < MaxSeq
  /\ seq' = seq + 1
  /\ rend' = [pc |-> "stamped", staged |-> staged, buf |-> NoBuffer]
  /\ UNCHANGED <<slot, stage, content, output, panel, prev, late>>

ReadVsync ==
  /\ rend.pc = "stamped"
  /\ rend' = [rend EXCEPT !.pc = IF vsync THEN "wait" ELSE "claim"]
  /\ UNCHANGED <<slot, stage, content, seq, output, panel, prev, late>>

Fills(b) == rend' = [rend EXCEPT !.pc = "fill", !.buf = b]

(* Without vsync: the free buffer, or the frame not picked up yet, or the  *)
(* frame is dropped.                                                       *)
Claim ==
  /\ rend.pc = "claim"
  /\ \/ free # NoBuffer /\ Fills(free) /\ free' = NoBuffer /\ UNCHANGED ready
     \/ /\ free = NoBuffer /\ ready.buf # NoBuffer
        /\ Fills(ready.buf) /\ ready' = Nobody
        /\ UNCHANGED free
     \/ /\ free = NoBuffer /\ ready.buf = NoBuffer
        /\ rend' = [rend EXCEPT !.pc = "idle"]
        /\ UNCHANGED slot
  /\ UNCHANGED <<stage, content, seq, output, panel, prev, late>>

StealPaced ==                 \* mutant
  /\ rend.pc = "wait"
  /\ \/ free # NoBuffer /\ Fills(free) /\ free' = NoBuffer /\ UNCHANGED ready
     \/ ready.buf # NoBuffer /\ Fills(ready.buf) /\ ready' = Nobody /\ UNCHANGED free
  /\ UNCHANGED <<stage, content, seq, output, panel, prev, late>>
(* Under vsync: only a genuinely free buffer, or VSYNC_HOLD runs out.      *)
ClaimPaced ==
  /\ rend.pc = "wait"
  /\ free # NoBuffer /\ Fills(free) /\ free' = NoBuffer
  /\ UNCHANGED <<ready, stage, content, seq, output, panel, prev, late>>

ClaimTimeout ==
  /\ rend.pc = "wait" /\ free = NoBuffer
  /\ rend' = [rend EXCEPT !.pc = "idle"]
  /\ late' = TRUE
  /\ UNCHANGED <<slot, stage, content, seq, output, panel, prev>>

(* emit's try_reserve failed: the cleared buffer goes back.                *)
BufferKept ==                 \* mutant
  /\ rend.pc = "fill" /\ ~rend.staged /\ late' = TRUE
  /\ rend' = [rend EXCEPT !.pc = "idle", !.buf = NoBuffer]
  /\ UNCHANGED <<slot, content, stage, seq, output, panel, prev>>
FillFails ==
  /\ rend.pc = "fill" /\ ~rend.staged
  /\ content' = [content EXCEPT ![rend.buf] = Empty]
  /\ free' = rend.buf
  /\ rend' = [rend EXCEPT !.pc = "idle", !.buf = NoBuffer]
  /\ late' = TRUE
  /\ UNCHANGED <<ready, stage, seq, output, panel, prev>>

Publish ==
  /\ rend.pc = "fill"
  /\ LET b == IF rend.staged THEN stage ELSE rend.buf IN
       /\ content' = [content EXCEPT ![b] = seq]
       /\ ready' = [buf |-> b, seq |-> seq]
       /\ stage' = IF rend.staged THEN rend.buf ELSE stage
  /\ rend' = [rend EXCEPT !.pc = "idle", !.buf = NoBuffer]
  /\ UNCHANGED <<free, seq, output, panel, prev, late>>

(***************************************************************************)
(* The output task and the panel                                           *)
(***************************************************************************)
PublishVsync ==
  /\ out.pc = "boot"
  /\ vsync' = cap
  /\ out' = [out EXCEPT !.pc = "idle"]
  /\ UNCHANGED <<cap, slot, content, render, last, dropped, panel, prev, shown, late>>

(* READY or the poll timer turns the loop; the frame is taken either way.  *)
Take ==
  /\ out.pc = "idle" /\ ready.buf # NoBuffer
  /\ out' = [pc |-> IF vsync THEN "hold" ELSE "write", buf |-> ready.buf,
             seq |-> ready.seq, shown |-> FALSE]
  /\ ready' = Nobody
  /\ UNCHANGED <<cap, vsync, free, content, render, last, dropped, panel, prev,
                 shown, late>>

HoldDone ==
  /\ out.pc = "hold" /\ panel = "ready"
  /\ out' = [out EXCEPT !.pc = "write"]
  /\ UNCHANGED <<cap, vsync, slot, content, render, last, dropped, panel, prev,
                 shown, late>>

HoldsOn == FALSE /\ UNCHANGED vars            \* mutant
HoldTimeout ==
  /\ out.pc = "hold" /\ panel # "ready"
  /\ out' = [out EXCEPT !.pc = "write"]
  /\ late' = TRUE
  /\ UNCHANGED <<cap, vsync, slot, content, render, last, dropped, panel, prev,
                 shown>>

(* write_frame: refused while the driver is absent or the swap is pending. *)
WriteFrame ==
  /\ out.pc = "write"
  /\ LET taken == cap /\ panel = "ready" IN
       /\ out' = [out EXCEPT !.pc = "back", !.shown = taken]
       /\ panel' = IF taken THEN "busy" ELSE panel
       /\ shown' = IF taken THEN shown \cup {content[out.buf]} ELSE shown
  /\ UNCHANGED <<cap, vsync, slot, content, render, last, dropped, prev, late>>

LastShown == IF out.shown THEN out.seq ELSE last

(* The buffer goes back, then the gap since the last frame shown counts.   *)
GiveBack ==
  /\ out.pc = "back"
  /\ free' = out.buf
  /\ last' = LastShown
  /\ dropped' = IF out.shown /\ last # NoSeq THEN dropped + (out.seq - last - 1)
                                             ELSE dropped
  /\ out' = [out EXCEPT !.pc = "idle", !.buf = NoBuffer]
  /\ UNCHANGED <<cap, vsync, ready, content, render, panel, prev, shown, late>>

SwapLands ==
  /\ panel = "busy" /\ panel' = "ready"
  /\ UNCHANGED <<slot, content, render, output, prev, late>>

PanelDies ==                  \* the display clock stops for good
  /\ panel # "dead" /\ panel' = "dead"
  /\ UNCHANGED <<slot, content, render, output, prev, late>>

(***************************************************************************)
(* preview                                                                 *)
(***************************************************************************)
AddressOnly ==                \* mutant
  IF free # NoBuffer THEN [buf |-> free, seq |-> NoSeq] ELSE [ready EXCEPT !.seq = 0]
Identity == IF free # NoBuffer THEN [buf |-> free, seq |-> NoSeq] ELSE ready

Strict == prev.restarts <= Restarts
Shrank == content[Identity.buf] = Empty /\ prev.got # <<>>
Elsewhere == prev.want.buf # NoBuffer /\ Strict /\ prev.want # Identity

AskPreview ==
  /\ prev.pc = "no"
  /\ prev' = [NoCopy EXCEPT !.pc = "copy"]
  /\ UNCHANGED <<slot, content, render, output, panel, late>>

(* A chunk is copied; the last one, or an empty buffer, ends the preview.  *)
CopyChunk ==
  /\ prev.pc = "copy" /\ Identity.buf # NoBuffer
  /\ ~Elsewhere /\ ~Shrank
  /\ LET got == IF content[Identity.buf] = Empty THEN prev.got
                ELSE Append(prev.got, content[Identity.buf])
         want == IF prev.want.buf = NoBuffer THEN Identity ELSE prev.want
         done == content[Identity.buf] = Empty \/ Len(got) = Chunks
     IN  prev' = [prev EXCEPT !.got = got, !.want = want,
                              !.pc = IF done THEN "done" ELSE "copy"]
  /\ UNCHANGED <<slot, content, render, output, panel, late>>

(* The frame moved, or shrank under the copy: it starts over, unchecked    *)
(* once past the budget.                                                   *)
Moved ==
  /\ prev.pc = "copy" /\ Identity.buf # NoBuffer
  /\ Elsewhere \/ Shrank
  /\ prev' = [prev EXCEPT !.want = Nobody, !.got = <<>>, !.restarts = @ + 1]
  /\ UNCHANGED <<slot, content, render, output, panel, late>>

(* Out of the slot: wait a little, and start over; then answer empty.      *)
Parked ==
  /\ prev.pc = "copy" /\ Identity.buf = NoBuffer
  /\ prev' = [prev EXCEPT !.want = Nobody, !.got = <<>>, !.waits = @ + 1,
                          !.pc = IF prev.waits = MaxWaits THEN "done" ELSE "copy"]
  /\ UNCHANGED <<slot, content, render, output, panel, late>>

Served ==
  /\ prev.pc = "done"
  /\ prev' = NoCopy
  /\ UNCHANGED <<slot, content, render, output, panel, late>>

Next ==
  \/ \E staged \in BOOLEAN: Render(staged)
  \/ ReadVsync \/ Claim \/ ClaimPaced \/ ClaimTimeout \/ FillFails \/ Publish
  \/ PublishVsync \/ Take \/ HoldDone \/ HoldTimeout \/ WriteFrame \/ GiveBack
  \/ SwapLands \/ PanelDies
  \/ AskPreview \/ CopyChunk \/ Moved \/ Parked \/ Served

(* The output task's executor runs it; its hold is bounded by a timer.     *)
Fairness ==
  /\ WF_vars(PublishVsync) /\ WF_vars(Take) /\ WF_vars(HoldDone \/ HoldTimeout)
  /\ WF_vars(WriteFrame) /\ WF_vars(GiveBack)

Spec == Init /\ [][Next]_vars /\ Fairness

(***************************************************************************)
(* Properties                                                              *)
(***************************************************************************)
(* The travelling buffer is in one place: free, ready, with the render     *)
(* task or with the output task, and it is never the stage.                *)
OneBuffer ==
  LET holder == <<free, ready.buf, rend.buf, out.buf>> IN
  \E i \in 1..4: /\ holder[i] \in Buffer \ {stage}
                 /\ \A j \in 1..4 \ {i}: holder[j] = NoBuffer

(* `dropped` is the ground truth (Gitea #387): whenever the output task is *)
(* between two frames it counts exactly the frames rendered between the    *)
(* first and the last one shown that the panel never took, by whatever     *)
(* route they were lost.                                                   *)
DroppedIsExact ==
  out.pc # "back" =>
    dropped = Cardinality({f \in 1..MaxSeq \ shown:
                \E a, b \in shown: a < f /\ f < b})

(* Under vsync pacing the hand-off is lossless while no wait outlasts      *)
(* VSYNC_HOLD and no allocation fails; the one frame that may be lost is   *)
(* one whose claim began before the output task published VSYNC.           *)
LosslessUnderVsync == (cap /\ ~late) => dropped <= 1

(* Every frame is shown or counted, and under vsync pacing shown.          *)
FramesAccounted == DroppedIsExact /\ LosslessUnderVsync

(* A checked preview copy that began on a frame in `ready` is of that one  *)
(* frame, however the buffer moves and returns between two chunks.         *)
SnapshotWhole ==
  prev.want.seq # NoSeq /\ Strict =>
    \A i \in 1..Len(prev.got): prev.got[i] = prev.want.seq

(* The same for every checked copy.  It does not hold: the free buffer has *)
(* no number, so one that was filled, shown and freed again between two    *)
(* chunks passes for the same one (README, section 7).                     *)
SnapshotAlwaysWhole ==
  Strict => \A i, j \in 1..Len(prev.got): prev.got[i] = prev.got[j]

(* The frame the output task holds for the panel comes back to the render  *)
(* task, even from a panel that stopped: VSYNC_HOLD is a liveness floor.   *)
HoldEnds == (out.pc = "hold") ~> (free # NoBuffer)

=============================================================================
