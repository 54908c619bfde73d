---------------------------- MODULE FrameProofs ----------------------------
(* The road of a frame, three parts of it for every value of their constants: *)
(* the hand-off from the render task to the output task (Pipeline), the claim  *)
(* queue by which the ring driver follows the panel's beam (RingQueue), and    *)
(* the watchdog that resets a board whose render loop stands still             *)
(* (StallWatch).  The parts share no state: each has its own invariant.        *)
EXTENDS Pipeline, RingQueue, StallWatch, FiniteSetTheorems, TLAPS

-----------------------------------------------------------------------------
(* The hand-off for any number of frames, chunks, restarts and waits: the    *)
(* travelling buffer is never lost nor owned twice, every frame is shown or  *)
(* counted as dropped, and a checked preview copy is of the frame it names.  *)

BufferOrNone == Buffer \cup {NoBuffer}

HandOffTypes ==
  /\ cap \in BOOLEAN /\ vsync \in BOOLEAN
  /\ free \in BufferOrNone
  /\ ready \in [buf: BufferOrNone, seq: Int]
  /\ stage \in Buffer
  /\ content \in [Buffer -> Int]
  /\ seq \in Nat
  /\ rend \in [pc: {"idle", "stamped", "wait", "claim", "fill"}, staged: BOOLEAN,
               buf: BufferOrNone]
  /\ out \in [pc: {"boot", "idle", "hold", "write", "back"}, buf: BufferOrNone,
              seq: Int, shown: BOOLEAN]

(* A task holds the buffer exactly in the part of its loop between taking    *)
(* and giving it.                                                            *)
HeldWhereUsed ==
  /\ rend.buf # NoBuffer <=> rend.pc = "fill"
  /\ out.buf # NoBuffer <=> out.pc \in {"hold", "write", "back"}

(* OneBuffer, place by place.                                                *)
Somewhere ==
  \/ free # NoBuffer /\ free # stage /\ ready.buf = NoBuffer /\ rend.buf = NoBuffer /\ out.buf = NoBuffer
  \/ free = NoBuffer /\ ready.buf \notin {NoBuffer, stage} /\ rend.buf = NoBuffer /\ out.buf = NoBuffer
  \/ free = NoBuffer /\ ready.buf = NoBuffer /\ rend.buf \notin {NoBuffer, stage} /\ out.buf = NoBuffer
  \/ free = NoBuffer /\ ready.buf = NoBuffer /\ rend.buf = NoBuffer /\ out.buf \notin {NoBuffer, stage}

(* A parked frame carries its own number.                                    *)
ReadyIsItself == ready.buf # NoBuffer => content[ready.buf] = ready.seq

HandOffInv == HandOffTypes /\ HeldWhereUsed /\ Somewhere /\ ReadyIsItself

PreviewTypes ==
  prev \in [pc: {"no", "copy", "done"}, want: [buf: BufferOrNone, seq: Int],
            got: Seq(Int), restarts: Nat, waits: Nat]

CopyInv ==
  /\ PreviewTypes
  /\ prev.want.buf = NoBuffer => prev.got = <<>>
  /\ SnapshotWhole

PipelineInv == HandOffInv /\ CopyInv

(* The four places, one at a time.                                           *)
LEMMA PlaceByPlace == ASSUME HandOffTypes PROVE Somewhere <=> OneBuffer
<1> DEFINE holder == <<free, ready.buf, rend.buf, out.buf>>
<1>1. /\ holder[1] = free /\ holder[2] = ready.buf
      /\ holder[3] = rend.buf /\ holder[4] = out.buf
  OBVIOUS
<1>2. 1..4 = {1, 2, 3, 4}
  OBVIOUS
<1>3. /\ 1..4 \ {1} = {2, 3, 4} /\ 1..4 \ {2} = {1, 3, 4}
      /\ 1..4 \ {3} = {1, 2, 4} /\ 1..4 \ {4} = {1, 2, 3}
  OBVIOUS
<1>4. OneBuffer <=> \E i \in {1, 2, 3, 4}: /\ holder[i] \in Buffer \ {stage}
                                           /\ \A j \in 1..4 \ {i}: holder[j] = NoBuffer
  BY <1>2 DEF OneBuffer
<1>5. /\ free \in BufferOrNone /\ ready.buf \in BufferOrNone
      /\ rend.buf \in BufferOrNone /\ out.buf \in BufferOrNone
  BY DEF HandOffTypes
<1> HIDE DEF holder
<1> QED BY <1>1, <1>3, <1>4, <1>5 DEF Somewhere, BufferOrNone, Buffer, NoBuffer

(* The start: the travelling buffer is free, nothing was copied.             *)
LEMMA HandOffInit == ASSUME Init PROVE PipelineInv
<1>1. HandOffInv
  <2> USE DEF Init, BufferOrNone, Buffer, NoBuffer, Nobody, NoSeq, Empty
  <2>1. /\ cap \in BOOLEAN /\ vsync \in BOOLEAN /\ free \in BufferOrNone
        /\ ready \in [buf: BufferOrNone, seq: Int] /\ stage \in Buffer
        /\ seq \in Nat
    <3>1. cap \in BOOLEAN /\ vsync \in BOOLEAN
      BY Zenon
    <3> QED BY <3>1
  <2>0. content \in [Buffer -> Int]
    OBVIOUS
  <2>2. /\ rend.pc = "idle" /\ rend.buf = NoBuffer
        /\ rend \in [pc: {"idle", "stamped", "wait", "claim", "fill"}, staged: BOOLEAN,
                     buf: BufferOrNone]
    OBVIOUS
  <2>3. /\ out.pc = "boot" /\ out.buf = NoBuffer
        /\ out \in [pc: {"boot", "idle", "hold", "write", "back"}, buf: BufferOrNone,
                    seq: Int, shown: BOOLEAN]
    OBVIOUS
  <2>4. HandOffTypes
    BY <2>0, <2>1, <2>2, <2>3 DEF HandOffTypes
  <2>5. HeldWhereUsed /\ Somewhere /\ ReadyIsItself
    BY <2>2, <2>3 DEF HeldWhereUsed, Somewhere, ReadyIsItself
  <2> QED BY <2>4, <2>5 DEF HandOffInv
<1>2. CopyInv
  BY PipelineAssumption
  DEF Init, CopyInv, PreviewTypes, SnapshotWhole, NoCopy, Nobody, NoSeq, NoBuffer, BufferOrNone
<1> QED BY <1>1, <1>2 DEF PipelineInv

(* Every step of the two tasks, of the panel and of a preview keeps the      *)
(* buffer in one place.                                                      *)
LEMMA HandOffStep == ASSUME HandOffInv, [Next]_vars PROVE HandOffInv'
<1> USE DEF HandOffInv, HandOffTypes, HeldWhereUsed, Somewhere, ReadyIsItself,
            BufferOrNone, Buffer, NoBuffer, Nobody, NoSeq, Empty, slot, render, output
<1>1. ASSUME NEW staged \in BOOLEAN, Render(staged) PROVE HandOffInv'
  BY <1>1 DEF Render
<1>2. CASE ReadVsync
  BY <1>2 DEF ReadVsync
<1>3. CASE Claim
  <2> USE DEF Claim, Fills
  <2>1. CASE free # NoBuffer
    <3>1. /\ rend' = [rend EXCEPT !.pc = "fill", !.buf = free] /\ free' = NoBuffer
          /\ UNCHANGED <<ready, stage, content, seq, output>>
      BY <1>3, <2>1
    <3>2. rend' \in [pc: {"idle", "stamped", "wait", "claim", "fill"},
                    staged: BOOLEAN, buf: BufferOrNone]
      BY <3>1
    <3>3. HandOffTypes'
      BY <3>1, <3>2
    <3>4. HeldWhereUsed' /\ Somewhere' /\ ReadyIsItself'
      BY <1>3, <2>1, <3>1
    <3> QED BY <3>3, <3>4
  <2>2. CASE free = NoBuffer /\ ready.buf # NoBuffer
    <3>1. /\ rend' = [rend EXCEPT !.pc = "fill", !.buf = ready.buf]
          /\ ready' = Nobody
          /\ UNCHANGED <<free, stage, content, seq, output>>
      BY <1>3, <2>2
    <3>2. HandOffTypes'
      <4>1. Nobody \in [buf: BufferOrNone, seq: Int]
        OBVIOUS
      <4>2. rend' \in [pc: {"idle", "stamped", "wait", "claim", "fill"},
                      staged: BOOLEAN, buf: BufferOrNone]
        BY <3>1
      <4> HIDE DEF Nobody
      <4> QED BY <3>1, <4>1, <4>2
    <3>3. HeldWhereUsed' /\ Somewhere' /\ ReadyIsItself'
      BY <2>2, <3>1
    <3> QED BY <3>2, <3>3
  <2>3. CASE free = NoBuffer /\ ready.buf = NoBuffer
    BY <1>3, <2>3
  <2> QED BY <2>1, <2>2, <2>3
<1>4. CASE ClaimPaced \/ ClaimTimeout
  <2>1. CASE ClaimPaced
    <3>1. /\ rend' = [rend EXCEPT !.pc = "fill", !.buf = free] /\ free' = NoBuffer
          /\ UNCHANGED <<ready, stage, content, seq, output>>
      BY <2>1 DEF ClaimPaced, Fills
    <3>2. rend' \in [pc: {"idle", "stamped", "wait", "claim", "fill"},
                    staged: BOOLEAN, buf: BufferOrNone]
      BY <3>1
    <3>3. HandOffTypes'
      BY <3>1, <3>2
    <3>4. HeldWhereUsed' /\ Somewhere' /\ ReadyIsItself'
      BY <2>1, <3>1 DEF ClaimPaced
    <3> QED BY <3>3, <3>4
  <2>2. CASE ClaimTimeout
    BY <2>2 DEF ClaimTimeout
  <2> QED BY <1>4, <2>1, <2>2
<1>5. CASE FillFails
  <2>1. HandOffTypes'
    <3>1. rend.buf \in Buffer /\ content' = [content EXCEPT ![rend.buf] = -1]
      BY <1>5 DEF FillFails
    <3>2. content' \in [Buffer -> Int]
      BY <3>1
    <3>3. /\ rend' = [rend EXCEPT !.pc = "idle", !.buf = NoBuffer] /\ free' = rend.buf
          /\ UNCHANGED <<ready, stage, seq, output>>
      BY <1>5 DEF FillFails
    <3>4. rend' \in [pc: {"idle", "stamped", "wait", "claim", "fill"},
                    staged: BOOLEAN, buf: BufferOrNone]
      BY <3>3
    <3> QED BY <3>1, <3>2, <3>3, <3>4
  <2>2. HeldWhereUsed' /\ Somewhere'
    BY <1>5 DEF FillFails
  <2>3. ReadyIsItself'
    BY <1>5 DEF FillFails
  <2> QED BY <2>1, <2>2, <2>3
<1>6. CASE Publish
  <2>1. CASE rend.staged
    <3>1. /\ ready' = [buf |-> stage, seq |-> seq] /\ stage' = rend.buf
          /\ content' = [content EXCEPT ![stage] = seq]
      BY <1>6, <2>1 DEF Publish
    <3>2. HandOffTypes'
      <4>1. rend.buf \in Buffer /\ content' \in [Buffer -> Int]
        BY <1>6, <3>1 DEF Publish
      <4>2. /\ rend' = [rend EXCEPT !.pc = "idle", !.buf = NoBuffer]
            /\ UNCHANGED <<free, seq, output>>
        BY <1>6 DEF Publish
      <4>3. rend' \in [pc: {"idle", "stamped", "wait", "claim", "fill"},
                      staged: BOOLEAN, buf: BufferOrNone]
        BY <4>2
      <4>4. ready' \in [buf: BufferOrNone, seq: Int] /\ stage' \in Buffer
        BY <3>1, <4>1
      <4> QED BY <4>1, <4>2, <4>3, <4>4
    <3>3. HeldWhereUsed' /\ Somewhere' /\ ReadyIsItself'
      BY <1>6, <3>1 DEF Publish
    <3> QED BY <3>2, <3>3
  <2>2. CASE ~rend.staged
    <3>1. /\ ready' = [buf |-> rend.buf, seq |-> seq] /\ stage' = stage
          /\ content' = [content EXCEPT ![rend.buf] = seq]
      BY <1>6, <2>2 DEF Publish
    <3>2. HandOffTypes'
      <4>1. rend.buf \in Buffer /\ content' \in [Buffer -> Int]
        BY <1>6, <3>1 DEF Publish
      <4>2. /\ rend' = [rend EXCEPT !.pc = "idle", !.buf = NoBuffer]
            /\ UNCHANGED <<free, seq, output>>
        BY <1>6 DEF Publish
      <4>3. rend' \in [pc: {"idle", "stamped", "wait", "claim", "fill"},
                      staged: BOOLEAN, buf: BufferOrNone]
        BY <4>2
      <4>4. ready' \in [buf: BufferOrNone, seq: Int] /\ stage' \in Buffer
        BY <3>1, <4>1
      <4> QED BY <4>1, <4>2, <4>3, <4>4
    <3>3. HeldWhereUsed' /\ Somewhere' /\ ReadyIsItself'
      BY <1>6, <3>1 DEF Publish
    <3> QED BY <3>2, <3>3
  <2> QED BY <2>1, <2>2
<1>7. CASE PublishVsync \/ Take
  <2>1. CASE PublishVsync
    <3>1. vsync' \in BOOLEAN
      BY <2>1, Zenon DEF PublishVsync
    <3> QED BY <2>1, <3>1 DEF PublishVsync
  <2>2. CASE Take
    <3>1. out' \in [pc: {"hold", "write"}, buf: BufferOrNone, seq: Int, shown: BOOLEAN]
          /\ out'.buf = ready.buf
      BY <2>2 DEF Take
    <3> QED BY <2>2, <3>1 DEF Take
  <2> QED BY <1>7, <2>1, <2>2
<1>8. CASE HoldDone \/ HoldTimeout \/ WriteFrame
  <2>1. CASE HoldDone \/ HoldTimeout
    BY <2>1 DEF HoldDone, HoldTimeout
  <2>2. CASE WriteFrame
    <3>1. PICK taken \in BOOLEAN: out' = [out EXCEPT !.pc = "back", !.shown = taken]
      BY <2>2, Zenon DEF WriteFrame
    <3> QED BY <2>2, <3>1 DEF WriteFrame
  <2> QED BY <1>8, <2>1, <2>2
<1>9. CASE GiveBack
  BY <1>9 DEF GiveBack
<1>10. CASE SwapLands \/ PanelDies
  BY <1>10 DEF SwapLands, PanelDies
<1>11. CASE AskPreview \/ CopyChunk \/ Moved \/ Parked \/ Served
  BY <1>11 DEF AskPreview, CopyChunk, Moved, Parked, Served
<1>12. CASE UNCHANGED vars
  BY <1>12 DEF vars
<1> QED BY <1>1, <1>2, <1>3, <1>4, <1>5, <1>6, <1>7, <1>8, <1>9, <1>10, <1>11, <1>12 DEF Next

(* A chunk that is copied while the check is on is of the frame the copy     *)
(* began with.                                                               *)
LEMMA ChunkStep == ASSUME PipelineInv, CopyChunk PROVE CopyInv'
<1> DEFINE chunk == content[Identity.buf]
           got == IF chunk = Empty THEN prev.got ELSE Append(prev.got, chunk)
           want == IF prev.want.buf = NoBuffer THEN Identity ELSE prev.want
<1>1. /\ Identity \in [buf: BufferOrNone, seq: Int] /\ Identity.buf \in Buffer
      /\ chunk \in Int
  BY DEF PipelineInv, HandOffInv, HandOffTypes, Identity, CopyChunk, NoSeq, BufferOrNone, NoBuffer
<1>2. /\ prev'.want = want /\ prev'.got = got /\ prev'.restarts = prev.restarts
      /\ prev'.waits = prev.waits /\ prev'.pc \in {"copy", "done"}
      /\ prev' \in [pc: {"no", "copy", "done"}, want: [buf: BufferOrNone, seq: Int],
                    got: Seq(Int), restarts: Nat, waits: Nat]
  <2>1. got \in Seq(Int) /\ want \in [buf: BufferOrNone, seq: Int]
    BY <1>1 DEF PipelineInv, CopyInv, PreviewTypes
  <2>2. PICK to \in {"copy", "done"}:
          prev' = [prev EXCEPT !.got = got, !.want = want, !.pc = to]
    BY DEF CopyChunk
  <2> HIDE DEF got, want
  <2> QED BY <2>1, <2>2 DEF PipelineInv, CopyInv, PreviewTypes
<1>3. want.buf # NoBuffer
  BY <1>1 DEF Buffer, NoBuffer
<1>4. ASSUME want.seq # NoSeq, prev.restarts <= Restarts
      PROVE  \A i \in 1..Len(got): got[i] = want.seq
  <2>1. want = Identity
    BY <1>4 DEF CopyChunk, Elsewhere, Strict
  <2>2. Identity = ready /\ chunk = want.seq
    BY <1>1, <1>4, <2>1 DEF Identity, PipelineInv, HandOffInv, ReadyIsItself, Buffer, NoBuffer
  <2>3. \A i \in 1..Len(prev.got): prev.got[i] = want.seq
    <3>1. CASE prev.want.buf = NoBuffer
      BY <3>1 DEF PipelineInv, CopyInv
    <3>2. CASE prev.want.buf # NoBuffer
      BY <3>2, <1>4 DEF PipelineInv, CopyInv, SnapshotWhole, Strict
    <3> QED BY <3>1, <3>2
  <2>4. prev.got \in Seq(Int)
    BY DEF PipelineInv, CopyInv, PreviewTypes
  <2> QED BY <1>1, <2>2, <2>3, <2>4
<1>5. SnapshotWhole'
  BY <1>2, <1>4 DEF SnapshotWhole, Strict
<1> QED BY <1>2, <1>3, <1>5 DEF CopyInv, PreviewTypes

(* The other steps start a copy over, end it, or leave it as it is.          *)
LEMMA PreviewStep == ASSUME PipelineInv, [Next]_vars PROVE CopyInv'
<1> USE DEF PipelineInv, CopyInv
<1>1. CASE CopyChunk
  BY <1>1, ChunkStep
<1>2. CASE AskPreview \/ Served
  <2>1. PICK to \in {"no", "copy"}: prev' = [NoCopy EXCEPT !.pc = to]
    BY <1>2 DEF AskPreview, Served, NoCopy
  <2>2. /\ prev'.pc = to /\ prev'.want = Nobody /\ prev'.got = <<>>
        /\ prev'.restarts = 0 /\ prev'.waits = 0
        /\ PreviewTypes'
    <3>1. <<>> \in Seq(Int) /\ Nobody \in [buf: BufferOrNone, seq: Int]
      BY DEF Nobody, NoSeq, NoBuffer, BufferOrNone
    <3> QED BY <2>1, <3>1 DEF NoCopy, PreviewTypes
  <2> QED BY <2>2 DEF Nobody, NoSeq, SnapshotWhole
<1>3. CASE Moved \/ Parked
  <2>0. <<>> \in Seq(Int) /\ Nobody \in [buf: BufferOrNone, seq: Int]
    BY DEF Nobody, NoSeq, NoBuffer, BufferOrNone
  <2>1. PreviewTypes'
    <3>1. CASE Moved
      <4>1. prev' = [pc |-> prev.pc, want |-> Nobody, got |-> <<>>,
                     restarts |-> prev.restarts + 1, waits |-> prev.waits]
        BY <3>1 DEF Moved, PreviewTypes
      <4>2. prev.pc \in {"no", "copy", "done"} /\ prev.restarts + 1 \in Nat /\ prev.waits \in Nat
        BY DEF PreviewTypes
      <4> QED BY <4>1, <4>2, <2>0 DEF PreviewTypes
    <3>2. CASE Parked
      <4>1. PICK to \in {"copy", "done"}:
              prev' = [prev EXCEPT !.want = Nobody, !.got = <<>>, !.waits = @ + 1, !.pc = to]
        BY <3>2 DEF Parked
      <4>2. prev' = [pc |-> to, want |-> Nobody, got |-> <<>>,
                     restarts |-> prev.restarts, waits |-> prev.waits + 1]
        BY <4>1 DEF PreviewTypes
      <4>3. prev.waits + 1 \in Nat /\ prev.restarts \in Nat
        BY DEF PreviewTypes
      <4> QED BY <4>2, <4>3, <2>0 DEF PreviewTypes
    <3> QED BY <1>3, <3>1, <3>2
  <2>2. prev'.want = Nobody /\ prev'.got = <<>>
    BY <1>3 DEF Moved, Parked, PreviewTypes
  <2> QED BY <2>1, <2>2 DEF Nobody, NoSeq, SnapshotWhole
<1>4. CASE UNCHANGED prev
  BY <1>4 DEF PreviewTypes, SnapshotWhole, Strict
<1>5. ASSUME NEW staged \in BOOLEAN, Render(staged) PROVE CopyInv'
  BY <1>4, <1>5 DEF Render
<1>6. CASE ReadVsync \/ Claim \/ ClaimPaced \/ ClaimTimeout \/ FillFails \/ Publish
  BY <1>4, <1>6 DEF ReadVsync, Claim, ClaimPaced, ClaimTimeout, FillFails, Publish
<1>7. CASE PublishVsync \/ Take \/ HoldDone \/ HoldTimeout \/ WriteFrame \/ GiveBack
  BY <1>4, <1>7 DEF PublishVsync, Take, HoldDone, HoldTimeout, WriteFrame, GiveBack
<1>8. CASE SwapLands \/ PanelDies \/ UNCHANGED vars
  BY <1>4, <1>8 DEF SwapLands, PanelDies, vars
<1> QED BY <1>1, <1>2, <1>3, <1>5, <1>6, <1>7, <1>8 DEF Next

(* The inductive invariant of the hand-off.                                  *)
THEOREM PipelineInvariant == Spec => []PipelineInv
<1>1. PipelineInv /\ [Next]_vars => PipelineInv'
  BY HandOffStep, PreviewStep DEF PipelineInv
<1> QED BY HandOffInit, <1>1, PTL DEF Spec

(* The travelling buffer is in exactly one place and never the stage, so it  *)
(* is neither lost (a dark panel) nor filled while it is shown.              *)
THEOREM BufferHasOneOwner == Spec => []OneBuffer
<1>1. PipelineInv => OneBuffer
  BY PlaceByPlace DEF PipelineInv, HandOffInv
<1> QED BY <1>1, PipelineInvariant, PTL

(* A checked copy that began on a ready frame holds that frame alone.        *)
THEOREM CheckedCopyIsWhole == Spec => []SnapshotWhole
<1>1. PipelineInv => SnapshotWhole
  BY DEF PipelineInv, CopyInv
<1> QED BY <1>1, PipelineInvariant, PTL

(***************************************************************************)
(* Every frame is shown or counted.  The frames are numbered in the order  *)
(* they are handed over, so those the panel took so far end with `last`,   *)
(* and what `dropped` counts is the gaps between them; the write that is   *)
(* not given back yet is left out on both sides.                           *)
(***************************************************************************)
Showing == out.pc = "back" /\ out.shown
ShownBefore == IF Showing THEN shown \ {out.seq} ELSE shown
Gaps(S) == {f \in 1..MaxSeq \ S: \E a, b \in S: a < f /\ f < b}

(* The frames that were numbered and are not being handed over any more.     *)
Numbered == IF rend.pc = "idle" THEN seq ELSE seq - 1

OrderInv ==
  /\ seq \in 0..MaxSeq /\ last \in {NoSeq} \cup 1..MaxSeq
  /\ rend.pc # "idle" => seq > 0
  /\ last <= Numbered /\ (out.pc = "boot" => last = NoSeq)
  /\ ready.buf # NoBuffer => ready.seq \in 1..Numbered /\ last < ready.seq
  /\ out.buf # NoBuffer => /\ out.seq \in 1..Numbered /\ last < out.seq
                       /\ content[out.buf] = out.seq
  /\ shown \subseteq 1..MaxSeq
  /\ Showing => out.seq \in shown
  /\ \A f \in ShownBefore: f <= last
  /\ IF ShownBefore = {} THEN last = NoSeq ELSE last \in ShownBefore

CountInv == dropped = Cardinality(Gaps(ShownBefore))

(* The gap that a later frame closes: a frame between two shown ones that    *)
(* nobody took.                                                              *)
LEMMA GapsGrow ==
  ASSUME NEW S, S \subseteq 1..MaxSeq, NEW m \in S, \A f \in S: f <= m,
         NEW n \in 1..MaxSeq, m < n
  PROVE  /\ IsFiniteSet(Gaps(S))
         /\ Cardinality(Gaps(S \cup {n})) = Cardinality(Gaps(S)) + (n - m - 1)
<1>0. MaxSeq \in Nat /\ m \in Int /\ n \in Int
  BY PipelineAssumption
<1>1. IsFiniteSet(1..MaxSeq)
  BY <1>0, FS_Interval
<1>2. Gaps(S) \subseteq 1..MaxSeq /\ IsFiniteSet(Gaps(S))
  BY <1>1, FS_Subset DEF Gaps
<1>3. Gaps(S \cup {n}) = Gaps(S) \cup ((m + 1)..(n - 1))
  BY <1>0 DEF Gaps
<1>4. Gaps(S) \cap ((m + 1)..(n - 1)) = {}
  BY <1>0 DEF Gaps
<1>5. /\ IsFiniteSet((m + 1)..(n - 1))
      /\ Cardinality((m + 1)..(n - 1)) = n - m - 1
  <2>1. m + 1 \in Int /\ n - 1 \in Int
    BY <1>0
  <2>2. /\ IsFiniteSet((m + 1)..(n - 1))
        /\ Cardinality((m + 1)..(n - 1)) =
             IF m + 1 > n - 1 THEN 0 ELSE (n - 1) - (m + 1) + 1
    BY <2>1, FS_Interval
  <2> QED BY <1>0, <2>2
<1>6. Cardinality(Gaps(S) \cup ((m + 1)..(n - 1)))
        = Cardinality(Gaps(S)) + Cardinality((m + 1)..(n - 1))
              - Cardinality(Gaps(S) \cap ((m + 1)..(n - 1)))
  BY <1>2, <1>5, FS_Union
<1>7. Cardinality({}) = 0 /\ Cardinality(Gaps(S)) \in Nat
  BY <1>2, FS_EmptySet, FS_CardinalityType
<1>8. Cardinality(Gaps(S) \cap ((m + 1)..(n - 1))) = 0
  BY <1>4, <1>7
<1>9. Cardinality(Gaps(S \cup {n})) = Cardinality(Gaps(S) \cup ((m + 1)..(n - 1)))
  BY <1>3
<1> QED BY <1>0, <1>2, <1>5, <1>6, <1>7, <1>8, <1>9

LEMMA OrderStep == ASSUME HandOffInv, OrderInv, [Next]_vars PROVE OrderInv'
<1> USE PipelineAssumption
    DEF HandOffInv, HandOffTypes, HeldWhereUsed, Somewhere, ReadyIsItself, OrderInv,
        BufferOrNone, Buffer, NoBuffer, Nobody, NoSeq, Empty, slot, render, output
<1>0. ShownBefore \subseteq shown
  BY DEF ShownBefore
<1>1. ASSUME NEW staged \in BOOLEAN, Render(staged) PROVE OrderInv'
  BY <1>1 DEF Render, Numbered, ShownBefore, Showing
<1>2. CASE ReadVsync
  BY <1>2 DEF ReadVsync, Numbered, ShownBefore, Showing
<1>3. CASE Claim
  BY <1>3 DEF Claim, Fills, Numbered, ShownBefore, Showing
<1>4. CASE ClaimPaced \/ ClaimTimeout
  BY <1>4 DEF ClaimPaced, ClaimTimeout, Fills, Numbered, ShownBefore, Showing
<1>5. CASE FillFails
  BY <1>5 DEF FillFails, Numbered, ShownBefore, Showing
<1>6. CASE Publish
  BY <1>6 DEF Publish, Numbered, ShownBefore, Showing
<1>7. CASE PublishVsync
  BY <1>7 DEF PublishVsync, Numbered, ShownBefore, Showing
<1>8. CASE Take
  BY <1>8 DEF Take, Numbered, ShownBefore, Showing
<1>9. CASE HoldDone \/ HoldTimeout
  BY <1>9 DEF HoldDone, HoldTimeout, Numbered, ShownBefore, Showing
<1>10. CASE WriteFrame
  <2>1. /\ out.pc = "write" /\ out.buf # 0 /\ content[out.buf] = out.seq
        /\ out.seq \in 1..MaxSeq /\ last < out.seq /\ ShownBefore = shown
        /\ out'.pc = "back" /\ out'.buf = out.buf /\ out'.seq = out.seq
        /\ UNCHANGED <<slot, content, render, last>>
    BY <1>10 DEF WriteFrame, Numbered, ShownBefore, Showing
  <2>2. out.seq \notin shown
    BY <2>1
  <2>3. \/ out'.shown = FALSE /\ shown' = shown
        \/ out'.shown = TRUE /\ shown' = shown \cup {out.seq}
    BY <1>10, <2>1 DEF WriteFrame
  <2>4. /\ ShownBefore' = shown
        /\ Showing' => out.seq \in shown'
    BY <2>1, <2>2, <2>3 DEF ShownBefore, Showing
  <2> QED BY <2>1, <2>3, <2>4 DEF Numbered
<1>11. CASE GiveBack
  <2>1. /\ out.pc = "back" /\ out.seq \in 1..MaxSeq /\ last < out.seq
        /\ out.seq <= Numbered
        /\ out'.pc = "idle" /\ out'.buf = 0 /\ ready.buf = 0
        /\ last' = LastShown /\ ShownBefore' = shown
        /\ UNCHANGED <<ready, content, render, shown>>
    BY <1>11 DEF GiveBack, Numbered, ShownBefore, Showing
  <2>2. CASE out.shown
    <3>1. /\ last' = out.seq /\ out.seq \in shown /\ ShownBefore = shown \ {out.seq}
      BY <2>1, <2>2 DEF LastShown, ShownBefore, Showing
    <3>2. \A f \in shown: f <= out.seq
      BY <2>1, <3>1
    <3> QED BY <2>1, <3>1, <3>2 DEF Numbered, Showing
  <2>3. CASE ~out.shown
    <3>1. last' = last /\ ShownBefore = shown
      BY <2>1, <2>3 DEF LastShown, ShownBefore, Showing
    <3> QED BY <2>1, <3>1 DEF Numbered, Showing
  <2> QED BY <2>2, <2>3
<1>12. CASE SwapLands \/ PanelDies
  <2>1. UNCHANGED <<seq, last, rend, ready, out, content, shown>>
    BY <1>12 DEF SwapLands, PanelDies
  <2> QED BY <2>1 DEF Numbered, ShownBefore, Showing
<1>13. CASE AskPreview \/ CopyChunk \/ Moved \/ Parked \/ Served
  BY <1>13 DEF AskPreview, CopyChunk, Moved, Parked, Served, Numbered, ShownBefore, Showing
<1>14. CASE UNCHANGED vars
  BY <1>14 DEF vars, Numbered, ShownBefore, Showing
<1> QED BY <1>1, <1>2, <1>3, <1>4, <1>5, <1>6, <1>7, <1>8, <1>9, <1>10, <1>11, <1>12,
           <1>13, <1>14 DEF Next


(* Only a buffer given back moves the count, by the gap it closes.           *)
LEMMA CountStep ==
  ASSUME HandOffInv, OrderInv, CountInv, [Next]_vars PROVE CountInv'
<1>1. CASE GiveBack
  <2>1. /\ out.pc = "back" /\ out.buf # NoBuffer /\ ShownBefore' = shown
        /\ out.seq \in 1..MaxSeq /\ last < out.seq
    <3>1. out.pc = "back" /\ out.buf # NoBuffer
      BY <1>1 DEF GiveBack, HandOffInv, HeldWhereUsed
    <3>2. out'.pc = "idle" /\ shown' = shown
      BY <1>1 DEF GiveBack, HandOffInv, HandOffTypes
    <3>3. out.seq \in 1..Numbered /\ last < out.seq /\ seq \in 0..MaxSeq
      BY <3>1 DEF OrderInv
    <3>4. out.seq \in 1..MaxSeq
      BY <3>3, PipelineAssumption DEF Numbered
    <3> QED BY <3>1, <3>2, <3>3, <3>4 DEF ShownBefore, Showing
  <2>0. Gaps(ShownBefore)' = Gaps(shown)
    BY <2>1 DEF Gaps
  <2>2. CASE ~out.shown
    BY <1>1, <2>1, <2>2 DEF GiveBack, CountInv, ShownBefore, Showing
  <2>3. CASE out.shown
    <3> DEFINE B == shown \ {out.seq}
    <3>1. /\ ShownBefore = B /\ out.seq \in shown /\ shown = B \cup {out.seq}
      BY <2>1, <2>3 DEF ShownBefore, Showing, OrderInv
    <3>2. CASE B = {}
      <4>1. last = NoSeq /\ shown = {out.seq}
        BY <3>1, <3>2 DEF OrderInv
      <4>2. Gaps(B) = {} /\ Gaps(shown) = {}
        BY <2>1, <4>1, <3>2, PipelineAssumption DEF Gaps
      <4>3. dropped' = dropped
        BY <1>1, <4>1 DEF GiveBack
      <4>4. dropped' = Cardinality(Gaps(shown))
        BY <3>1, <4>2, <4>3 DEF CountInv
      <4> QED BY <2>0, <4>4 DEF CountInv
    <3>3. CASE B # {}
      <4>0. last \in B /\ shown \subseteq 1..MaxSeq /\ \A f \in B: f <= last
        BY <3>1, <3>3 DEF OrderInv
      <4>1. /\ last \in B /\ B \subseteq 1..MaxSeq /\ \A f \in B: f <= last
            /\ last # NoSeq
        <5>1. \A f \in 1..MaxSeq: f # -1
          BY PipelineAssumption
        <5> QED BY <4>0, <5>1 DEF NoSeq
      <4>2. Cardinality(Gaps(B \cup {out.seq})) = Cardinality(Gaps(B)) + (out.seq - last - 1)
        BY <2>1, <4>1, GapsGrow
      <4>3. dropped' = dropped + (out.seq - last - 1)
        BY <1>1, <2>3, <4>1 DEF GiveBack
      <4>4. dropped' = Cardinality(Gaps(shown))
        BY <3>1, <4>2, <4>3 DEF CountInv
      <4> QED BY <2>0, <4>4 DEF CountInv
    <3> QED BY <3>2, <3>3
  <2> QED BY <2>2, <2>3
<1>2. CASE WriteFrame
  <2>1. /\ out.pc = "write" /\ out.buf # NoBuffer /\ last < out.seq
        /\ content[out.buf] = out.seq
        /\ out'.pc = "back" /\ out'.seq = out.seq /\ dropped' = dropped
    BY <1>2 DEF WriteFrame, HandOffInv, HandOffTypes, HeldWhereUsed, OrderInv
  <2>2. ShownBefore = shown
    BY <2>1 DEF ShownBefore, Showing
  <2>3. out.seq \notin shown
    BY <2>1, <2>2, PipelineAssumption DEF OrderInv, HandOffInv, HandOffTypes, NoSeq
  <2>4. \/ out'.shown = FALSE /\ shown' = shown
        \/ out'.shown = TRUE /\ shown' = shown \cup {out.seq}
    BY <1>2, <2>1 DEF WriteFrame, HandOffInv, HandOffTypes
  <2>5. ShownBefore' = shown
    BY <2>1, <2>3, <2>4 DEF ShownBefore, Showing
  <2> QED BY <2>1, <2>2, <2>5 DEF CountInv
<1>3. ASSUME ~GiveBack, ~WriteFrame PROVE CountInv'
  <2>1. UNCHANGED <<shown, dropped>>
    BY <1>3 DEF Next, vars, output, Render, ReadVsync, Claim, ClaimPaced, ClaimTimeout,
      FillFails, Publish, PublishVsync, Take, HoldDone, HoldTimeout, SwapLands, PanelDies,
      AskPreview, CopyChunk, Moved, Parked, Served
  <2>2. Showing' = Showing /\ (Showing => out'.seq = out.seq)
    <3>1. CASE Take
      BY <3>1 DEF Take, Showing
    <3>2. CASE PublishVsync \/ HoldDone \/ HoldTimeout
      BY <3>2 DEF PublishVsync, HoldDone, HoldTimeout, Showing, HandOffInv, HandOffTypes
    <3>3. CASE UNCHANGED out
      BY <3>3 DEF Showing
    <3> QED BY <1>3, <3>1, <3>2, <3>3 DEF Next, vars, output, Render, ReadVsync, Claim,
      ClaimPaced, ClaimTimeout, FillFails, Publish, SwapLands, PanelDies,
      AskPreview, CopyChunk, Moved, Parked, Served
  <2> QED BY <2>1, <2>2 DEF CountInv, ShownBefore
<1> QED BY <1>1, <1>2, <1>3


(***************************************************************************)
(* Under vsync pacing, the frames already lost and the ones that cannot be *)
(* shown any more.  `Top` is the last frame the panel took, `Waiter` the   *)
(* frame on its way, `Count` what `dropped` comes to once the buffer is    *)
(* back, `Behind` the frames numbered since that nobody carries any more.  *)
(* One claim may begin before VSYNC is published; from then on every frame *)
(* that is numbered is carried to the panel.                               *)
(***************************************************************************)
Top == IF Showing THEN out.seq ELSE last
Count == IF Showing /\ last # NoSeq THEN dropped + (out.seq - last - 1) ELSE dropped
Waiting == ready.buf # NoBuffer \/ out.pc \in {"hold", "write"}
Waiter == IF ready.buf # NoBuffer THEN ready.seq ELSE out.seq
Behind ==
  CASE Top # NoSeq /\ Waiting -> Numbered - Top - 1
    [] Top # NoSeq /\ ~Waiting -> Numbered - Top
    [] Top = NoSeq /\ Waiting -> Numbered - Waiter
    [] Top = NoSeq /\ ~Waiting -> 0

LossInv ==
  /\ panel \in {"ready", "busy", "dead"}
  /\ cap /\ ~late =>
       /\ out.pc # "boot" <=> vsync
       /\ out.pc = "write" => panel # "busy"
       /\ IF panel = "dead" THEN Count <= 1
          ELSE Count + Behind <= IF ~vsync \/ rend.pc = "claim" THEN 0 ELSE 1

FramesInv == OrderInv /\ CountInv /\ LossInv

LEMMA DroppedIsNat == ASSUME CountInv, OrderInv PROVE dropped \in Nat
<1>1. IsFiniteSet(1..MaxSeq)
  BY PipelineAssumption, FS_Interval
<1>2. IsFiniteSet(Gaps(ShownBefore))
  BY <1>1, FS_Subset DEF Gaps
<1> QED BY <1>2, FS_CardinalityType DEF CountInv


LEMMA LossStep ==
  ASSUME HandOffInv, OrderInv, CountInv, LossInv, [Next]_vars PROVE LossInv'
<1> USE PipelineAssumption, DroppedIsNat
    DEF HandOffInv, HandOffTypes, HeldWhereUsed, Somewhere, OrderInv, LossInv,
        BufferOrNone, Buffer, NoBuffer, Nobody, NoSeq, slot, render, output,
        Count, Behind, Top, Waiting, Waiter, Showing, Numbered
<1>1. ASSUME NEW staged \in BOOLEAN, Render(staged) PROVE LossInv'
  BY <1>1 DEF Render
<1>2. CASE ReadVsync
  BY <1>2 DEF ReadVsync
<1>3. CASE Claim
  <2> USE DEF Claim, Fills
  <2>1. CASE free # NoBuffer
    <3>1. /\ rend.pc = "claim" /\ rend' = [rend EXCEPT !.pc = "fill", !.buf = free]
          /\ UNCHANGED <<cap, vsync, ready, seq, out, last, dropped, panel, late>>
      BY <1>3, <2>1
    <3> QED BY <3>1
  <2>2. CASE free = NoBuffer /\ ready.buf # NoBuffer
    <3>1. /\ rend.pc = "claim" /\ rend' = [rend EXCEPT !.pc = "fill", !.buf = ready.buf]
          /\ ready'.buf = NoBuffer
          /\ UNCHANGED <<cap, vsync, seq, out, last, dropped, panel, late>>
      BY <1>3, <2>2
    <3> QED BY <2>2, <3>1
  <2>3. CASE free = NoBuffer /\ ready.buf = NoBuffer
    <3>1. /\ rend.pc = "claim" /\ rend' = [rend EXCEPT !.pc = "idle"]
          /\ UNCHANGED <<cap, vsync, ready, seq, out, last, dropped, panel, late>>
      BY <1>3, <2>3
    <3> QED BY <2>3, <3>1
  <2> QED BY <2>1, <2>2, <2>3
<1>4. CASE ClaimPaced \/ ClaimTimeout
  <2>1. CASE ClaimPaced
    <3>1. /\ rend.pc = "wait" /\ rend' = [rend EXCEPT !.pc = "fill", !.buf = free]
          /\ UNCHANGED <<cap, vsync, ready, seq, out, last, dropped, panel, late>>
      BY <2>1 DEF ClaimPaced, Fills
    <3> QED BY <3>1
  <2>2. CASE ClaimTimeout
    BY <2>2 DEF ClaimTimeout
  <2> QED BY <1>4, <2>1, <2>2
<1>5. CASE FillFails
  BY <1>5 DEF FillFails
<1>6. CASE Publish
  BY <1>6 DEF Publish
<1>7. CASE PublishVsync
  BY <1>7 DEF PublishVsync
<1>8. CASE Take
  BY <1>8 DEF Take
<1>9. CASE HoldDone \/ HoldTimeout
  BY <1>9 DEF HoldDone, HoldTimeout
<1>10. CASE WriteFrame
  <2>1. /\ out.pc = "write" /\ out.buf # NoBuffer /\ ready.buf = NoBuffer
        /\ out'.pc = "back" /\ out'.seq = out.seq
        /\ UNCHANGED <<cap, vsync, ready, seq, rend, last, dropped, late>>
    BY <1>10 DEF WriteFrame
  <2>2. CASE cap /\ panel = "ready"
    <3>1. out'.shown = TRUE /\ panel' = "busy"
      BY <1>10, <2>2 DEF WriteFrame
    <3> QED BY <2>1, <2>2, <3>1
  <2>3. CASE ~(cap /\ panel = "ready")
    <3>1. out'.shown = FALSE /\ panel' = panel
      BY <1>10, <2>3 DEF WriteFrame
    <3> QED BY <2>1, <2>3, <3>1
  <2> QED BY <2>2, <2>3
<1>11. CASE GiveBack
  BY <1>11 DEF GiveBack, LastShown
<1>12. CASE SwapLands \/ PanelDies
  BY <1>12 DEF SwapLands, PanelDies
<1>13. CASE AskPreview \/ CopyChunk \/ Moved \/ Parked \/ Served
  BY <1>13 DEF AskPreview, CopyChunk, Moved, Parked, Served
<1>14. CASE UNCHANGED vars
  BY <1>14 DEF vars
<1> QED BY <1>1, <1>2, <1>3, <1>4, <1>5, <1>6, <1>7, <1>8, <1>9, <1>10, <1>11, <1>12,
           <1>13, <1>14 DEF Next


LEMMA FramesInit == ASSUME Init PROVE FramesInv
<1> USE PipelineAssumption DEF Init, Nobody, NoBuffer, NoSeq
<1>1. ShownBefore = {} /\ Showing = FALSE
  BY DEF ShownBefore, Showing
<1>2. OrderInv
  BY <1>1 DEF OrderInv, Numbered
<1>3. CountInv
  <2>1. Gaps({}) = {}
    BY DEF Gaps
  <2> QED BY <1>1, <2>1, FS_EmptySet DEF CountInv
<1>4. LossInv
  BY <1>1 DEF LossInv, Count, Behind, Top, Waiting, Waiter, Numbered
<1> QED BY <1>2, <1>3, <1>4 DEF FramesInv

(* Between two frames `dropped` is the number of frames the panel never took *)
(* among those numbered between the first and the last it took, by whatever  *)
(* route they were lost; and under vsync pacing at most the frame claimed    *)
(* before VSYNC was published is lost.                                       *)
THEOREM EveryFrameAccounted == Spec => []FramesAccounted
<1>1. Init => FramesInv
  BY FramesInit
<1>2. PipelineInv /\ FramesInv /\ [Next]_vars => FramesInv'
  BY OrderStep, CountStep, LossStep DEF PipelineInv, FramesInv
<1>3. PipelineInv /\ FramesInv => FramesAccounted
  <2> SUFFICES ASSUME PipelineInv, FramesInv PROVE FramesAccounted
    OBVIOUS
  <2>1. out.pc # "back" => ShownBefore = shown
    BY DEF ShownBefore, Showing
  <2>2. DroppedIsExact
    BY <2>1 DEF FramesInv, CountInv, Gaps, DroppedIsExact
  <2>3. dropped \in Nat
    BY DroppedIsNat DEF FramesInv
  <2>4. seq \in Nat /\ last <= Numbered /\ (ready.buf # NoBuffer => ready.seq <= Numbered /\ last < ready.seq)
        /\ (out.buf # NoBuffer => out.seq <= Numbered /\ last < out.seq)
    BY PipelineAssumption DEF FramesInv, OrderInv, Numbered
  <2>5. LosslessUnderVsync
    <3> SUFFICES ASSUME cap, ~late PROVE dropped <= 1
      BY DEF LosslessUnderVsync
    <3>1. /\ ready.seq \in Int /\ out.seq \in Int /\ last \in Int /\ Numbered \in Int
          /\ out.buf # NoBuffer <=> out.pc \in {"hold", "write", "back"}
          /\ ready.buf = NoBuffer \/ out.buf = NoBuffer
      BY PipelineAssumption
      DEF PipelineInv, HandOffInv, HandOffTypes, HeldWhereUsed, Somewhere, FramesInv, OrderInv,
          NoSeq, Numbered
    <3>2. dropped <= Count /\ Count \in Int
      BY <2>3, <2>4, <3>1 DEF Count, Showing
    <3>3. Behind \in Nat
      BY <2>4, <3>1 DEF Behind, Top, Waiting, Waiter, Showing
    <3> QED BY <2>3, <3>2, <3>3 DEF FramesInv, LossInv
  <2> QED BY <2>2, <2>5 DEF FramesAccounted
<1> QED BY <1>1, <1>2, <1>3, PipelineInvariant, PTL DEF Spec

-----------------------------------------------------------------------------
(* The claim queue for every set of frames, every ring with an even number of *)
(* passes in its period, and every beam that moves less than half a period in *)
(* a turn: while the few instructions between a claim and its note are not    *)
(* interrupted by the other core, no frame is packed while it is read, and a  *)
(* reused slot shows what a copy would have put there.                        *)

(* What the argument asks of the rings and of the beam.                      *)
EvenPasses == \A s \in Shapes: (s.period \div s.rows) % 2 = 0
Roomy == \A s \in Shapes: s.n + MaxAge <= s.period \div 2 + 1

Places == 0..ring.period - 1
Plans == {"none", "rejoin", "reuse", "skip", "take"}

Claims == [buf: Frame \cup {None}, abs: Places]
Turns == [pc: {"idle", "load", "cas", "note", "copy"}, beam: Places,
          word: Claims, claim: Claims, plan: Plans]

QueueTypes ==
  /\ ring \in Shapes /\ beam \in Places
  /\ next \in Claims /\ newest \in Frame
  /\ passFrame \in [0..1 -> Frame \cup {None}]
  /\ cop \in [Core -> Turns]
  /\ DOMAIN stamp = 0..ring.n - 1 /\ DOMAIN held = 0..ring.n - 1
  /\ pack.pc \in {"pack", "newest"} => pack.frame \in Frame

(* On a ring of p places: how far b is ahead of a, and the place after a; and *)
(* in a frame of m rows, the row of a place and the parity of its pass.       *)
Ahead(p, a, b) == (b + p - a) % p
After(p, a) == (a + 1) % p
RowIn(m, a) == a % m
ParityIn(m, a) == (a \div m) % 2

Lead(a) == Ahead(ring.period, beam, a)
Aged(c) == Ahead(ring.period, cop[c].beam, beam)

Rejoins(c) == cop[c].plan = "rejoin"
Notes(c) == RowIn(ring.rows, cop[c].claim.abs) = 0 \/ Rejoins(c)

(* PASS_FRAME as it is once a note under way is stored.                       *)
Noting(c, p) == cop[c].pc = "note" /\ ParityIn(ring.rows, cop[c].claim.abs) = p
PassFrame(p) ==
  IF Noting(0, p) THEN cop[0].claim.buf
  ELSE IF Noting(1, p) THEN cop[1].claim.buf ELSE passFrame[p]

(* A turn has looked at the beam of now, or it has not lost the race.         *)
InTime(c) ==
  cop[c].pc # "idle" =>
    /\ Aged(c) <= MaxAge
    /\ \/ cop[c].beam = beam
       \/ Lead(next.abs) >= 1 /\ Aged(c) + Lead(next.abs) <= ring.period \div 2

(* A claim is of the place the word names, or of the first one after the beam.*)
ClaimIsTheWord(c) ==
  cop[c].pc = "cas" =>
    IF Rejoins(c)
    THEN /\ cop[c].claim.abs = After(ring.period, beam) /\ cop[c].beam = beam
         /\ Lead(cop[c].word.abs) = 0 \/ Lead(cop[c].word.abs) > ring.period \div 2
    ELSE /\ cop[c].claim.abs = cop[c].word.abs
         /\ ~Notes(c) => cop[c].claim.buf = cop[c].word.buf

(* A claim in hand is ahead of the beam, and the queue's head not behind it.  *)
HandAhead(c) ==
  InHand(c) /\ ~Rejoins(c) =>
    /\ Lead(cop[c].claim.abs) \in 1..ring.n - 2
    /\ Lead(next.abs) <= ring.n - 1
    /\ Lead(cop[c].claim.abs) <= Lead(next.abs)
    /\ cop[c].pc # "cas" => Lead(cop[c].claim.abs) < Lead(next.abs)

(* What the plan of a turn says of its steps.                                 *)
PlanFits(c) ==
  /\ cop[c].pc = "copy" => cop[c].plan = "take"
  /\ cop[c].pc = "note" => Notes(c)

(* The frame of a copy in hand is the one PASS_FRAME has for its pass, and so *)
(* is that of the pass being claimed.                                         *)
CopyIsNoted(c) ==
  cop[c].pc \in {"note", "copy"} /\ cop[c].plan = "take" =>
    PassFrame(ParityIn(ring.rows, cop[c].claim.abs)) = cop[c].claim.buf
PassIsNoted ==
  RowIn(ring.rows, next.abs) # 0 => PassFrame(ParityIn(ring.rows, next.abs)) = next.buf

(* The frame being packed is neither of those, nor one about to be noted.     *)
PackedIsFree ==
  pack.pc \in {"pack", "newest"} =>
    /\ pack.frame # newest /\ pack.frame # PassFrame(0) /\ pack.frame # PassFrame(1)
    /\ \A c \in Core: cop[c].pc = "cas" /\ Notes(c) => cop[c].claim.buf # pack.frame

OneNote == ~(cop[0].pc = "note" /\ cop[1].pc = "note")

TurnInv(c) == InTime(c) /\ ClaimIsTheWord(c) /\ HandAhead(c) /\ PlanFits(c)

RingInv ==
  /\ QueueTypes /\ OneNote
  /\ \A c \in Core: TurnInv(c) /\ CopyIsNoted(c)
  /\ PassIsNoted /\ PackedIsFree

-----------------------------------------------------------------------------
(* Places of a ring.                                                         *)

LEMMA ShapeFacts ==
  ASSUME Roomy, ring \in Shapes
  PROVE  /\ ring.n \in Nat /\ ring.n >= 3 /\ ring.rows \in Nat /\ ring.n <= ring.rows
         /\ ring.period \in Nat \ {0} /\ MaxAge \in Nat
         /\ ring.period \div 2 \in Nat /\ 2 * (ring.period \div 2) <= ring.period
         /\ ring.period >= 4
         /\ ring.n + MaxAge <= ring.period \div 2 + 1
<1>1. /\ ring.n \in Nat /\ ring.rows \in Nat /\ ring.period \in Nat
      /\ ring.n > 2 /\ ring.n <= ring.rows /\ MaxAge \in Nat
  BY ShapesAssumption, MaxAgeAssumption DEF GUARD_SLOTS
<1>2. ring.n + MaxAge <= ring.period \div 2 + 1
  BY DEF Roomy
<1>3. ring.period \div 2 \in Nat /\ 2 * (ring.period \div 2) <= ring.period
  BY <1>1
<1>4. \A h \in Nat: ring.n + MaxAge <= h + 1 /\ 2 * h <= ring.period => ring.period >= 4
  BY <1>1
<1>5. ring.period >= 4
  BY <1>2, <1>3, <1>4
<1>. QED
  BY <1>1, <1>2, <1>3, <1>5

(* The distances are those of a clock face.                                  *)
LEMMA AheadIs ==
  ASSUME NEW p \in Nat \ {0}, NEW a \in 0..p - 1, NEW b \in 0..p - 1
  PROVE  /\ Ahead(p, a, b) = IF b >= a THEN b - a ELSE b - a + p
         /\ Ahead(p, a, b) \in 0..p - 1
BY DEF Ahead

(* The place after the last one is the first.                                 *)
LEMMA AfterIs ==
  ASSUME NEW p \in Nat \ {0}, NEW a \in 0..p - 1
  PROVE  /\ After(p, a) = IF a + 1 = p THEN 0 ELSE a + 1
         /\ After(p, a) \in 0..p - 1
BY DEF After

(* A step on, at either end of a distance.                                   *)
LEMMA AheadSteps ==
  ASSUME NEW p \in Nat \ {0}, NEW a \in 0..p - 1, NEW b \in 0..p - 1
  PROVE  /\ Ahead(p, a, a) = 0
         /\ Ahead(p, a, After(p, b)) = IF Ahead(p, a, b) + 1 = p THEN 0 ELSE Ahead(p, a, b) + 1
         /\ Ahead(p, a, b) # 0 => Ahead(p, After(p, a), b) = Ahead(p, a, b) - 1
         /\ Ahead(p, a, b) = 1 => After(p, a) = b
         /\ Ahead(p, a, b) = 0 => a = b
<1>1. /\ After(p, a) \in 0..p - 1 /\ After(p, a) = IF a + 1 = p THEN 0 ELSE a + 1
      /\ After(p, b) \in 0..p - 1 /\ After(p, b) = IF b + 1 = p THEN 0 ELSE b + 1
  BY AfterIs
<1>2. Ahead(p, a, b) = IF b >= a THEN b - a ELSE b - a + p
  BY AheadIs
<1>3. Ahead(p, a, a) = IF a >= a THEN a - a ELSE a - a + p
  BY AheadIs
<1>4. /\ Ahead(p, a, After(p, b)) =
           IF After(p, b) >= a THEN After(p, b) - a ELSE After(p, b) - a + p
      /\ Ahead(p, After(p, a), b) =
           IF b >= After(p, a) THEN b - After(p, a) ELSE b - After(p, a) + p
  BY <1>1, AheadIs
<1>. QED
  BY <1>1, <1>2, <1>3, <1>4

(* Distances add up within a period, and subtract.                           *)
LEMMA AheadAdds ==
  ASSUME NEW p \in Nat \ {0},
         NEW a \in 0..p - 1, NEW b \in 0..p - 1, NEW c \in 0..p - 1
  PROVE  /\ Ahead(p, a, b) + Ahead(p, b, c) < p =>
              Ahead(p, a, c) = Ahead(p, a, b) + Ahead(p, b, c)
         /\ Ahead(p, a, b) <= Ahead(p, a, c) =>
              Ahead(p, b, c) = Ahead(p, a, c) - Ahead(p, a, b)
<1>1. /\ Ahead(p, a, b) = IF b >= a THEN b - a ELSE b - a + p
      /\ Ahead(p, b, c) = IF c >= b THEN c - b ELSE c - b + p
      /\ Ahead(p, a, c) = IF c >= a THEN c - a ELSE c - a + p
  BY AheadIs
<1>. QED
  BY <1>1

(* The model's operators in these terms.                                     *)
LEMMA InTermsOfTheRing ==
  /\ \A a, b: Dist(a, b) = Ahead(ring.period, a, b)
  /\ \A a: Succ(a) = After(ring.period, a) /\ Row(a) = RowIn(ring.rows, a)
  /\ \A a: Parity(a) = ParityIn(ring.rows, a)
  /\ \A a, b: Late(a, b) <=> \/ Ahead(ring.period, b, a) = 0
                           \/ Ahead(ring.period, b, a) > ring.period \div 2
  /\ \A a, b: Fillable(a, b) <=> /\ Ahead(ring.period, b, a) >= 1
                               /\ Ahead(ring.period, b, a) + 2 <= ring.n
BY DEF Dist, Ahead, Succ, After, Row, RowIn, Parity, Pass, ParityIn, Late, Fillable, GUARD_SLOTS

(* A pass has `rows` places, and the passes of a period alternate in parity.  *)
LEMMA PassEnds ==
  ASSUME NEW m \in Nat \ {0}, NEW a \in Nat
  PROVE  /\ a = m * (a \div m) + (a % m) /\ a % m \in 0..m - 1 /\ a \div m \in Nat
  OBVIOUS

(* A beam that moves at most one slot in a turn leaves room enough in every   *)
(* period of an even number of passes.                                        *)
LEMMA SlowBeamIsRoomy ==
  ASSUME EvenPasses, MaxAge <= 1, \A s \in Shapes: s.period > 0
  PROVE  Roomy
<1>. SUFFICES ASSUME NEW s \in Shapes PROVE s.n + MaxAge <= s.period \div 2 + 1
  BY DEF Roomy
<1>. DEFINE q == s.period \div s.rows
            h == q \div 2
<1>1. /\ s.n \in Nat /\ s.rows \in Nat \ {0} /\ s.period \in Nat \ {0} /\ s.n <= s.rows
      /\ s.period % s.rows = 0 /\ MaxAge \in Nat
  BY ShapesAssumption, MaxAgeAssumption DEF GUARD_SLOTS
<1>2. s.period = s.rows * q /\ q \in Nat
  <2>1. s.period = s.rows * q + (s.period % s.rows) /\ q \in Nat
    BY <1>1, PassEnds
  <2>. HIDE DEF q
  <2>. QED
    BY <1>1, <2>1
<1>3. q = 2 * h /\ h \in Nat
  <2>1. q % 2 = 0
    BY DEF EvenPasses
  <2>. HIDE DEF q
  <2>. QED
    BY <1>2, <2>1
<1>. HIDE DEF q, h
<1>4. h >= 1
  BY <1>1, <1>2, <1>3
<1>5. s.period = 2 * (s.rows * h) /\ s.rows * h \in Nat /\ s.rows * h >= s.rows
  BY <1>1, <1>2, <1>3, <1>4
<1>6. \A x \in Nat: (2 * x) \div 2 = x
  OBVIOUS
<1>7. s.period \div 2 = s.rows * h
  BY <1>5, <1>6
<1>. QED
  BY <1>1, <1>5, <1>7

(* The j-th place of the k-th pass is in the k-th pass.                       *)
LEMMA InPass ==
  ASSUME NEW m \in Nat \ {0}, NEW k \in Nat, NEW j \in 0..m - 1
  PROVE  (m * k + j) \div m = k
  OBVIOUS

(* A place that does not begin a pass is in the pass of the one before it.    *)
LEMMA SamePass ==
  ASSUME NEW m \in Nat \ {0}, NEW a \in Nat, (a + 1) % m # 0
  PROVE  (a + 1) \div m = a \div m
<1>. DEFINE q == a \div m
            r == a % m
<1>1. a = m * q + r /\ r \in 0..m - 1 /\ q \in Nat
  BY PassEnds
<1>. HIDE DEF q, r
<1>2. CASE r + 1 < m
  <2>1. a + 1 = m * q + (r + 1) /\ r + 1 \in 0..m - 1
    BY <1>1, <1>2
  <2>. QED
    BY <1>1, <2>1 DEF q
<1>3. CASE r + 1 = m
  <2>1. a + 1 = m * (q + 1)
    BY <1>1, <1>3
  <2>2. (a + 1) % m = 0
    BY <1>1, <2>1
  <2>. QED
    BY <2>2
<1>. QED
  BY <1>1, <1>2, <1>3

(* The places just before the start of a pass are in the pass before.         *)
LEMMA NextPass ==
  ASSUME NEW m \in Nat \ {0}, NEW a \in Nat, NEW d \in 1..m, a % m = 0, a >= m
  PROVE  (a - d) \div m = a \div m - 1
<1>. DEFINE q == a \div m
<1>1. a = m * q /\ q \in Nat
  BY PassEnds
<1>. HIDE DEF q
<1>2. q >= 1 /\ a - d = m * (q - 1) + (m - d) /\ m - d \in 0..m - 1 /\ q - 1 \in Nat
  BY <1>1
<1>3. (m * (q - 1) + (m - d)) \div m = q - 1
  BY <1>2, InPass
<1>. QED
  BY <1>2, <1>3 DEF q

(* The two facts about parity the argument needs.                            *)
LEMMA SameParity ==
  ASSUME NEW p \in Nat \ {0}, NEW m \in Nat \ {0}, NEW a \in 0..p - 1,
         RowIn(m, After(p, a)) # 0
  PROVE  ParityIn(m, After(p, a)) = ParityIn(m, a)
<1>1. After(p, a) = (IF a + 1 = p THEN 0 ELSE a + 1) /\ 0 % m = 0
  <2>1. 0 % m = 0
    OBVIOUS
  <2>. QED
    BY <2>1, AfterIs
<1>2. After(p, a) = a + 1
  <2>1. RowIn(m, 0) = 0
    BY <1>1 DEF RowIn
  <2>. QED
    BY <1>1, <2>1
<1>3. (a + 1) \div m = a \div m
  <2>1. a \in Nat /\ (a + 1) % m # 0
    BY <1>2 DEF RowIn
  <2>. QED
    BY <2>1, SamePass
<1>. QED
  BY <1>2, <1>3 DEF ParityIn

(* A place up to one pass behind the start of a pass is of the other parity,  *)
(* also over the wrap of a period with an even number of passes.              *)
LEMMA ParityFlips ==
  ASSUME NEW p \in Nat \ {0}, NEW m \in Nat \ {0}, p % m = 0, (p \div m) % 2 = 0,
         NEW a \in 0..p - 1, NEW k \in 0..p - 1, RowIn(m, a) = 0, Ahead(p, k, a) \in 1..m
  PROVE  ParityIn(m, k) # ParityIn(m, a)
<1>. DEFINE d == Ahead(p, k, a)
<1>1. d = (IF a >= k THEN a - k ELSE a - k + p) /\ d \in 1..m /\ a % m = 0
  BY AheadIs DEF RowIn
<1>. HIDE DEF d
<1>2. \A q \in Nat : q >= 1 => (q - 1) % 2 # q % 2
  OBVIOUS
<1>3. a = m * (a \div m) /\ a \div m \in Nat /\ p = m * (p \div m) /\ p \div m \in Nat
  <2>1. a \in Nat /\ p \in Nat
    BY <1>1
  <2>2. a = m * (a \div m) + (a % m) /\ a \div m \in Nat
    BY <1>1, <2>1, PassEnds
  <2>3. p = m * (p \div m) + (p % m) /\ p \div m \in Nat
    BY <1>1, <2>1, PassEnds
  <2>. QED
    BY <1>1, <2>2, <2>3
<1>4. a \div m = 0 => a = 0
  BY <1>1, <1>3
<1>5. a \div m >= 1 => a >= m
  BY <1>1, <1>3
<1>6. p >= m /\ p \div m >= 1
  <2>. DEFINE q == p \div m
  <2>1. p = m * q /\ q \in Nat
    BY <1>3
  <2>. HIDE DEF q
  <2>2. q >= 1
    BY <1>1, <2>1
  <2>3. p >= m
    BY <1>1, <2>1, <2>2
  <2>. QED
    BY <2>2, <2>3 DEF q
<1>7. CASE a >= k
  <2>1. a \div m >= 1 /\ k = a - d
    BY <1>1, <1>3, <1>4, <1>7
  <2>2. (a - d) \div m = a \div m - 1
    BY <1>1, <1>5, <2>1, NextPass
  <2>. QED
    BY <1>2, <1>3, <2>1, <2>2 DEF ParityIn
<1>8. CASE a < k
  <2>1. a = 0 /\ k = p - d
    BY <1>1, <1>3, <1>4, <1>5, <1>8
  <2>2. (p - d) \div m = p \div m - 1
    BY <1>1, <1>6, <2>1, NextPass
  <2>3. 0 \div m = 0
    BY <1>1
  <2>4. ParityIn(m, a) = 0
    BY <2>1, <2>3 DEF ParityIn
  <2>5. ParityIn(m, k) # 0
    BY <1>1, <1>2, <1>3, <1>6, <2>1, <2>2 DEF ParityIn
  <2>. QED
    BY <2>4, <2>5
<1>. QED
  BY <1>1, <1>7, <1>8

-----------------------------------------------------------------------------
(* The steps.                                                                *)

LEMMA RingFacts ==
  ASSUME Roomy, QueueTypes
  PROVE  /\ ring.n \in Nat /\ ring.n >= 3 /\ ring.rows \in Nat \ {0} /\ ring.n <= ring.rows
         /\ ring.period \in Nat \ {0} /\ MaxAge \in Nat
         /\ ring.period \div 2 \in Nat /\ 2 * (ring.period \div 2) <= ring.period
         /\ ring.period >= 4
         /\ ring.n + MaxAge <= ring.period \div 2 + 1
         /\ beam \in 0..ring.period - 1 /\ next.abs \in 0..ring.period - 1
BY ShapeFacts DEF QueueTypes, Claims, Places

(* The parts of a turn are what their types say.                              *)
LEMMA TurnFacts ==
  ASSUME QueueTypes, NEW c \in Core
  PROVE  /\ cop[c] \in Turns
         /\ cop[c].pc \in {"idle", "load", "cas", "note", "copy"} /\ cop[c].plan \in Plans
         /\ cop[c].beam \in 0..ring.period - 1
         /\ cop[c].claim \in Claims /\ cop[c].claim.abs \in 0..ring.period - 1
         /\ cop[c].word \in Claims /\ cop[c].word.abs \in 0..ring.period - 1
BY DEF QueueTypes, Turns, Claims, Places

(* No note is under way.                                                     *)
Quiet == \A c \in Core: cop[c].pc # "note"

(* Then PASS_FRAME is what is stored.                                         *)
LEMMA QuietFrames == Quiet => \A p: PassFrame(p) = passFrame[p]
BY DEF Quiet, PassFrame, Noting, Core

(* The beam moves: every distance from it shrinks by one.                     *)
LEMMA BeamStep ==
  ASSUME Roomy, RingInv, Quiet, BeamMoves
  PROVE  RingInv'
<1>. DEFINE p == ring.period
<1>1. /\ UNCHANGED <<ring, next, newest, passFrame, cop, pack, stamp, held>>
      /\ beam' = After(p, beam) /\ QueueTypes
  BY InTermsOfTheRing DEF BeamMoves, queue, packer, slots, RingInv
<1>2. /\ ring.n \in Nat /\ ring.n >= 3 /\ MaxAge \in Nat /\ p \in Nat \ {0}
      /\ p \div 2 \in Nat /\ 2 * (p \div 2) <= p /\ ring.n + MaxAge <= p \div 2 + 1
      /\ beam \in 0..p - 1 /\ next.abs \in 0..p - 1
  BY <1>1, RingFacts
<1>3. QueueTypes'
  <2>1. beam' \in 0..p - 1
    BY <1>1, <1>2, AfterIs
  <2>. QED
    BY <1>1, <2>1 DEF QueueTypes, Claims, Turns, Places
<1>4. \A x \in 0..p - 1: Ahead(p, beam, x) \in Nat
                       /\ (Ahead(p, beam, x) >= 1 => Ahead(p, beam', x) = Ahead(p, beam, x) - 1)
                       /\ (Ahead(p, beam, x) = 1 => beam' = x)
  <2>. SUFFICES ASSUME NEW x \in 0..p - 1
                PROVE  Ahead(p, beam, x) \in Nat
                       /\ (Ahead(p, beam, x) >= 1 => Ahead(p, beam', x) = Ahead(p, beam, x) - 1)
                       /\ (Ahead(p, beam, x) = 1 => beam' = x)
    OBVIOUS
  <2>1. Ahead(p, beam, x) \in Nat
    BY <1>2, AheadIs
  <2>. QED
    BY <1>1, <1>2, <2>1, AheadSteps
<1>5. ASSUME NEW c \in Core
      PROVE  TurnInv(c)'
  <2>. DEFINE L == Ahead(p, beam, next.abs)
              K == Ahead(p, beam, cop[c].claim.abs)
              g == Ahead(p, cop[c].beam, beam)
  <2>1. /\ cop[c].beam \in 0..p - 1 /\ cop[c].claim.abs \in 0..p - 1
        /\ cop[c].pc \in {"idle", "load", "cas", "copy"} /\ g \in Nat /\ g \in 0..p - 1
        /\ L \in Nat /\ K \in Nat
    <3>1. /\ cop[c].beam \in 0..p - 1 /\ cop[c].claim.abs \in 0..p - 1
          /\ cop[c].pc \in {"idle", "load", "cas", "copy"}
      BY <1>1, TurnFacts DEF Quiet
    <3>2. g \in 0..p - 1
      BY <1>2, <3>1, AheadIs
    <3>3. L \in Nat /\ K \in Nat
      BY <1>2, <1>4, <3>1
    <3>. QED
      BY <3>1, <3>2, <3>3
  <2>2. TurnInv(c)
    BY DEF RingInv
  <2>3. ASSUME InHand(c)
        PROVE  ~Rejoins(c) /\ K \in 2..ring.n - 2 /\ L \in K..ring.n - 1
    <3>1. beam' # cop[c].claim.abs
      BY <1>1, <2>3, InTermsOfTheRing DEF BeamMoves
    <3>2. ~Rejoins(c)
      BY <1>1, <2>2, <2>3, <3>1 DEF TurnInv, ClaimIsTheWord, PlanFits, InHand, Rejoins, Quiet
    <3>3. K \in 1..ring.n - 2 /\ L <= ring.n - 1 /\ K <= L
      BY <2>2, <2>3, <3>2 DEF TurnInv, HandAhead, Lead
    <3>. QED
      BY <1>2, <1>4, <2>1, <3>1, <3>2, <3>3
  <2>4. ASSUME cop[c].pc # "idle"
        PROVE  /\ Ahead(p, cop[c].beam, beam') = g + 1 /\ g + 1 <= MaxAge
               /\ L >= 2 /\ g + L <= p \div 2
    <3>1. Ahead(p, cop[c].beam, beam') <= MaxAge
      BY <1>1, <2>4, InTermsOfTheRing DEF BeamMoves, Age
    <3>2. g <= MaxAge
      BY <2>2, <2>4 DEF TurnInv, InTime, Aged
    <3>3. Ahead(p, cop[c].beam, beam') = g + 1
      <4>1. Ahead(p, cop[c].beam, beam') = IF g + 1 = p THEN 0 ELSE g + 1
        BY <1>1, <1>2, <2>1, AheadSteps
      <4>. HIDE DEF g
      <4>. QED
        BY <1>2, <2>1, <3>2, <4>1
    <3>4. CASE cop[c].pc = "load"
      <4>1. /\ beam' # next.abs
            /\ Ahead(p, cop[c].beam, next.abs) # 0 /\ ~(Ahead(p, cop[c].beam, next.abs) > p \div 2)
        BY <1>1, <3>4, InTermsOfTheRing DEF BeamMoves
      <4>2. L # 1
        BY <1>2, <1>4, <4>1
      <4>3. CASE cop[c].beam = beam
        <5>1. g = 0
          BY <1>2, <4>3, AheadSteps
        <5>. QED
          BY <1>2, <2>1, <3>1, <3>3, <4>1, <4>2, <4>3, <5>1
      <4>4. CASE cop[c].beam # beam
        <5>1. L >= 1 /\ g + L <= p \div 2
          BY <2>2, <2>4, <4>4 DEF TurnInv, InTime, Aged, Lead
        <5>. QED
          BY <2>1, <3>1, <3>3, <4>2, <5>1
      <4>. QED
        BY <4>3, <4>4
    <3>5. CASE InHand(c)
      BY <1>2, <2>1, <2>3, <3>1, <3>3, <3>5
    <3>. QED
      BY <2>1, <2>4, <3>4, <3>5 DEF InHand
  <2>5. InTime(c)'
    <3>. SUFFICES ASSUME cop[c].pc # "idle"
                  PROVE  /\ Ahead(p, cop[c].beam, beam') <= MaxAge
                         /\ Ahead(p, beam', next.abs) >= 1
                         /\ Ahead(p, cop[c].beam, beam') + Ahead(p, beam', next.abs) <= p \div 2
      BY <1>1 DEF InTime, Aged, Lead
    <3>1. Ahead(p, beam', next.abs) = L - 1
      BY <1>2, <1>4, <2>4
    <3>. QED
      BY <1>2, <2>1, <2>4, <3>1
  <2>6. ClaimIsTheWord(c)'
    BY <1>1, <2>2, <2>3 DEF TurnInv, ClaimIsTheWord, InHand, Rejoins, Notes
  <2>7. HandAhead(c)'
    <3>. SUFFICES ASSUME InHand(c)
                  PROVE  /\ Ahead(p, beam', cop[c].claim.abs) \in 1..ring.n - 2
                         /\ Ahead(p, beam', next.abs) <= ring.n - 1
                         /\ Ahead(p, beam', cop[c].claim.abs) <= Ahead(p, beam', next.abs)
                         /\ cop[c].pc # "cas" =>
                              Ahead(p, beam', cop[c].claim.abs) < Ahead(p, beam', next.abs)
      BY <1>1 DEF HandAhead, InHand, Rejoins, Lead
    <3>1. Ahead(p, beam', next.abs) = L - 1 /\ Ahead(p, beam', cop[c].claim.abs) = K - 1
      BY <1>2, <1>4, <2>1, <2>3
    <3>2. cop[c].pc # "cas" => K < L
      BY <2>2, <2>3 DEF TurnInv, HandAhead, Lead
    <3>. QED
      BY <1>2, <2>1, <2>3, <3>1, <3>2
  <2>8. PlanFits(c)'
    BY <1>1, <2>2 DEF TurnInv, PlanFits, Notes, Rejoins
  <2>. QED
    BY <2>5, <2>6, <2>7, <2>8 DEF TurnInv
<1>6. OneNote' /\ PassIsNoted' /\ PackedIsFree' /\ \A c \in Core: CopyIsNoted(c)'
  BY <1>1 DEF RingInv, OneNote, PassIsNoted, PackedIsFree, CopyIsNoted, PassFrame, Noting, Notes, Rejoins
<1>. QED
  BY <1>3, <1>5, <1>6 DEF RingInv

(* A turn stays what it is as long as the queue and the beam do.              *)
LEMMA SameTurn ==
  ASSUME NEW d \in Core, TurnInv(d), cop'[d] = cop[d], UNCHANGED <<ring, beam, next>>
  PROVE  TurnInv(d)'
BY DEF TurnInv, InTime, ClaimIsTheWord, HandAhead, PlanFits, InHand, Rejoins, Notes, Aged, Lead

(* A turn about to look at the queue is a turn.                               *)
LEMMA LookingIs ==
  ASSUME QueueTypes, Roomy, NEW b \in Places
  PROVE  Looking(b) \in Turns /\ Idle \in Turns /\ Idle.word \in Claims
<1>1. 0 \in Places
  BY RingFacts DEF Places
<1>. QED
  BY <1>1 DEF Looking, Idle, NoClaim, Turns, Claims, Plans

(* A turn that goes on without a claim, or with one still to be swapped in.   *)
LEMMA OneTurn ==
  ASSUME RingInv, Quiet, NEW c \in Core, NEW t \in Turns, Step(c, t),
         UNCHANGED <<ring, beam, next, newest, passFrame, pack>>,
         DOMAIN stamp' = DOMAIN stamp, DOMAIN held' = DOMAIN held,
         t.pc \notin {"note", "copy"}, TurnInv(c)',
         t.pc = "cas" /\ Notes(c)' => t.claim.buf = newest
  PROVE  RingInv'
<1>1. /\ QueueTypes /\ cop' \in [Core -> Turns] /\ cop'[c] = t
      /\ \A d \in Core: d # c => cop'[d] = cop[d]
  BY DEF RingInv, QueueTypes, Step
<1>2. QueueTypes'
  BY <1>1 DEF QueueTypes, Claims, Turns, Places
<1>3. \A d \in Core: cop'[d].pc # "note"
  BY <1>1 DEF Quiet
<1>4. \A q: PassFrame(q)' = passFrame[q]
  BY <1>3 DEF PassFrame, Noting, Core
<1>5. \A q: PassFrame(q) = passFrame[q]
  BY QuietFrames
<1>6. ASSUME NEW d \in Core
      PROVE  TurnInv(d)' /\ CopyIsNoted(d)'
  <2>1. CASE d = c
    BY <1>1, <2>1 DEF CopyIsNoted
  <2>2. CASE d # c
    <3>1. TurnInv(d)'
      BY <1>1, <2>2, SameTurn DEF RingInv
    <3>2. CopyIsNoted(d)'
      BY <1>1, <1>4, <1>5, <2>2 DEF CopyIsNoted, RingInv
    <3>. QED
      BY <3>1, <3>2
  <2>. QED
    BY <2>1, <2>2
<1>7. PassIsNoted'
  BY <1>4, <1>5 DEF PassIsNoted, RingInv
<1>8. PackedIsFree'
  <2>. SUFFICES ASSUME pack.pc \in {"pack", "newest"}
                PROVE  /\ pack.frame # newest /\ pack.frame # PassFrame(0)' /\ pack.frame # PassFrame(1)'
                       /\ \A d \in Core: cop'[d].pc = "cas" /\ Notes(d)' => cop'[d].claim.buf # pack.frame
    BY DEF PackedIsFree
  <2>1. /\ pack.frame # newest /\ pack.frame # PassFrame(0) /\ pack.frame # PassFrame(1)
        /\ \A d \in Core: cop[d].pc = "cas" /\ Notes(d) => cop[d].claim.buf # pack.frame
    BY DEF PackedIsFree, RingInv
  <2>2. \A d \in Core: d # c => (Notes(d)' <=> Notes(d))
    BY <1>1 DEF Notes, Rejoins
  <2>. QED
    BY <1>1, <1>4, <1>5, <2>1, <2>2
<1>. QED
  BY <1>2, <1>3, <1>6, <1>7, <1>8 DEF RingInv, OneNote, Core

(* A turn begins: it has just looked at the beam.                             *)
LEMMA TurnStep ==
  ASSUME Roomy, RingInv, Quiet, NEW c \in Core, Turn(c)
  PROVE  RingInv'
<1>1. /\ Looking(beam) \in Turns /\ Step(c, Looking(beam)) /\ QueueTypes
      /\ UNCHANGED <<ring, beam, next, newest, passFrame, pack, stamp, held>>
  BY LookingIs DEF RingInv, QueueTypes, Turn, queue, packer, slots
<1>2. cop'[c] = Looking(beam)
  BY <1>1 DEF Step, QueueTypes
<1>3. Looking(beam).pc = "load" /\ Looking(beam).beam = beam
  BY DEF Looking, Idle
<1>4. Ahead(ring.period, beam, beam) <= MaxAge
  BY <1>1, RingFacts, AheadSteps
<1>5. TurnInv(c)'
  BY <1>1, <1>2, <1>3, <1>4
     DEF TurnInv, InTime, ClaimIsTheWord, HandAhead, PlanFits, InHand, Aged
<1>. QED
  BY <1>1, <1>3, <1>5, OneTurn

(* A copy or a lost swap goes back to the queue, in time.                     *)
LEMMA LookAgain ==
  ASSUME Roomy, RingInv, NEW c \in Core, cop[c].pc # "idle", InTime(c)
  PROVE  /\ Looking(cop[c].beam) \in Turns
         /\ Looking(cop[c].beam).pc = "load" /\ Looking(cop[c].beam).beam = cop[c].beam
         /\ cop'[c] = Looking(cop[c].beam) /\ UNCHANGED <<ring, beam, next>> => TurnInv(c)'
<1>1. Looking(cop[c].beam) \in Turns
  BY LookingIs, TurnFacts DEF RingInv, Places
<1>2. Looking(cop[c].beam).pc = "load" /\ Looking(cop[c].beam).beam = cop[c].beam
  BY DEF Looking, Idle
<1>3. ASSUME cop'[c] = Looking(cop[c].beam), UNCHANGED <<ring, beam, next>>
      PROVE  TurnInv(c)'
  BY <1>2, <1>3
     DEF TurnInv, InTime, ClaimIsTheWord, HandAhead, PlanFits, InHand, Aged, Lead
<1>. QED
  BY <1>1, <1>2, <1>3

(* A copy is made, and the turn looks again.                                  *)
LEMMA CopyStep ==
  ASSUME Roomy, RingInv, Quiet, NEW c \in Core, Copy(c)
  PROVE  RingInv'
<1>1. /\ cop[c].pc = "copy" /\ Step(c, Looking(cop[c].beam)) /\ QueueTypes
      /\ UNCHANGED <<ring, beam, next, newest, passFrame, pack>>
      /\ DOMAIN stamp' = DOMAIN stamp /\ DOMAIN held' = DOMAIN held
  BY DEF Copy, queue, packer, RingInv
<1>2. cop'[c] = Looking(cop[c].beam) /\ InTime(c)
  BY <1>1 DEF Step, QueueTypes, RingInv, TurnInv
<1>3. /\ Looking(cop[c].beam) \in Turns /\ TurnInv(c)' /\ Looking(cop[c].beam).pc = "load"
  BY <1>1, <1>2, LookAgain
<1>. QED
  BY <1>1, <1>3, OneTurn

(* A turn plans: a re-join looked at the beam of now, and any other claim is  *)
(* ahead of it.                                                               *)
LEMMA PlanIs ==
  ASSUME Roomy, RingInv, NEW c \in Core, cop[c].pc # "idle", NEW claim,
         claim.abs = next.abs
  PROVE  LET plan == Plan(claim, cop[c].beam)
         IN  /\ plan \in {"rejoin", "stop", "reuse", "skip", "take"}
             /\ plan = "rejoin" => /\ cop[c].beam = beam
                                   /\ \/ Lead(next.abs) = 0
                                      \/ Lead(next.abs) > ring.period \div 2
             /\ plan \in {"reuse", "skip", "take"} => Lead(next.abs) \in 1..ring.n - 2
<1>. DEFINE p == ring.period
            L == Ahead(p, beam, next.abs)
            g == Ahead(p, cop[c].beam, beam)
            D == Ahead(p, cop[c].beam, next.abs)
            plan == Plan(claim, cop[c].beam)
<1>1. /\ ring.n \in Nat /\ p \in Nat \ {0} /\ p \div 2 \in Nat /\ 2 * (p \div 2) <= p
      /\ beam \in 0..p - 1 /\ next.abs \in 0..p - 1 /\ cop[c].beam \in 0..p - 1
  BY RingFacts, TurnFacts DEF RingInv
<1>2. L \in 0..p - 1 /\ g \in 0..p - 1 /\ D \in 0..p - 1
  BY <1>1, AheadIs
<1>3. \/ cop[c].beam = beam /\ D = L
      \/ L >= 1 /\ g + L <= p \div 2 /\ D = g + L
  <2>1. CASE cop[c].beam = beam
    BY <2>1
  <2>2. CASE L >= 1 /\ g + L <= p \div 2
    <3>1. g + L < p
      BY <1>1, <1>2, <2>2
    <3>2. D = g + L
      BY <1>1, <3>1, AheadAdds
    <3>. QED
      BY <2>2, <3>2
  <2>. QED
    BY <2>1, <2>2 DEF RingInv, TurnInv, InTime, Aged, Lead
<1>4. /\ plan = "rejoin" => D = 0 \/ D > p \div 2
      /\ plan \in {"reuse", "skip", "take"} => D >= 1 /\ D + 2 <= ring.n
      /\ plan \in {"rejoin", "stop", "reuse", "skip", "take"}
  <2>1. /\ Late(claim.abs, cop[c].beam) <=> D = 0 \/ D > p \div 2
        /\ Fillable(claim.abs, cop[c].beam) <=> D >= 1 /\ D + 2 <= ring.n
    BY InTermsOfTheRing
  <2>. HIDE DEF D, p
  <2>2. CASE Late(claim.abs, cop[c].beam)
    BY <2>1, <2>2 DEF Plan
  <2>3. CASE ~Late(claim.abs, cop[c].beam) /\ ~Fillable(claim.abs, cop[c].beam)
    BY <2>3 DEF Plan
  <2>4. CASE ~Late(claim.abs, cop[c].beam) /\ Fillable(claim.abs, cop[c].beam)
    BY <2>1, <2>4 DEF Plan
  <2>. QED
    BY <2>2, <2>3, <2>4
<1>5. plan = "rejoin" => cop[c].beam = beam /\ (L = 0 \/ L > p \div 2)
  BY <1>1, <1>2, <1>3, <1>4
<1>6. plan \in {"reuse", "skip", "take"} => L \in 1..ring.n - 2
  BY <1>1, <1>2, <1>3, <1>4
<1>. QED
  BY <1>4, <1>5, <1>6 DEF Lead

(* The queue is read: the turn ends, re-joins or has a claim to swap in.      *)
LEMMA LoadStep ==
  ASSUME Roomy, RingInv, Quiet, NEW c \in Core, Load(c)
  PROVE  RingInv'
<1>. DEFINE claim == claim_next(next, newest)
            plan == Plan(claim, cop[c].beam)
            rejoin == [buf |-> newest, abs |-> catch_up(cop[c].beam)]
            taken(plan0, claim0) == [cop[c] EXCEPT !.pc = "cas", !.word = next, !.plan = plan0, !.claim = claim0]
<1>1. /\ cop[c].pc = "load" /\ QueueTypes /\ UNCHANGED <<ring, beam, next, newest, passFrame, pack, stamp, held>>
      /\ cop[c] \in Turns /\ InTime(c)
  BY TurnFacts DEF Load, queue, packer, slots, RingInv, TurnInv
<1>2. /\ claim.abs = next.abs
      /\ claim.buf = IF RowIn(ring.rows, next.abs) = 0 THEN newest ELSE next.buf
      /\ claim \in Claims
  BY <1>1, InTermsOfTheRing DEF claim_next, QueueTypes, Claims
<1>3. /\ plan \in {"rejoin", "stop", "reuse", "skip", "take"}
      /\ plan = "rejoin" => /\ cop[c].beam = beam
                            /\ Lead(next.abs) = 0 \/ Lead(next.abs) > ring.period \div 2
      /\ plan \in {"reuse", "skip", "take"} => Lead(next.abs) \in 1..ring.n - 2
  BY <1>1, <1>2, PlanIs
<1>4. Step(c, CASE plan = "stop" -> Idle
                [] plan = "rejoin" -> taken(plan, rejoin)
                [] OTHER -> taken(plan, claim))
  BY DEF Load
<1>. HIDE DEF plan, claim
<1>5. CASE plan = "stop"
  <2>1. Step(c, Idle) /\ Idle \in Turns /\ cop'[c] = Idle /\ Idle.pc = "idle"
    <3>1. Step(c, Idle)
      BY <1>4, <1>5
    <3>2. Idle \in Turns
      BY <1>1, LookingIs DEF QueueTypes
    <3>. QED
      BY <1>1, <3>1, <3>2 DEF Step, QueueTypes, Idle
  <2>2. TurnInv(c)'
    BY <1>1, <2>1 DEF TurnInv, InTime, ClaimIsTheWord, HandAhead, PlanFits, InHand
  <2>. QED
    BY <1>1, <2>1, <2>2, OneTurn
<1>6. CASE plan = "rejoin"
  <2>. DEFINE t == taken(plan, rejoin)
  <2>1. /\ rejoin.abs = After(ring.period, cop[c].beam) /\ rejoin.buf = newest /\ rejoin \in Claims
    <3>1. catch_up(cop[c].beam) = After(ring.period, cop[c].beam)
      BY InTermsOfTheRing DEF catch_up
    <3>2. After(ring.period, cop[c].beam) \in Places
      BY <1>1, TurnFacts, RingFacts, AfterIs DEF Places
    <3>. QED
      BY <1>1, <3>1, <3>2 DEF Claims, QueueTypes
  <2>2. /\ t \in Turns /\ t.pc = "cas" /\ t.word = next /\ t.plan = "rejoin" /\ t.claim = rejoin
        /\ t.beam = cop[c].beam
    BY <1>1, <1>6, <2>1 DEF Turns, Plans, QueueTypes
  <2>3. Step(c, t) /\ cop'[c] = t
    <3>1. Step(c, t)
      BY <1>4, <1>6
    <3>. QED
      BY <1>1, <3>1 DEF Step, QueueTypes
  <2>. HIDE DEF t, rejoin
  <2>4. TurnInv(c)'
    <3>1. InTime(c)' /\ PlanFits(c)' /\ HandAhead(c)'
      BY <1>1, <2>2, <2>3 DEF InTime, PlanFits, HandAhead, Rejoins, Aged, Lead
    <3>2. ClaimIsTheWord(c)'
      BY <1>1, <1>3, <1>6, <2>1, <2>2, <2>3 DEF ClaimIsTheWord, Rejoins, Lead
    <3>. QED
      BY <3>1, <3>2 DEF TurnInv
  <2>. QED
    BY <1>1, <2>1, <2>2, <2>3, <2>4, OneTurn
<1>7. CASE plan \in {"reuse", "skip", "take"}
  <2>. DEFINE t == taken(plan, claim)
  <2>1. /\ t \in Turns /\ t.pc = "cas" /\ t.word = next /\ t.plan = plan /\ t.claim = claim
        /\ t.beam = cop[c].beam
    BY <1>1, <1>2, <1>7 DEF Turns, Plans, QueueTypes
  <2>2. Step(c, t) /\ cop'[c] = t
    <3>1. Step(c, t)
      BY <1>4, <1>7
    <3>. QED
      BY <1>1, <3>1 DEF Step, QueueTypes
  <2>. HIDE DEF t
  <2>3. Lead(next.abs) \in 1..ring.n - 2
    BY <1>3, <1>7
  <2>4. TurnInv(c)'
    <3>1. InTime(c)' /\ PlanFits(c)'
      BY <1>1, <2>1, <2>2 DEF InTime, PlanFits, Aged, Lead
    <3>2. ClaimIsTheWord(c)'
      BY <1>1, <1>2, <1>7, <2>1, <2>2 DEF ClaimIsTheWord, Rejoins, Notes
    <3>3. HandAhead(c)'
      <4>1. ring.n \in Nat
        BY <1>1, RingFacts
      <4>. QED
        BY <1>1, <1>2, <2>1, <2>2, <2>3, <4>1 DEF HandAhead, Lead
    <3>. QED
      BY <3>1, <3>2, <3>3 DEF TurnInv
  <2>5. Notes(c)' => t.claim.buf = newest
    BY <1>1, <1>2, <1>7, <2>1, <2>2 DEF Notes, Rejoins
  <2>. QED
    BY <1>1, <2>1, <2>2, <2>4, <2>5, OneTurn
<1>. QED
  BY <1>3, <1>5, <1>6, <1>7

(* A swap that is won: where the queue's head is then.                        *)
LEMMA Won ==
  ASSUME Roomy, RingInv, NEW c \in Core, Cas(c), next = cop[c].word
  PROVE  /\ cop[c].pc = "cas" /\ QueueTypes
         /\ UNCHANGED <<ring, beam, newest, passFrame, pack, stamp, held>>
         /\ next' \in Claims /\ next'.buf = cop[c].claim.buf
         /\ next'.abs = IF Rejoins(c) THEN cop[c].claim.abs
                        ELSE After(ring.period, cop[c].claim.abs)
         /\ cop' \in [Core -> Turns] /\ \A d \in Core: d # c => cop'[d] = cop[d]
         /\ cop'[c].beam = cop[c].beam
         /\ IF Notes(c) \/ cop[c].plan = "take"
            THEN /\ cop'[c].claim = cop[c].claim /\ cop'[c].plan = cop[c].plan
                 /\ cop'[c].pc = IF Notes(c) THEN "note" ELSE "copy"
            ELSE cop'[c].pc = "load"
<1>. DEFINE claim == cop[c].claim
            noted == Row(claim.abs) = 0 \/ cop[c].plan = "rejoin"
            to == IF noted THEN "note" ELSE IF cop[c].plan = "take" THEN "copy" ELSE "load"
<1>1. /\ cop[c].pc = "cas" /\ QueueTypes
      /\ UNCHANGED <<ring, beam, newest, passFrame, pack, stamp, held>>
      /\ next' = IF cop[c].plan = "rejoin" THEN claim ELSE [buf |-> claim.buf, abs |-> Succ(claim.abs)]
      /\ Step(c, Claimed(c, to))
  BY DEF Cas, RingInv, packer, slots
<1>2. cop[c] \in Turns /\ claim \in Claims /\ claim.abs \in Places
  BY <1>1, TurnFacts DEF Places
<1>3. After(ring.period, claim.abs) \in Places /\ Succ(claim.abs) = After(ring.period, claim.abs)
  BY <1>1, <1>2, RingFacts, AfterIs, InTermsOfTheRing DEF Places
<1>4. noted <=> Notes(c)
  BY InTermsOfTheRing DEF Notes, Rejoins
<1>5. Looking(cop[c].beam) \in Turns /\ Idle.word \in Claims
  BY <1>1, <1>2, LookingIs DEF Turns
<1>6. Claimed(c, to) \in Turns /\ Claimed(c, to).beam = cop[c].beam
  BY <1>2, <1>5 DEF Claimed, Turns, Looking, Idle
<1>7. IF noted \/ cop[c].plan = "take"
      THEN /\ Claimed(c, to).claim = claim /\ Claimed(c, to).plan = cop[c].plan
           /\ Claimed(c, to).pc = IF noted THEN "note" ELSE "copy"
      ELSE Claimed(c, to).pc = "load"
  BY <1>2, <1>5 DEF Claimed, Turns, Looking, Idle
<1>8. next' \in Claims /\ next'.buf = claim.buf
      /\ next'.abs = IF Rejoins(c) THEN claim.abs ELSE After(ring.period, claim.abs)
  BY <1>1, <1>2, <1>3 DEF Claims, Rejoins
<1>9. /\ cop' \in [Core -> Turns] /\ \A d \in Core: d # c => cop'[d] = cop[d]
      /\ cop'[c] = Claimed(c, to)
  BY <1>1, <1>6 DEF Step, QueueTypes
<1>. QED
  BY <1>1, <1>4, <1>6, <1>7, <1>8, <1>9

(* The queue's head has gone on to a place right after the beam, or one on.   *)
LEMMA HeadGoesOn ==
  ASSUME Roomy, RingInv, NEW c \in Core, Cas(c), next = cop[c].word
  PROVE  LET L == Lead(next.abs)
             M == Ahead(ring.period, beam, next'.abs)
             K == Lead(cop[c].claim.abs)
         IN  IF Rejoins(c)
             THEN M = 1 /\ cop[c].beam = beam /\ (L = 0 \/ L > ring.period \div 2)
             ELSE M = L + 1 /\ K = L /\ L \in 1..ring.n - 2
<1>1. /\ cop[c].pc = "cas" /\ ClaimIsTheWord(c) /\ HandAhead(c) /\ QueueTypes
      /\ next'.abs = IF Rejoins(c) THEN cop[c].claim.abs
                     ELSE After(ring.period, cop[c].claim.abs)
  BY Won DEF RingInv, TurnInv
<1>2. /\ ring.n \in Nat /\ ring.n >= 3 /\ ring.period \in Nat \ {0} /\ beam \in 0..ring.period - 1
      /\ MaxAge \in Nat
      /\ ring.period \div 2 \in Nat /\ 2 * (ring.period \div 2) <= ring.period
      /\ ring.n + MaxAge <= ring.period \div 2 + 1 /\ cop[c].claim.abs \in 0..ring.period - 1
      /\ next.abs \in 0..ring.period - 1
  BY <1>1, RingFacts, TurnFacts
<1>3. CASE Rejoins(c)
  <2>1. /\ next'.abs = After(ring.period, beam) /\ cop[c].beam = beam
        /\ Lead(next.abs) = 0 \/ Lead(next.abs) > ring.period \div 2
    BY <1>1, <1>3 DEF ClaimIsTheWord
  <2>2. Ahead(ring.period, beam, beam) = 0
    BY <1>2, AheadSteps
  <2>3. Ahead(ring.period, beam, After(ring.period, beam)) =
          IF Ahead(ring.period, beam, beam) + 1 = ring.period THEN 0
          ELSE Ahead(ring.period, beam, beam) + 1
    BY <1>2, AheadSteps
  <2>4. ring.period # 1
    BY <1>1, RingFacts
  <2>5. Ahead(ring.period, beam, next'.abs) = 1
    BY <1>2, <2>1, <2>2, <2>3, <2>4
  <2>. QED
    BY <1>3, <2>1, <2>5
<1>4. CASE ~Rejoins(c)
  <2>1. /\ next'.abs = After(ring.period, next.abs) /\ cop[c].claim.abs = next.abs
        /\ Lead(next.abs) \in 1..ring.n - 2
    BY <1>1, <1>4 DEF ClaimIsTheWord, HandAhead, InHand
  <2>2. Ahead(ring.period, beam, next'.abs) =
          IF Lead(next.abs) + 1 = ring.period THEN 0 ELSE Lead(next.abs) + 1
    BY <1>2, <2>1, AheadSteps DEF Lead
  <2>3. Ahead(ring.period, beam, next'.abs) = Lead(next.abs) + 1
    BY <1>2, <2>1, <2>2
  <2>. QED
    BY <1>4, <2>1, <2>3
<1>. QED
  BY <1>3, <1>4

(* A swap that is won leaves both turns in order: the winner's claim is behind*)
(* the new head, and a re-join wins only when no claim is in hand.            *)
LEMMA WonTurns ==
  ASSUME Roomy, RingInv, NEW c \in Core, Cas(c), next = cop[c].word, NEW d \in Core
  PROVE  TurnInv(d)'
<1>. DEFINE p == ring.period
            L == Lead(next.abs)
            M == Ahead(p, beam, next'.abs)
            K == Lead(cop[d].claim.abs)
            g == Aged(d)
<1>1. /\ cop[c].pc = "cas" /\ QueueTypes /\ UNCHANGED <<ring, beam>>
      /\ next'.abs = IF Rejoins(c) THEN cop[c].claim.abs ELSE After(p, cop[c].claim.abs)
      /\ \A e \in Core: e # c => cop'[e] = cop[e]
      /\ cop'[c].beam = cop[c].beam
      /\ IF Notes(c) \/ cop[c].plan = "take"
         THEN /\ cop'[c].claim = cop[c].claim /\ cop'[c].plan = cop[c].plan
              /\ cop'[c].pc = IF Notes(c) THEN "note" ELSE "copy"
         ELSE cop'[c].pc = "load"
  BY Won
<1>2. /\ ring.n \in Nat /\ ring.n >= 3 /\ MaxAge \in Nat /\ p \div 2 \in Nat
      /\ ring.n + MaxAge <= p \div 2 + 1
  BY <1>1, RingFacts
<1>3. L \in Nat /\ K \in Nat /\ g \in Nat
  <2>1. /\ p \in Nat \ {0} /\ beam \in 0..p - 1 /\ next.abs \in 0..p - 1
        /\ cop[d].claim.abs \in 0..p - 1 /\ cop[d].beam \in 0..p - 1
    BY <1>1, RingFacts, TurnFacts
  <2>2. L \in 0..p - 1 /\ K \in 0..p - 1
    BY <2>1, AheadIs DEF Lead
  <2>3. g \in 0..p - 1
    BY <2>1, AheadIs DEF Aged
  <2>. QED
    BY <2>2, <2>3
<1>4. IF Rejoins(c)
      THEN M = 1 /\ cop[c].beam = beam /\ (L = 0 \/ L > p \div 2)
      ELSE M = L + 1 /\ Lead(cop[c].claim.abs) = L /\ L \in 1..ring.n - 2
  BY HeadGoesOn
<1>5. TurnInv(d)
  BY DEF RingInv
<1>. HIDE DEF p, L, M, K, g
<1>6. ASSUME cop[d].pc # "idle"
      PROVE  g <= MaxAge /\ (cop[d].beam = beam \/ (M >= 1 /\ g + M <= p \div 2))
  <2>1. /\ g <= MaxAge
        /\ cop[d].beam = beam \/ (L >= 1 /\ g + L <= p \div 2)
    BY <1>5, <1>6 DEF TurnInv, InTime, g, L, p
  <2>2. CASE Rejoins(c)
    BY <1>2, <1>3, <1>4, <2>1, <2>2
  <2>3. CASE ~Rejoins(c)
    BY <1>2, <1>3, <1>4, <2>1, <2>3
  <2>. QED
    BY <2>2, <2>3
<1>7. ASSUME InHand(d), ~Rejoins(d), cop[d].pc # "cas" \/ d = c
      PROVE  K \in 1..ring.n - 2 /\ M <= ring.n - 1 /\ K < M
  <2>1. /\ K \in 1..ring.n - 2 /\ L <= ring.n - 1 /\ K <= L
    BY <1>5, <1>7 DEF TurnInv, HandAhead, K, L
  <2>2. ~Rejoins(c)
    BY <1>2, <1>3, <1>4, <1>7, <2>1
  <2>. QED
    BY <1>2, <1>3, <1>4, <2>1, <2>2
<1>8. ASSUME InHand(d), ~Rejoins(d)
      PROVE  K \in 1..ring.n - 2 /\ M <= ring.n - 1 /\ K <= M
  <2>1. /\ K \in 1..ring.n - 2 /\ L <= ring.n - 1 /\ K <= L
    BY <1>5, <1>8 DEF TurnInv, HandAhead, K, L
  <2>2. ~Rejoins(c)
    BY <1>2, <1>3, <1>4, <2>1
  <2>. QED
    BY <1>2, <1>3, <1>4, <2>1, <2>2
<1>9. cop'[d].beam = cop[d].beam /\ (cop'[d].pc # "idle" => cop[d].pc # "idle")
  BY <1>1
<1>10. InTime(d)'
  BY <1>1, <1>6, <1>9 DEF InTime, Aged, Lead, g, M, p
<1>11. ClaimIsTheWord(d)'
  <2>1. CASE d = c
    BY <1>1, <2>1 DEF ClaimIsTheWord
  <2>2. CASE d # c
    BY <1>1, <1>5, <2>2 DEF TurnInv, ClaimIsTheWord, Rejoins, Notes, Lead
  <2>. QED
    BY <2>1, <2>2
<1>12. HandAhead(d)'
  <2>1. CASE d = c
    <3>1. CASE cop'[c].pc = "load"
      BY <2>1, <3>1 DEF HandAhead, InHand
    <3>2. CASE Notes(c) \/ cop[c].plan = "take"
      <4>1. cop'[d].claim = cop[d].claim /\ cop'[d].plan = cop[d].plan /\ cop[d].pc = "cas"
        BY <1>1, <2>1, <3>2
      <4>2. Rejoins(d) \/ (K \in 1..ring.n - 2 /\ M <= ring.n - 1 /\ K < M)
        BY <1>7, <2>1, <4>1 DEF InHand
      <4>3. /\ Ahead(ring'.period, beam', cop'[d].claim.abs) = K
            /\ Ahead(ring'.period, beam', next'.abs) = M /\ ring'.n = ring.n
        BY <1>1, <4>1 DEF Lead, K, M, p
      <4>4. CASE Rejoins(d)
        BY <4>1, <4>4 DEF HandAhead, Rejoins
      <4>5. CASE K \in 1..ring.n - 2 /\ M <= ring.n - 1 /\ K < M
        <5>1. K <= M
          BY <1>2, <1>3, <1>4, <4>5
        <5>. QED
          BY <4>3, <4>5, <5>1 DEF HandAhead, Lead
      <4>. QED
        BY <4>2, <4>4, <4>5
    <3>. QED
      BY <1>1, <3>1, <3>2
  <2>2. CASE d # c
    BY <1>1, <1>7, <1>8, <2>2 DEF HandAhead, InHand, Rejoins, Lead, K, M, p
  <2>. QED
    BY <2>1, <2>2
<1>13. PlanFits(d)'
  <2>1. CASE d = c
    BY <1>1, <2>1 DEF PlanFits, Notes, Rejoins
  <2>2. CASE d # c
    BY <1>1, <1>5, <2>2 DEF TurnInv, PlanFits, Rejoins, Notes
  <2>. QED
    BY <2>1, <2>2
<1>. QED
  BY <1>10, <1>11, <1>12, <1>13 DEF TurnInv

(* PASS_FRAME after a swap that is won: the note it makes is under way.       *)
LEMMA WonFrames ==
  ASSUME Roomy, RingInv, Quiet, NEW c \in Core, Cas(c), next = cop[c].word, NEW q
  PROVE  PassFrame(q)' = IF Notes(c) /\ q = ParityIn(ring.rows, cop[c].claim.abs)
                         THEN cop[c].claim.buf ELSE PassFrame(q)
<1>1. /\ UNCHANGED <<ring, passFrame>> /\ \A d \in Core: d # c => cop'[d] = cop[d]
      /\ IF Notes(c) \/ cop[c].plan = "take"
         THEN /\ cop'[c].claim = cop[c].claim
              /\ cop'[c].pc = IF Notes(c) THEN "note" ELSE "copy"
         ELSE cop'[c].pc = "load"
  BY Won
<1>2. \A d \in Core: d # c => cop'[d].pc # "note"
  BY <1>1 DEF Quiet
<1>3. PassFrame(q) = passFrame[q]
  BY QuietFrames
<1>4. \A d \in Core: Noting(d, q)' <=>
        d = c /\ Notes(c) /\ q = ParityIn(ring.rows, cop[c].claim.abs)
  BY <1>1, <1>2 DEF Noting
<1>5. c \in {0, 1} /\ 0 \in Core /\ 1 \in Core
  BY DEF Core
<1>. QED
  BY <1>1, <1>3, <1>4, <1>5 DEF PassFrame

(* A copy in hand on the other core is of another pass than the one whose     *)
(* note a swap leads to.                                                      *)
LEMMA OtherPass ==
  ASSUME Roomy, EvenPasses, RingInv, NEW c \in Core, Cas(c), next = cop[c].word, Notes(c),
         NEW d \in Core, d # c, cop[d].pc = "copy"
  PROVE  ParityIn(ring.rows, cop[d].claim.abs) # ParityIn(ring.rows, cop[c].claim.abs)
<1>. DEFINE p == ring.period
            k == cop[c].claim.abs
            kd == cop[d].claim.abs
<1>1. QueueTypes /\ TurnInv(d) /\ cop[d].plan = "take" /\ ClaimIsTheWord(c) /\ cop[c].pc = "cas"
  BY Won DEF RingInv, TurnInv, PlanFits
<1>2. /\ p \in Nat \ {0} /\ beam \in 0..p - 1 /\ k \in 0..p - 1 /\ kd \in 0..p - 1
      /\ ring.n \in Nat /\ ring.rows \in Nat \ {0} /\ ring.n <= ring.rows /\ MaxAge \in Nat
      /\ p \div 2 \in Nat /\ ring.n + MaxAge <= p \div 2 + 1 /\ next.abs \in 0..p - 1
  BY <1>1, RingFacts, TurnFacts
<1>3. /\ Lead(kd) \in 1..ring.n - 2 /\ Lead(next.abs) <= ring.n - 1 /\ Lead(kd) < Lead(next.abs)
  BY <1>1 DEF TurnInv, HandAhead, InHand, Rejoins
<1>4. Lead(next.abs) \in 0..p - 1
  BY <1>2, AheadIs DEF Lead
<1>5. ~Rejoins(c)
  BY <1>1, <1>2, <1>3, <1>4, HeadGoesOn
<1>6. k = next.abs /\ RowIn(ring.rows, k) = 0
  BY <1>1, <1>5 DEF ClaimIsTheWord, Notes
<1>7. Ahead(p, kd, k) = Lead(k) - Lead(kd)
  <2>1. Ahead(p, beam, kd) <= Ahead(p, beam, k)
    BY <1>2, <1>3, <1>4, <1>6 DEF Lead
  <2>. QED
    BY <1>2, <2>1, AheadAdds DEF Lead
<1>8. Ahead(p, kd, k) \in 1..ring.rows
  BY <1>2, <1>3, <1>4, <1>6, <1>7
<1>9. p % ring.rows = 0 /\ (p \div ring.rows) % 2 = 0
  BY <1>1, ShapesAssumption DEF EvenPasses, QueueTypes
<1>. QED
  BY <1>2, <1>6, <1>8, <1>9, ParityFlips

(* So it keeps the invariant: the claim is noted, or of the noted pass.       *)
LEMMA WonStep ==
  ASSUME Roomy, EvenPasses, RingInv, Quiet, NEW c \in Core, Cas(c), next = cop[c].word
  PROVE  RingInv'
<1>. DEFINE k == cop[c].claim.abs
            m == ring.rows
<1>1. /\ cop[c].pc = "cas" /\ QueueTypes
      /\ UNCHANGED <<ring, beam, newest, passFrame, pack, stamp, held>>
      /\ next' \in Claims /\ next'.buf = cop[c].claim.buf
      /\ next'.abs = IF Rejoins(c) THEN k ELSE After(ring.period, k)
      /\ cop' \in [Core -> Turns] /\ \A d \in Core: d # c => cop'[d] = cop[d]
      /\ IF Notes(c) \/ cop[c].plan = "take"
         THEN /\ cop'[c].claim = cop[c].claim /\ cop'[c].plan = cop[c].plan
              /\ cop'[c].pc = IF Notes(c) THEN "note" ELSE "copy"
         ELSE cop'[c].pc = "load"
  BY Won
<1>2. \A q: PassFrame(q)' = IF Notes(c) /\ q = ParityIn(m, k) THEN cop[c].claim.buf
                           ELSE PassFrame(q)
  BY WonFrames
<1>3. /\ PassIsNoted /\ PackedIsFree /\ ClaimIsTheWord(c)
      /\ \A d \in Core: CopyIsNoted(d)
  BY DEF RingInv, TurnInv
<1>4. ~Notes(c) => /\ k = next.abs /\ cop[c].claim.buf = next.buf /\ RowIn(m, k) # 0
                   /\ ~Rejoins(c)
  BY <1>1, <1>3 DEF ClaimIsTheWord, Notes
<1>5. \A q: q = ParityIn(m, k) => PassFrame(q)' = cop[c].claim.buf
  BY <1>2, <1>3, <1>4 DEF PassIsNoted
<1>6. QueueTypes'
  <2>1. next' \in Claims'
    BY <1>1 DEF Claims, Places
  <2>2. cop' \in [Core -> Turns']
    BY <1>1 DEF Turns, Claims, Places
  <2>. QED
    BY <1>1, <2>1, <2>2 DEF QueueTypes, Places
<1>7. OneNote'
  <2>1. \A d \in Core: d # c => cop'[d].pc # "note"
    BY <1>1 DEF Quiet
  <2>. QED
    BY <2>1 DEF OneNote, Core
<1>8. ASSUME NEW d \in Core
      PROVE  CopyIsNoted(d)'
  <2>1. CASE d = c
    BY <1>1, <1>5, <2>1 DEF CopyIsNoted
  <2>2. CASE d # c
    <3>. SUFFICES ASSUME cop[d].pc \in {"note", "copy"}, cop[d].plan = "take"
                  PROVE  \A q: q = ParityIn(m, cop[d].claim.abs) =>
                                  PassFrame(q)' = cop[d].claim.buf
      BY <1>1, <2>2 DEF CopyIsNoted
    <3>1. cop[d].pc = "copy" /\ PassFrame(ParityIn(m, cop[d].claim.abs)) = cop[d].claim.buf
      BY <1>3 DEF CopyIsNoted, Quiet
    <3>2. Notes(c) => ParityIn(m, cop[d].claim.abs) # ParityIn(m, k)
      BY <2>2, <3>1, OtherPass
    <3>. QED
      BY <1>2, <3>1, <3>2
  <2>. QED
    BY <2>1, <2>2
<1>9. PassIsNoted'
  <2>. SUFFICES ASSUME RowIn(m, next'.abs) # 0
                PROVE  \A q: q = ParityIn(m, next'.abs) => PassFrame(q)' = next'.buf
    BY <1>1 DEF PassIsNoted
  <2>1. ParityIn(m, next'.abs) = ParityIn(m, k)
    <3>1. k \in 0..ring.period - 1 /\ ring.period \in Nat \ {0} /\ m \in Nat \ {0}
      BY <1>1, RingFacts, TurnFacts
    <3>. QED
      BY <1>1, <3>1, SameParity
  <2>. QED
    BY <1>1, <1>5, <2>1
<1>10. PackedIsFree'
  <2>. SUFFICES ASSUME pack.pc \in {"pack", "newest"}
                PROVE  /\ pack.frame # newest
                       /\ pack.frame # PassFrame(0)' /\ pack.frame # PassFrame(1)'
                       /\ \A d \in Core: cop'[d].pc = "cas" /\ Notes(d)' => cop'[d].claim.buf # pack.frame
    BY <1>1 DEF PackedIsFree
  <2>1. /\ pack.frame # newest /\ pack.frame # PassFrame(0) /\ pack.frame # PassFrame(1)
        /\ \A d \in Core: cop[d].pc = "cas" /\ Notes(d) => cop[d].claim.buf # pack.frame
    BY <1>3 DEF PackedIsFree
  <2>2. \A d \in Core: d # c => (Notes(d)' <=> Notes(d))
    BY <1>1 DEF Notes, Rejoins
  <2>3. cop'[c].pc # "cas"
    BY <1>1
  <2>4. pack.frame # PassFrame(0)' /\ pack.frame # PassFrame(1)'
    BY <1>1, <1>2, <2>1
  <2>. QED
    BY <1>1, <2>1, <2>2, <2>3, <2>4
<1>11. \A d \in Core: TurnInv(d)'
  BY WonTurns
<1>. QED
  BY <1>6, <1>7, <1>8, <1>9, <1>10, <1>11 DEF RingInv

(* The compare-and-swap, won or lost.                                         *)
LEMMA CasStep ==
  ASSUME Roomy, EvenPasses, RingInv, Quiet, NEW c \in Core, Cas(c)
  PROVE  RingInv'
<1>1. CASE next = cop[c].word
  BY <1>1, WonStep
<1>2. CASE next # cop[c].word
  <2>1. /\ cop[c].pc = "cas" /\ Step(c, Looking(cop[c].beam)) /\ QueueTypes
        /\ UNCHANGED <<ring, beam, next, newest, passFrame, pack, stamp, held>>
    BY <1>2 DEF Cas, packer, slots, RingInv
  <2>2. cop'[c] = Looking(cop[c].beam) /\ InTime(c)
    BY <2>1 DEF Step, QueueTypes, RingInv, TurnInv
  <2>3. Looking(cop[c].beam) \in Turns /\ TurnInv(c)' /\ Looking(cop[c].beam).pc = "load"
    BY <2>1, <2>2, LookAgain
  <2>. QED
    BY <2>1, <2>3, OneTurn
<1>. QED
  BY <1>1, <1>2

(* A parity is an index of PASS_FRAME.                                        *)
LEMMA ParityFacts ==
  ASSUME Roomy, QueueTypes, NEW a \in Places
  PROVE  ParityIn(ring.rows, a) \in 0..1
<1>1. a \in Nat /\ ring.rows \in Nat \ {0}
  BY RingFacts DEF Places
<1>. DEFINE q == a \div ring.rows
<1>2. q \in Nat
  BY <1>1
<1>. HIDE DEF q
<1>3. q % 2 \in 0..1
  BY <1>2
<1>. QED
  BY <1>3 DEF ParityIn, q

(* The note is stored: PASS_FRAME is what it was about to be.                 *)
LEMMA NoteStep ==
  ASSUME Roomy, RingInv, NEW c \in Core, Note(c)
  PROVE  RingInv'
<1>. DEFINE t == Claimed(c, IF cop[c].plan = "take" THEN "copy" ELSE "load")
            k == cop[c].claim.abs
            e == ParityIn(ring.rows, k)
<1>1. /\ cop[c].pc = "note" /\ QueueTypes /\ cop[c] \in Turns /\ k \in Places
      /\ UNCHANGED <<ring, beam, next, newest, pack, stamp, held>>
      /\ passFrame' = [passFrame EXCEPT ![e] = cop[c].claim.buf] /\ Step(c, t)
      /\ cop[c].claim \in Claims
  BY InTermsOfTheRing, TurnFacts DEF Note, packer, slots, RingInv, Places
<1>2. /\ t \in Turns /\ t.beam = cop[c].beam
      /\ IF cop[c].plan = "take"
         THEN t.pc = "copy" /\ t.claim = cop[c].claim /\ t.plan = "take"
         ELSE t.pc = "load"
  <2>1. Looking(cop[c].beam) \in Turns /\ Idle.word \in Claims
    BY <1>1, LookingIs DEF Turns
  <2>. QED
    BY <1>1, <2>1 DEF Claimed, Turns, Looking, Idle
<1>. HIDE DEF t
<1>3. /\ cop' \in [Core -> Turns] /\ cop'[c] = t
      /\ \A d \in Core: d # c => cop'[d] = cop[d] /\ cop[d].pc # "note"
  BY <1>1, <1>2 DEF Step, QueueTypes, RingInv, OneNote, Core
<1>4. e \in 0..1
  BY <1>1, ParityFacts
<1>5. QueueTypes'
  <2>1. passFrame' \in [0..1 -> Frame \cup {None}]
    BY <1>1, <1>4 DEF QueueTypes, Claims
  <2>. QED
    BY <1>1, <1>3, <2>1 DEF QueueTypes, Claims, Turns, Places
<1>6. \A d \in Core: cop'[d].pc # "note"
  BY <1>2, <1>3
<1>7. \A q \in 0..1: PassFrame(q)' = PassFrame(q)
  <2>. SUFFICES ASSUME NEW q \in 0..1 PROVE PassFrame(q)' = PassFrame(q)
    OBVIOUS
  <2>1. PassFrame(q)' = passFrame'[q]
    BY <1>6 DEF PassFrame, Noting, Core
  <2>2. PassFrame(q) = IF q = e THEN cop[c].claim.buf ELSE passFrame[q]
    BY <1>1, <1>3 DEF PassFrame, Noting, Core
  <2>3. passFrame'[q] = IF q = e THEN cop[c].claim.buf ELSE passFrame[q]
    BY <1>1, <1>4 DEF QueueTypes
  <2>. QED
    BY <2>1, <2>2, <2>3
<1>8. ASSUME NEW d \in Core
      PROVE  TurnInv(d)'
  <2>1. CASE d = c
    <3>1. TurnInv(c)
      BY DEF RingInv
    <3>2. InTime(c)'
      BY <1>1, <1>2, <1>3, <3>1 DEF TurnInv, InTime, Aged, Lead
    <3>3. ClaimIsTheWord(c)' /\ PlanFits(c)'
      BY <1>2, <1>3 DEF ClaimIsTheWord, PlanFits
    <3>4. HandAhead(c)'
      BY <1>1, <1>2, <1>3, <3>1 DEF TurnInv, HandAhead, InHand, Rejoins, Lead
    <3>. QED
      BY <2>1, <3>2, <3>3, <3>4 DEF TurnInv
  <2>2. CASE d # c
    BY <1>1, <1>3, <2>2, SameTurn DEF RingInv
  <2>. QED
    BY <2>1, <2>2
<1>9. ASSUME NEW d \in Core
      PROVE  CopyIsNoted(d)'
  <2>1. /\ CopyIsNoted(d)
        /\ cop'[d].pc = "copy" => /\ cop'[d].claim = cop[d].claim /\ cop'[d].plan = cop[d].plan
                                 /\ cop[d].pc \in {"note", "copy"}
    BY <1>1, <1>2, <1>3 DEF RingInv
  <2>2. cop[d].claim.abs \in Places
    BY <1>1, TurnFacts DEF Places
  <2>3. ParityIn(ring.rows, cop[d].claim.abs) \in 0..1
    BY <1>1, <2>2, ParityFacts
  <2>. SUFFICES ASSUME cop'[d].pc = "copy", cop[d].plan = "take"
                PROVE  \A q: q = ParityIn(ring.rows, cop[d].claim.abs) =>
                                PassFrame(q)' = cop[d].claim.buf
    BY <1>1, <1>6, <2>1 DEF CopyIsNoted
  <2>. QED
    BY <1>7, <2>1, <2>3 DEF CopyIsNoted
<1>10. PassIsNoted'
  <2>1. ParityIn(ring.rows, next.abs) \in 0..1
    BY <1>1, ParityFacts DEF QueueTypes, Claims
  <2>. SUFFICES ASSUME RowIn(ring.rows, next.abs) # 0
                PROVE  \A q: q = ParityIn(ring.rows, next.abs) => PassFrame(q)' = next.buf
    BY <1>1 DEF PassIsNoted
  <2>. QED
    BY <1>7, <2>1 DEF PassIsNoted, RingInv
<1>11. PackedIsFree'
  <2>1. PackedIsFree /\ PassFrame(0)' = PassFrame(0) /\ PassFrame(1)' = PassFrame(1)
    BY <1>7 DEF RingInv
  <2>2. \A d \in Core: d # c => (Notes(d)' <=> Notes(d))
    BY <1>1, <1>3 DEF Notes, Rejoins
  <2>. QED
    BY <1>1, <1>2, <1>3, <2>1, <2>2 DEF PackedIsFree
<1>. QED
  BY <1>5, <1>6, <1>8, <1>9, <1>10, <1>11 DEF RingInv, OneNote, Core

-----------------------------------------------------------------------------
(* The output task.                                                          *)

LEMMA OutputTask ==
  ASSUME RingInv, UNCHANGED <<ring, beam, next, passFrame, cop>>, newest' \in Frame,
         DOMAIN stamp' = DOMAIN stamp, DOMAIN held' = DOMAIN held, PackedIsFree',
         pack'.pc \in {"pack", "newest"} => pack'.frame \in Frame
  PROVE  RingInv'
<1>1. QueueTypes'
  BY DEF RingInv, QueueTypes, Claims, Turns, Places
<1>2. \A d \in Core: TurnInv(d)'
  BY SameTurn DEF RingInv
<1>3. OneNote' /\ PassIsNoted' /\ \A d \in Core: CopyIsNoted(d)'
  BY DEF RingInv, OneNote, PassIsNoted, CopyIsNoted, PassFrame, Noting
<1>. QED
  BY <1>1, <1>2, <1>3 DEF RingInv

(* The first frame free is one no pass has, and no note is under way.         *)
LEMMA StartPackStep ==
  ASSUME RingInv, StartPack
  PROVE  RingInv'
<1>1. /\ UNCHANGED <<ring, beam, next, newest, passFrame, cop, stamp>>
      /\ DOMAIN held' = DOMAIN held /\ newest \in Frame /\ pack'.frame \in Frame
      /\ cop[0].pc = "idle" /\ cop[1].pc \notin {"cas", "note"}
      /\ pack'.frame # newest /\ pack'.frame # passFrame[0] /\ pack'.frame # passFrame[1]
  BY DEF StartPack, FreeFrames, Prompt, queue, RingInv, QueueTypes
<1>2. PassFrame(0)' = passFrame[0] /\ PassFrame(1)' = passFrame[1]
  BY <1>1 DEF PassFrame, Noting
<1>3. PackedIsFree'
  BY <1>1, <1>2 DEF PackedIsFree, Core
<1>. QED
  BY <1>1, <1>3, OutputTask

(* A packed frame is stamped and published, and its pass noted.               *)
LEMMA OutputStep ==
  ASSUME RingInv, StampFrame \/ PublishFrame \/ NotePass
  PROVE  RingInv'
<1>1. CASE StampFrame
  <2>1. /\ UNCHANGED <<ring, beam, next, newest, passFrame, cop, held>>
        /\ DOMAIN stamp' = DOMAIN stamp /\ newest \in Frame
        /\ pack.pc = "pack" /\ pack'.frame = pack.frame /\ pack.frame \in Frame
    BY <1>1 DEF StampFrame, queue, RingInv, QueueTypes
  <2>2. PackedIsFree'
    BY <2>1 DEF PackedIsFree, RingInv, PassFrame, Noting, Notes, Rejoins
  <2>. QED
    BY <2>1, <2>2, OutputTask
<1>2. CASE PublishFrame
  <2>1. /\ UNCHANGED <<ring, beam, next, passFrame, cop, stamp, held>>
        /\ newest' = pack.frame /\ pack'.pc = "pass" /\ pack.frame \in Frame
    BY <1>2 DEF PublishFrame, slots, RingInv, QueueTypes
  <2>2. PackedIsFree'
    BY <2>1 DEF PackedIsFree
  <2>. QED
    BY <2>1, <2>2, OutputTask
<1>3. CASE NotePass
  <2>1. /\ UNCHANGED <<ring, beam, next, newest, passFrame, cop, stamp, held>>
        /\ pack'.pc = "idle" /\ newest \in Frame
    BY <1>3 DEF NotePass, queue, slots, RingInv, QueueTypes
  <2>2. PackedIsFree'
    BY <2>1 DEF PackedIsFree
  <2>. QED
    BY <2>1, <2>2, OutputTask
<1>. QED
  BY <1>1, <1>2, <1>3

-----------------------------------------------------------------------------
(* The invariant, and what follows from it.                                  *)

LEMMA RingInitially ==
  ASSUME Roomy, RingInit
  PROVE  RingInv
<1>1. /\ ring.n \in Nat /\ ring.period \in Nat \ {0} /\ ring \in Shapes
  BY ShapeFacts DEF RingInit
<1>2. beam \in Places /\ ring.n % ring.period \in Places
  BY <1>1 DEF RingInit, Places
<1>3. 0 \in Places
  BY <1>1 DEF Places
<1>4. QueueTypes
  BY <1>1, <1>2, <1>3 DEF RingInit, QueueTypes, Claims, Turns, Idle, NoClaim, Plans
<1>5. \A c \in Core: cop[c].pc = "idle"
  BY DEF RingInit, Idle
<1>6. OneNote /\ PackedIsFree
  BY <1>5 DEF OneNote, PackedIsFree, Core, RingInit
<1>7. \A c \in Core: TurnInv(c) /\ CopyIsNoted(c)
  BY <1>5 DEF TurnInv, InTime, ClaimIsTheWord, HandAhead, PlanFits, InHand, CopyIsNoted
<1>8. PassIsNoted
  <2>1. ParityIn(ring.rows, next.abs) \in 0..1
    BY <1>4, ParityFacts DEF QueueTypes, Claims
  <2>. QED
    BY <1>5, <2>1 DEF PassIsNoted, PassFrame, Noting, Core, RingInit
<1>. QED
  BY <1>4, <1>6, <1>7, <1>8 DEF RingInv

(* Every step keeps the invariant when a note follows its swap at once.       *)
LEMMA RingStep ==
  ASSUME ~Contended, Roomy, EvenPasses, RingInv, [RingNext]_ringVars
  PROVE  RingInv'
<1>1. CASE \E c \in Core: Note(c)
  BY <1>1, NoteStep
<1>2. ASSUME Quiet, BeamMoves \/ (\E c \in Core: Copier(c)) \/ Output
      PROVE  RingInv'
  <2>1. CASE BeamMoves
    BY <1>2, <2>1, BeamStep
  <2>2. ASSUME NEW c \in Core, Copier(c)
        PROVE  RingInv'
    BY <1>2, <2>2, TurnStep, LoadStep, CasStep, CopyStep DEF Copier
  <2>3. CASE Output
    BY <2>3, StartPackStep, OutputStep DEF Output
  <2>. QED
    BY <1>2, <2>1, <2>2, <2>3
<1>3. CASE UNCHANGED ringVars
  <2>1. UNCHANGED <<ring, beam, next, newest, passFrame, cop, pack, stamp, held>>
    BY <1>3 DEF ringVars
  <2>2. PackedIsFree' /\ newest \in Frame
    BY <2>1 DEF RingInv, QueueTypes, PackedIsFree, PassFrame, Noting, Notes, Rejoins
  <2>. QED
    BY <2>1, <2>2, OutputTask DEF RingInv, QueueTypes
<1>. QED
  BY <1>1, <1>2, <1>3 DEF RingNext, Quiet

(* A frame being packed is neither a copy's in hand nor that of the pass being*)
(* claimed.                                                                   *)
LEMMA RingInvSuffices ==
  ASSUME Roomy, RingInv
  PROVE  NoRepackUnderCopy
<1>. SUFFICES ASSUME NEW f \in Frame, Packing(f)
              PROVE  /\ \A c \in Core:
                          ~(cop[c].pc \in {"note", "copy"} /\ cop[c].plan = "take"
                            /\ cop[c].claim.buf = f)
                     /\ Row(next.abs) # 0 => next.buf # f
  BY DEF NoRepackUnderCopy
<1>1. \A q \in 0..1: PassFrame(q) # f
  BY DEF RingInv, PackedIsFree, Packing
<1>2. \A c \in Core: ParityIn(ring.rows, cop[c].claim.abs) \in 0..1
  BY ParityFacts, TurnFacts DEF RingInv, Places
<1>3. ParityIn(ring.rows, next.abs) \in 0..1
  BY ParityFacts DEF RingInv, QueueTypes, Claims
<1>4. Row(next.abs) = RowIn(ring.rows, next.abs)
  BY InTermsOfTheRing
<1>. QED
  BY <1>1, <1>2, <1>3, <1>4 DEF RingInv, CopyIsNoted, PassIsNoted

(* The invariant of the claim queue, when the note of a pass follows its claim*)
(* at once, periods have an even number of passes, and turns are short.       *)
THEOREM RingInvariant ==
  ~Contended /\ EvenPasses /\ Roomy => (RingSpec => []RingInv)
<1>. SUFFICES ASSUME ~Contended, EvenPasses, Roomy
              PROVE  RingSpec => []RingInv
  OBVIOUS
<1>1. RingInit => RingInv
  BY RingInitially
<1>2. RingInv /\ [RingNext]_ringVars => RingInv'
  BY RingStep
<1>. QED
  BY <1>1, <1>2, PTL DEF RingSpec

(* The output task never packs into a frame that a copy of either core reads, *)
(* or that the rest of the pass being claimed will be copied from: the SAFETY *)
(* argument of copy_claim and pack_frame.                                     *)
THEOREM NoFrameRepacked ==
  ~Contended /\ EvenPasses /\ Roomy => (RingSpec => []NoRepackUnderCopy)
<1>. SUFFICES ASSUME ~Contended, EvenPasses, Roomy
              PROVE  RingSpec => []NoRepackUnderCopy
  OBVIOUS
<1>1. RingSpec => []RingInv
  BY RingInvariant
<1>2. RingInv => NoRepackUnderCopy
  BY RingInvSuffices
<1>. QED
  BY <1>1, <1>2, PTL

(* A slot is stamped by the copy that fills it, and both lose a frame's       *)
(* content when that frame is packed anew.                                    *)
LEMMA ReuseStep ==
  ASSUME Roomy, RingInv, NoRepackUnderCopy, ReuseIsExact, [RingNext]_ringVars
  PROVE  ReuseIsExact'
<1>1. CASE UNCHANGED <<pack, stamp, held>>
  BY <1>1 DEF ReuseIsExact, Packing
<1>2. ASSUME NEW c \in Core, Copy(c)
      PROVE  ReuseIsExact'
  <2>. DEFINE f == cop[c].claim.buf
              k == Slot(cop[c].claim.abs)
  <2>1. /\ UNCHANGED pack /\ cop[c].plan = "take" /\ cop[c].pc = "copy"
        /\ held' = [held EXCEPT ![k] = IF Full /\ ~Packing(f) THEN f ELSE None]
        /\ stamp' = [stamp EXCEPT ![k] = IF Full THEN f ELSE None]
        /\ f \in Frame \cup {None} /\ DOMAIN stamp = DOMAIN held
    BY <1>2, TurnFacts DEF Copy, packer, RingInv, TurnInv, PlanFits, QueueTypes, Claims
  <2>2. f \in Frame => ~Packing(f)
    BY <2>1 DEF NoRepackUnderCopy
  <2>. HIDE DEF f, k
  <2>. SUFFICES ASSUME NEW j \in DOMAIN stamp, stamp'[j] # None, ~Packing(stamp'[j])
                PROVE  held'[j] = stamp'[j]
    BY <2>1 DEF ReuseIsExact, Packing
  <2>. QED
    BY <2>1, <2>2 DEF ReuseIsExact
<1>3. CASE StartPack
  <2>1. PICK f \in FreeFrames:
          /\ pack' = [pc |-> "pack", frame |-> f]
          /\ held' = [k \in DOMAIN held |-> IF held[k] = f THEN None ELSE held[k]]
    BY <1>3 DEF StartPack
  <2>2. UNCHANGED stamp /\ pack.pc = "idle" /\ DOMAIN stamp = DOMAIN held
    BY <1>3 DEF StartPack, RingInv, QueueTypes
  <2>. QED
    BY <2>1, <2>2 DEF ReuseIsExact, Packing
<1>4. CASE StampFrame
  BY <1>4 DEF StampFrame, ReuseIsExact, Packing
<1>5. CASE PublishFrame
  BY <1>5 DEF PublishFrame, slots, ReuseIsExact, Packing
<1>6. CASE NotePass
  BY <1>6 DEF NotePass, slots, ReuseIsExact, Packing
<1>. QED
  BY <1>1, <1>2, <1>3, <1>4, <1>5, <1>6
     DEF RingNext, Note, BeamMoves, Copier, Turn, Load, Cas, Output, packer, slots, ringVars

(* A slot whose stamp is the generation of a frame holds that frame's row     *)
(* pair, so skipping its copy changes nothing on the panel.                   *)
THEOREM ReuseShowsTheFrame ==
  ~Contended /\ EvenPasses /\ Roomy => (RingSpec => []ReuseIsExact)
<1>. SUFFICES ASSUME ~Contended, EvenPasses, Roomy
              PROVE  RingSpec => []ReuseIsExact
  OBVIOUS
<1>1. RingSpec => []RingInv
  BY RingInvariant
<1>2. RingInv => NoRepackUnderCopy
  BY RingInvSuffices
<1>3. RingInit => ReuseIsExact
  BY DEF RingInit, ReuseIsExact
<1>4. RingInv /\ NoRepackUnderCopy /\ ReuseIsExact /\ [RingNext]_ringVars => ReuseIsExact'
  BY ReuseStep
<1>. QED
  BY <1>1, <1>2, <1>3, <1>4, PTL DEF RingSpec

-----------------------------------------------------------------------------
(* The watchdog gate for all periods, moduli and bursts the assumption       *)
(* admits: only a render loop that stands still, or a dead executor, resets  *)
(* the board, and a loop that stands still does.                             *)

(* Seconds of the running period in which the task was not overdue.          *)
Punctual == Tick - due

(* The ProCpu's clock since the task's last turn, and the clock between the  *)
(* turn that took the gate's heartbeat and that last turn.                   *)
Elapsed == wrapping_sub(now, gate.tick_ms)
Held == wrapping_sub(gate.tick_ms, gate.beat_ms)

(* Stamps since the task's last turn, as far as the wrapped counter tells.   *)
Stamps == IF heart >= gate.beat THEN heart - gate.beat ELSE heart - gate.beat + BeatWrap

WatchTypes ==
  /\ now \in 0..(Wrap - 1) /\ heart \in 0..(BeatWrap - 1)
  /\ gate \in [armed: BOOLEAN, beat: 0..(BeatWrap - 1), beat_ms: 0..(Wrap - 1),
               tick_ms: 0..(Wrap - 1), blocked_ms: Nat, tripped: BOOLEAN]
  /\ stalled \in BOOLEAN /\ wedged \in BOOLEAN /\ dead \in BOOLEAN
  /\ due \in 0..Tick /\ burst \in 0..MaxBurst
  /\ rwdt \in 0..Watchdog /\ frozen \in Nat

(* The clock between two turns: a period in time, then the rest of a burst.  *)
Overdue(seconds) == Tick + seconds
ClockInv ==
  /\ due > 0 => Elapsed = Punctual
  /\ due = 0 => /\ Elapsed <= Overdue(MaxBurst)
                /\ gate.armed => Elapsed >= Tick
                /\ burst > 0 => Elapsed <= Overdue(burst)

(* Before the first stamp that a turn sees.                                  *)
UnarmedInv == ~gate.armed => /\ gate.blocked_ms = 0 /\ heart <= Punctual
                             /\ IF heart = 0 THEN frozen = 0 ELSE frozen <= Punctual

(* While armed, `k` whole periods since the gate's heartbeat: the clock of   *)
(* those periods less the credit is their time not overdue.                  *)
Periods(k) ==
  /\ Held - gate.blocked_ms = k * Tick
  /\ Held <= k * (Tick + MaxBurst)
  /\ k * Tick < Limit
  /\ Stamps <= Punctual
  /\ IF Stamps = 0
       THEN frozen \in (k * Tick + Punctual)..(k * Tick + Punctual + Tick)
       ELSE frozen <= Punctual
ArmedInv == gate.armed => \E k \in 0..Limit: Periods(k)

(* The feeding of the RTC watchdog while the gate has not tripped, and after.*)
FeedInv ==
  /\ stalled = gate.tripped
  /\ ~stalled /\ ~dead => rwdt <= Punctual
  /\ stalled => frozen <= Limit + 2 * Tick + rwdt

WatchInv ==
  /\ WatchTypes
  /\ ~dead /\ ~gate.tripped => ClockInv /\ UnarmedInv /\ ArmedInv
  /\ FeedInv
  /\ gate.tripped => wedged
  /\ frozen >= Limit => wedged
  /\ dead /\ ~gate.tripped => WedgeIsReset

LEMMA Product == ASSUME NEW a \in Nat, NEW b \in Nat, NEW c \in Nat, a <= b
                 PROVE  a * c <= b * c /\ a * c \in Nat /\ b * c \in Nat
  OBVIOUS

LEMMA Periodic ==
  /\ Tick \in Nat \ {0} /\ Limit \in Nat \ {0} /\ Watchdog \in Nat \ {0}
  /\ MaxBurst \in Nat \ {0} /\ Wrap \in Nat \ {0} /\ BeatWrap \in Nat \ {0}
  /\ Limit + Tick < Watchdog /\ BeatWrap > Tick + 1
  /\ Wrap > Tick + MaxBurst + 1
<1>1. /\ Tick \in Nat \ {0} /\ Limit \in Nat \ {0} /\ Watchdog \in Nat \ {0}
      /\ MaxBurst \in Nat \ {0} /\ Wrap \in Nat \ {0} /\ BeatWrap \in Nat \ {0}
      /\ Limit + Tick < Watchdog /\ BeatWrap > Tick + 1
      /\ Wrap > (Limit \div Tick + 3) * (Tick + MaxBurst)
  BY WatchAssumption
<1>2. Limit \div Tick \in Nat
  BY <1>1
<1>3. 3 * (Tick + MaxBurst) <= (Limit \div Tick + 3) * (Tick + MaxBurst)
  BY <1>1, <1>2, Product
<1> QED BY <1>1, <1>2, <1>3

LEMMA PeriodsFit ==
  ASSUME NEW k \in Nat, k * Tick < Limit
  PROVE  (k + 1) * (Tick + MaxBurst) < Wrap
<1> DEFINE n == Limit \div Tick
<1>1. n \in Nat /\ Limit < (n + 1) * Tick
  BY Periodic
<1>2. k <= n
  <2>1. SUFFICES ASSUME k >= n + 1 PROVE FALSE
    BY <1>1
  <2>2. (n + 1) * Tick <= k * Tick
    BY <1>1, <2>1, Periodic, Product
  <2> QED BY <1>1, <2>2, Periodic
<1> HIDE DEF n
<1>3. (k + 1) * (Tick + MaxBurst) <= (n + 3) * (Tick + MaxBurst)
  BY <1>1, <1>2, Periodic, Product
<1>4. Wrap > (n + 3) * (Tick + MaxBurst)
  BY WatchAssumption DEF n
<1> QED BY <1>1, <1>3, <1>4, Periodic

(* Arithmetic modulo m of numbers that wrap at most once.                    *)
LEMMA Subtracts ==
  ASSUME NEW a \in 0..(Wrap - 1), NEW b \in 0..(Wrap - 1)
  PROVE  /\ wrapping_sub(a, b) = IF a >= b THEN a - b ELSE a - b + Wrap
         /\ wrapping_sub(a, b) \in 0..(Wrap - 1)
<1>1. Wrap \in Nat \ {0}
  BY Periodic
<1> QED BY <1>1 DEF wrapping_sub

LEMMA Advances ==
  ASSUME NEW m \in Nat \ {0}, NEW a \in 0..(m - 1)
  PROVE  /\ (a + 1) % m = IF a + 1 = m THEN 0 ELSE a + 1
         /\ (a + 1) % m \in 0..(m - 1)
  OBVIOUS

(* A second on the clock is a second of a difference that does not wrap, and *)
(* differences that together do not wrap add up.                             *)
LEMMA ClockRuns ==
  ASSUME NEW a \in 0..(Wrap - 1), NEW b \in 0..(Wrap - 1), wrapping_sub(a, b) + 1 < Wrap
  PROVE  wrapping_sub((a + 1) % Wrap, b) = wrapping_sub(a, b) + 1
<1> DEFINE d == (a + 1) % Wrap
<1>1. Wrap \in Nat \ {0}
  BY Periodic
<1>2. d = (IF a + 1 = Wrap THEN 0 ELSE a + 1) /\ d \in 0..(Wrap - 1)
  BY <1>1
<1> HIDE DEF d
<1>3. wrapping_sub(d, b) = IF d >= b THEN d - b ELSE d - b + Wrap
  BY <1>2, Subtracts
<1>4. wrapping_sub(a, b) = IF a >= b THEN a - b ELSE a - b + Wrap
  BY Subtracts
<1>5. wrapping_sub(d, b) = wrapping_sub(a, b) + 1
  BY <1>1, <1>2, <1>3, <1>4
<1> QED BY <1>5 DEF d

LEMMA ClockAdds ==
  ASSUME NEW a \in 0..(Wrap - 1), NEW b \in 0..(Wrap - 1), NEW c \in 0..(Wrap - 1),
         wrapping_sub(a, b) + wrapping_sub(b, c) < Wrap
  PROVE  wrapping_sub(a, c) = wrapping_sub(a, b) + wrapping_sub(b, c)
<1>1. Wrap \in Nat \ {0}
  BY Periodic
<1>2. /\ wrapping_sub(a, b) = IF a >= b THEN a - b ELSE a - b + Wrap
      /\ wrapping_sub(b, c) = IF b >= c THEN b - c ELSE b - c + Wrap
      /\ wrapping_sub(a, c) = IF a >= c THEN a - c ELSE a - c + Wrap
  BY Subtracts
<1> QED BY <1>1, <1>2

(* The bound on a heartbeat that stands still, from where the gate is.       *)
LEMMA FrozenBounded ==
  ASSUME WatchInv PROVE WedgeIsReset
<1> USE DEF WatchInv
<1>0. CASE dead /\ ~gate.tripped
  BY <1>0
<1>1. /\ Tick \in Nat \ {0} /\ Limit \in Nat \ {0} /\ Watchdog \in Nat \ {0}
  BY Periodic
<1>2. CASE gate.tripped
  BY <1>1, <1>2 DEF WatchTypes, FeedInv, WedgeIsReset
<1>3. CASE ~dead /\ ~gate.tripped /\ ~gate.armed
  BY <1>1, <1>3 DEF WatchTypes, UnarmedInv, Punctual, WedgeIsReset
<1>4. CASE ~dead /\ ~gate.tripped /\ gate.armed
  <2>1. PICK k \in 0..Limit: Periods(k)
    BY <1>4 DEF ArmedInv
  <2> DEFINE t == k * Tick
  <2>2. t \in Nat
    BY <1>1, <2>1
  <2>3. /\ t < Limit /\ Punctual \in 0..Tick
        /\ frozen \in (t + Punctual)..(t + Punctual + Tick) \/ frozen <= Punctual
    BY <1>1, <2>1 DEF Periods, Punctual, WatchTypes
  <2> HIDE DEF t
  <2> QED BY <1>1, <2>2, <2>3 DEF WatchTypes, WedgeIsReset
<1> QED BY <1>0, <1>2, <1>3, <1>4

LEMMA WatchInitially == ASSUME WatchInit PROVE WatchInv
<1> USE DEF WatchInit, New
<1>0. /\ Tick \in Nat \ {0} /\ Limit \in Nat \ {0} /\ Watchdog \in Nat \ {0}
      /\ MaxBurst \in Nat \ {0} /\ Wrap \in Nat \ {0} /\ BeatWrap \in Nat \ {0}
  BY Periodic
<1>1. WatchTypes
  <2>1. 0 \in 0..(Wrap - 1) /\ 0 \in 0..(BeatWrap - 1) /\ 0 \in 0..Tick
        /\ 0 \in 0..MaxBurst /\ 0 \in 0..Watchdog /\ 0 \in Nat
    BY <1>0
  <2> QED BY <2>1 DEF WatchTypes
<1>2. Elapsed = 0
  <2>1. now = 0 /\ gate.tick_ms = 0 /\ 0 \in 0..(Wrap - 1)
    BY <1>0
  <2> QED BY <2>1, Subtracts DEF Elapsed
<1>3. ClockInv /\ UnarmedInv /\ ArmedInv /\ FeedInv /\ WedgeIsReset
  <2>1. Punctual = Tick
    BY <1>0 DEF Punctual
  <2>0. gate.armed = FALSE /\ gate.blocked_ms = 0 /\ due = 0 /\ burst = 0
        /\ heart = 0 /\ frozen = 0 /\ rwdt = 0 /\ ~stalled /\ ~gate.tripped
        /\ stalled = gate.tripped
    OBVIOUS
  <2> HIDE DEF WatchInit, New
  <2>2. ClockInv /\ UnarmedInv /\ ArmedInv
    BY <1>0, <1>2, <2>0, <2>1 DEF ClockInv, Overdue, UnarmedInv, ArmedInv
  <2>3. FeedInv /\ WedgeIsReset
    BY <1>0, <2>0, <2>1 DEF FeedInv, WedgeIsReset
  <2> QED BY <2>2, <2>3
<1>4. gate.tripped = FALSE /\ frozen < Limit
  BY <1>0
<1> QED BY <1>0, <1>1, <1>3, <1>4 DEF WatchInv

(***************************************************************************)
(* A second passes                                                         *)
(***************************************************************************)
(* What any second does, whoever ran in it.                                  *)
LEMMA PassTypes ==
  ASSUME WatchInv, NEW stamped \in BOOLEAN, NEW overdue \in BOOLEAN,
         NEW fed \in {rwdt, Fed}, Second(stamped, overdue, fed),
         dead' \in BOOLEAN, burst' \in 0..MaxBurst
  PROVE  /\ WatchTypes'
         /\ (stalled = gate.tripped)'
         /\ (stalled => frozen <= Limit + 2 * Tick + rwdt)'
         /\ (gate.tripped => wedged)' /\ (frozen >= Limit => wedged)'
<1> USE DEF WatchInv
<1>0. /\ Tick \in Nat \ {0} /\ Limit \in Nat \ {0} /\ Watchdog \in Nat \ {0}
      /\ MaxBurst \in Nat \ {0} /\ Wrap \in Nat \ {0} /\ BeatWrap \in Nat \ {0}
  BY Periodic
<1>1. /\ rwdt < Watchdog /\ rwdt \in Nat /\ fed \in 0..rwdt
      /\ gate' = gate /\ stalled' = stalled /\ rwdt' = fed + 1
      /\ frozen' \in Nat /\ frozen' <= frozen + 1
      /\ wedged' = (wedged \/ frozen' >= Limit)
  BY <1>0 DEF Second, WatchTypes, Fed
<1>2. WatchTypes'
  <2>1. now' \in 0..(Wrap - 1)
    BY <1>0 DEF Second, WatchTypes
  <2>2. heart' \in 0..(BeatWrap - 1)
    BY <1>0 DEF Second, WatchTypes
  <2>3. due' \in 0..Tick
    BY <1>0 DEF Second, WatchTypes, saturating_sub
  <2>4. wedged' \in BOOLEAN
    <3>1. (wedged \/ frozen' >= Limit) \in BOOLEAN
      OBVIOUS
    <3> QED BY <1>1, <3>1
  <2>5. rwdt' \in 0..Watchdog
    BY <1>0, <1>1
  <2> QED BY <1>1, <2>1, <2>2, <2>3, <2>4, <2>5 DEF WatchTypes
<1>3. stalled => fed = rwdt
  BY DEF Fed
<1>4. (stalled = gate.tripped)' /\ (stalled => frozen <= Limit + 2 * Tick + rwdt)'
  BY <1>0, <1>1, <1>3 DEF FeedInv, WatchTypes
<1>5. (gate.tripped => wedged)' /\ (frozen >= Limit => wedged)'
  BY <1>1
<1> QED BY <1>2, <1>4, <1>5

(* A second in which the executor is alive: free, yielding or in a burst.    *)
LEMMA AliveSecond ==
  ASSUME WatchInv, ~dead, dead' = dead, burst' \in 0..MaxBurst,
         NEW stamped \in BOOLEAN, NEW fed \in {rwdt, Fed}, Second(stamped, due = 0, fed),
         stamped => due > 0, due > 0 \/ burst > 0,
         due = 0 => burst' = burst + 1 /\ fed = Fed
  PROVE  WatchInv'
<1>0. /\ Tick \in Nat \ {0} /\ Limit \in Nat \ {0} /\ MaxBurst \in Nat \ {0}
      /\ BeatWrap \in Nat \ {0} /\ BeatWrap > Tick + 1
      /\ Wrap \in Nat \ {0} /\ Wrap > Tick + MaxBurst + 1
  BY Periodic
<1>1. /\ WatchTypes'
      /\ (stalled = gate.tripped)'
      /\ (stalled => frozen <= Limit + 2 * Tick + rwdt)'
      /\ (gate.tripped => wedged)' /\ (frozen >= Limit => wedged)'
  <2>1. (due = 0) \in BOOLEAN /\ dead' \in BOOLEAN
    BY DEF WatchInv, WatchTypes
  <2> QED BY <2>1, PassTypes
<1>2. /\ gate' = gate /\ due' = (IF due > 0 THEN due - 1 ELSE 0) /\ due \in 0..Tick
      /\ due' \in 0..Tick
      /\ Punctual' = (IF due > 0 THEN Punctual + 1 ELSE Punctual)
      /\ Punctual \in 0..Tick /\ Punctual' \in 0..Tick
      /\ burst \in 0..MaxBurst /\ frozen \in Nat
  BY <1>0 DEF WatchInv, WatchTypes, Second, saturating_sub, Punctual
<1>3. FeedInv'
  <2>1. rwdt' = fed + 1 /\ stalled' = stalled /\ rwdt \in Nat
    BY DEF Second, WatchInv, WatchTypes
  <2>2. ~stalled => fed \in {rwdt, 0} /\ (due = 0 => fed = 0)
    BY DEF Fed
  <2>3. ~stalled => rwdt' <= Punctual'
    BY <1>0, <1>2, <2>1, <2>2 DEF WatchInv, FeedInv, Punctual
  <2> QED BY <1>1, <2>1, <2>3 DEF FeedInv
<1>4. ASSUME ~gate.tripped PROVE ClockInv' /\ UnarmedInv' /\ ArmedInv'
  <2>0. ClockInv /\ UnarmedInv /\ ArmedInv
    BY <1>4 DEF WatchInv
  <2>1. ClockInv'
    <3>1. Elapsed + 1 < Wrap /\ Elapsed \in Nat
      <4>1. Elapsed \in 0..(Wrap - 1)
        BY Subtracts DEF Elapsed, WatchInv, WatchTypes
      <4> QED BY <1>0, <1>2, <2>0, <4>1 DEF ClockInv, Overdue
    <3>2. Elapsed' = Elapsed + 1
      BY <1>2, <3>1, ClockRuns DEF Elapsed, WatchInv, WatchTypes, Second
    <3>3. PICK b \in 0..MaxBurst: b = burst'
      OBVIOUS
    <3>4. gate'.armed = gate.armed
      BY <1>2
    <3>5. CASE due > 0
      <4>1. Elapsed' = Punctual + 1 /\ Punctual' = Punctual + 1 /\ Punctual' = Tick - due'
        BY <1>2, <2>0, <3>2, <3>5 DEF ClockInv, Punctual
      <4>2. Elapsed' = Punctual' /\ (due' = 0 => Elapsed' = Tick)
        BY <1>0, <1>2, <4>1
      <4>3. Tick <= Overdue(MaxBurst) /\ Tick <= Overdue(b) /\ Tick >= Tick
        BY <1>0 DEF Overdue
      <4> QED BY <3>3, <4>2, <4>3 DEF ClockInv
    <3>6. CASE due = 0
      <4>1. burst > 0 /\ Elapsed <= Overdue(burst) /\ b = burst + 1
            /\ (gate.armed => Elapsed >= Tick)
        BY <2>0, <3>3, <3>6 DEF ClockInv
      <4>2. due' = 0 /\ Elapsed' <= Overdue(b) /\ (gate.armed => Elapsed' >= Tick)
            /\ Elapsed' <= Overdue(MaxBurst)
        BY <1>0, <1>2, <3>1, <3>2, <3>6, <4>1 DEF Overdue
      <4>3. ~(due' > 0)
        BY <4>2
      <4> QED BY <3>3, <3>4, <4>2, <4>3 DEF ClockInv
    <3> QED BY <1>2, <3>5, <3>6
  <2>2. /\ heart \in 0..(BeatWrap - 1)
        /\ stamped => heart' = (IF heart + 1 = BeatWrap THEN 0 ELSE heart + 1) /\ frozen' = 0
        /\ ~stamped => heart' = heart
        /\ ~stamped => frozen' = IF due = 0 \/ (heart = 0 /\ ~gate.armed)
                                 THEN frozen ELSE frozen + 1
    BY <1>0, Advances DEF Second, WatchInv, WatchTypes
  <2>3. UnarmedInv'
    <3> SUFFICES ASSUME ~gate.armed PROVE UnarmedInv'
      BY <1>2 DEF UnarmedInv
    <3>1. /\ gate.blocked_ms = 0 /\ heart <= Punctual
          /\ IF heart = 0 THEN frozen = 0 ELSE frozen <= Punctual
      BY <2>0 DEF UnarmedInv
    <3>2. CASE stamped
      BY <1>0, <1>2, <2>2, <3>1, <3>2 DEF UnarmedInv, Punctual
    <3>3. CASE ~stamped
      BY <1>0, <1>2, <2>2, <3>1, <3>3 DEF UnarmedInv
    <3> QED BY <3>2, <3>3
  <2>4. ArmedInv'
    <3> SUFFICES ASSUME gate.armed PROVE \E k \in 0..Limit: Periods(k)'
      BY <1>2 DEF ArmedInv
    <3>1. PICK k \in 0..Limit: Periods(k)
      BY <2>0 DEF ArmedInv
    <3> DEFINE t == k * Tick
    <3>2. t \in Nat
      BY <1>0, <3>1
    <3>3. Held' = Held
      BY <1>2 DEF Held
    <3>4. gate.beat \in 0..(BeatWrap - 1)
      BY DEF WatchInv, WatchTypes
    <3>5. /\ Stamps' <= Punctual'
          /\ IF Stamps' = 0 THEN frozen' \in (t + Punctual')..(t + Punctual' + Tick)
                            ELSE frozen' <= Punctual'
      <4>1. /\ Stamps <= Punctual
            /\ IF Stamps = 0 THEN frozen \in (t + Punctual)..(t + Punctual + Tick)
                             ELSE frozen <= Punctual
        BY <3>1 DEF Periods
      <4> HIDE DEF t
      <4>2. CASE stamped
        <5>1. due > 0 /\ Punctual' = Punctual + 1 /\ Punctual' <= Tick
          BY <1>2, <4>2
        <5>2. Stamps' = Stamps + 1 /\ Stamps \in Nat
          BY <1>0, <1>2, <2>2, <3>4, <4>1, <4>2, <5>1 DEF Stamps
        <5> QED BY <1>0, <1>2, <2>2, <4>1, <4>2, <5>1, <5>2
      <4>3. CASE ~stamped
        <5>1. Stamps' = Stamps /\ Stamps \in Int
          BY <1>0, <1>2, <2>2, <3>4, <4>3 DEF Stamps
        <5> QED BY <1>0, <1>2, <2>2, <3>2, <4>1, <4>3, <5>1
      <4> QED BY <4>2, <4>3
    <3> QED BY <1>2, <3>1, <3>3, <3>5 DEF Periods
  <2> QED BY <2>1, <2>3, <2>4
<1> QED BY <1>1, <1>2, <1>3, <1>4 DEF WatchInv

(***************************************************************************)
(* A turn of the watchdog task.  While the heartbeat stands still and the  *)
(* gate is armed, the age it computes over the wrapping clock is the whole *)
(* periods since the gate's heartbeat: a burst is credited in full.        *)
(***************************************************************************)
LEMMA AgeIsPeriods ==
  ASSUME WatchInv, TaskTurn, gate.armed, ~gate.tripped,
         NEW k \in 0..Limit, Periods(k)
  PROVE  /\ Credit = gate.blocked_ms + (Elapsed - Tick) /\ Credit \in Nat
         /\ StoodStill = (k + 1) * Tick
         /\ wrapping_sub(now, gate.beat_ms) - Credit = (k + 1) * Tick
         /\ wrapping_sub(now, gate.beat_ms) <= (k + 1) * (Tick + MaxBurst)
         /\ (k + 1) * Tick = k * Tick + Tick /\ k * Tick \in Nat
<1> DEFINE t == k * Tick
           w == k * (Tick + MaxBurst)
<1>0. Tick \in Nat \ {0} /\ MaxBurst \in Nat \ {0} /\ Wrap \in Nat \ {0} /\ k \in Nat
  BY Periodic
<1>1. /\ t \in Nat /\ w \in Nat
      /\ (k + 1) * Tick = t + Tick /\ (k + 1) * (Tick + MaxBurst) = w + (Tick + MaxBurst)
  BY <1>0
<1>2. w + (Tick + MaxBurst) < Wrap
  BY <1>1, PeriodsFit DEF Periods
<1>3. /\ Elapsed >= Tick /\ Elapsed <= Tick + MaxBurst
      /\ Held - gate.blocked_ms = t /\ Held <= w
  BY DEF WatchInv, ClockInv, Overdue, TaskTurn, Periods
<1>4. /\ now \in 0..(Wrap - 1) /\ gate.tick_ms \in 0..(Wrap - 1)
      /\ gate.beat_ms \in 0..(Wrap - 1) /\ gate.blocked_ms \in Nat
  BY DEF WatchInv, WatchTypes
<1>5. Elapsed \in 0..(Wrap - 1) /\ Held \in 0..(Wrap - 1)
  BY <1>4, Subtracts DEF Elapsed, Held
<1> HIDE DEF t, w
<1>6. Elapsed + Held < Wrap
  BY <1>0, <1>1, <1>2, <1>3, <1>5
<1>7. wrapping_sub(now, gate.beat_ms) = Elapsed + Held
  BY <1>4, <1>6, ClockAdds DEF Elapsed, Held
<1>8. Credit = gate.blocked_ms + (Elapsed - Tick)
  BY <1>0, <1>3, <1>5 DEF Credit, Elapsed, saturating_sub
<1>9. /\ Credit \in Nat /\ Elapsed + Held \in Nat
      /\ Elapsed + Held - Credit = t + Tick
      /\ Elapsed + Held <= w + (Tick + MaxBurst)
  <2>1. PICK b \in Nat: b = gate.blocked_ms
    BY <1>4
  <2>2. Held - b = t /\ Credit = b + (Elapsed - Tick)
    BY <1>3, <1>8, <2>1
  <2>3. Elapsed \in Nat /\ Held \in Nat
    BY <1>0, <1>5
  <2> QED BY <1>0, <1>1, <1>3, <2>2, <2>3
<1>10. StoodStill = t + Tick
  <2>1. Elapsed + Held > Credit
    BY <1>0, <1>1, <1>5, <1>9
  <2> QED BY <1>5, <1>7, <1>9, <2>1 DEF StoodStill, saturating_sub
<1>11. /\ wrapping_sub(now, gate.beat_ms) - Credit = (k + 1) * Tick
       /\ wrapping_sub(now, gate.beat_ms) <= (k + 1) * (Tick + MaxBurst)
       /\ StoodStill = (k + 1) * Tick
  BY <1>0, <1>1, <1>5, <1>7, <1>9, <1>10
<1>12. (k + 1) * Tick = k * Tick + Tick /\ k * Tick \in Nat
  BY <1>1 DEF t
<1> QED BY <1>8, <1>9, <1>11, <1>12

LEMMA TaskTurnStep == ASSUME WatchInv, TaskTurn PROVE WatchInv'
<1>0. /\ Tick \in Nat \ {0} /\ Limit \in Nat \ {0} /\ MaxBurst \in Nat \ {0}
      /\ BeatWrap \in Nat \ {0} /\ Wrap \in Nat \ {0} /\ Watchdog \in Nat \ {0}
  BY Periodic
<1>1. /\ WatchTypes /\ due = 0 /\ due' = Tick /\ ~dead /\ dead' = dead
      /\ Punctual = Tick /\ Punctual' = 0
      /\ UNCHANGED <<now, heart, burst, frozen, wedged>>
      /\ gate' = Judged
      /\ IF Judged.tripped THEN stalled' = TRUE /\ rwdt' = rwdt
                           ELSE rwdt' = Fed /\ stalled' = stalled
  BY <1>0 DEF WatchInv, WatchTypes, TaskTurn, Punctual
<1> DEFINE Now == [gate EXCEPT !.tick_ms = now]
           HasMoved == [Now EXCEPT !.beat = heart, !.beat_ms = now]
<1>2. Elapsed' = 0 => ClockInv'
  BY <1>0, <1>1 DEF ClockInv
<1>3. ASSUME gate'.tick_ms = now PROVE Elapsed' = 0
  BY <1>0, <1>1, <1>3, Subtracts DEF Elapsed, WatchTypes
<1>4. ASSUME gate'.tick_ms = now, gate'.beat_ms = now PROVE Held' = 0
  BY <1>0, <1>1, <1>4, Subtracts DEF Held, WatchTypes
<1>5. ASSUME gate' \in [armed: BOOLEAN, beat: 0..(BeatWrap - 1), beat_ms: 0..(Wrap - 1),
                        tick_ms: 0..(Wrap - 1), blocked_ms: Nat, tripped: BOOLEAN]
      PROVE  WatchTypes'
  <2>1. stalled' \in BOOLEAN /\ rwdt' \in 0..Watchdog /\ due' \in 0..Tick
    <3>1. stalled' \in {TRUE, stalled} /\ rwdt' \in {rwdt, 0} /\ due' = Tick
      BY <1>1 DEF Fed
    <3>2. stalled \in BOOLEAN /\ rwdt \in 0..Watchdog
      BY <1>1 DEF WatchTypes
    <3>3. stalled' \in BOOLEAN
      BY <3>1, <3>2, Zenon
    <3> QED BY <1>0, <3>1, <3>2, <3>3
  <2> QED BY <1>1, <1>5, <2>1 DEF WatchTypes
<1>6. CASE gate.tripped
  <2>1. gate' = Now
    BY <1>1, <1>6 DEF Judged
  <2>2. gate'.tripped /\ WatchTypes'
    BY <1>1, <1>5, <1>6, <2>1 DEF WatchTypes
  <2>3. stalled' = TRUE /\ rwdt' = rwdt /\ gate'.tripped = TRUE /\ wedged /\ stalled = TRUE
    BY <1>1, <1>6, <2>1 DEF WatchInv, FeedInv, WatchTypes
  <2>4. FeedInv'
    BY <1>1, <2>3 DEF WatchInv, FeedInv
  <2> QED BY <1>1, <2>2, <2>3, <2>4 DEF WatchInv
<1>7. CASE ~gate.tripped /\ (~gate.armed \/ heart # gate.beat)
  <2>1. \/ ~gate.armed /\ heart = 0 /\ gate' = Now
        \/ ~gate.armed /\ heart # 0 /\ gate' = [HasMoved EXCEPT !.armed = TRUE]
        \/ gate.armed /\ heart # gate.beat /\ gate' = [HasMoved EXCEPT !.blocked_ms = 0]
    BY <1>1, <1>7 DEF Judged
  <2>2. /\ WatchTypes' /\ gate'.tick_ms = now /\ gate'.tripped = FALSE
    <3>1. gate' \in [armed: BOOLEAN, beat: 0..(BeatWrap - 1), beat_ms: 0..(Wrap - 1),
                     tick_ms: 0..(Wrap - 1), blocked_ms: Nat, tripped: BOOLEAN]
          /\ gate'.tick_ms = now /\ gate'.tripped = FALSE
      <4>1. gate.tripped = FALSE
        BY <1>1, <1>7 DEF WatchTypes
      <4>2. CASE gate' = Now
        BY <1>1, <4>1, <4>2 DEF WatchTypes
      <4>3. CASE gate' = [HasMoved EXCEPT !.armed = TRUE]
        BY <1>1, <4>1, <4>3 DEF WatchTypes
      <4>4. CASE gate' = [HasMoved EXCEPT !.blocked_ms = 0]
        <5>1. gate' = [armed |-> gate.armed, beat |-> heart, beat_ms |-> now,
                       tick_ms |-> now, blocked_ms |-> 0, tripped |-> FALSE]
          BY <1>1, <4>1, <4>4 DEF WatchTypes
        <5> QED BY <1>1, <5>1 DEF WatchTypes
      <4> QED BY <2>1, <4>2, <4>3, <4>4
    <3> QED BY <3>1, <1>5
  <2>3. stalled = FALSE /\ stalled' = FALSE /\ rwdt' = 0
    BY <1>1, <1>7, <2>2 DEF WatchInv, WatchTypes, FeedInv, Fed
  <2>4. FeedInv'
    <3>1. rwdt' = 0 /\ Punctual' = 0 /\ stalled' = FALSE /\ gate'.tripped = FALSE
      BY <1>1, <2>2, <2>3
    <3>2. (stalled = gate.tripped)'
      BY <3>1
    <3>3. rwdt' <= Punctual'
      BY <3>1
    <3>4. (stalled => frozen <= Limit + 2 * Tick + rwdt)'
      BY <3>1
    <3> QED BY <3>2, <3>3, <3>4 DEF FeedInv
  <2>5. UnarmedInv /\ ArmedInv
    BY <1>1, <1>7 DEF WatchInv
  <2>6. UnarmedInv' /\ ArmedInv'
    <3>1. CASE ~gate.armed /\ heart = 0
      <4>1. gate'.armed = gate.armed /\ gate'.blocked_ms = gate.blocked_ms
        BY <1>1, <2>1, <3>1 DEF WatchTypes
      <4> QED BY <1>1, <2>5, <3>1, <4>1 DEF UnarmedInv, ArmedInv
    <3>2. CASE ~(~gate.armed /\ heart = 0)
      <4>1. /\ gate'.armed = TRUE /\ gate'.blocked_ms = 0 /\ gate'.beat = heart
            /\ gate'.beat_ms = now
        BY <1>1, <2>1, <2>5, <3>2 DEF WatchTypes, UnarmedInv
      <4>2. Held' = 0 /\ Stamps' = 0
        BY <1>0, <1>1, <1>4, <2>2, <4>1 DEF Stamps, WatchTypes
      <4>3. frozen \in 0..Tick
        <5>1. CASE ~gate.armed
          BY <1>0, <1>1, <2>5, <3>2, <5>1 DEF UnarmedInv, WatchTypes
        <5>2. CASE gate.armed
          <6>1. PICK k \in 0..Limit: Periods(k)
            BY <2>5, <5>2 DEF ArmedInv
          <6>2. Stamps # 0
            BY <1>0, <1>1, <2>1, <5>2 DEF Stamps, WatchTypes
          <6> QED BY <1>0, <1>1, <6>1, <6>2 DEF Periods, WatchTypes
        <5> QED BY <5>1, <5>2
      <4>4. Periods(0)'
        BY <1>0, <1>1, <4>1, <4>2, <4>3 DEF Periods
      <4> QED BY <1>0, <4>1, <4>4 DEF UnarmedInv, ArmedInv
    <3> QED BY <3>1, <3>2
  <2>7. ClockInv'
    BY <1>2, <1>3, <2>2
  <2> QED BY <1>1, <2>2, <2>4, <2>6, <2>7 DEF WatchInv
<1>8. CASE ~gate.tripped /\ gate.armed /\ heart = gate.beat
  <2>1. PICK k \in 0..Limit: Periods(k)
    BY <1>1, <1>8 DEF WatchInv, ArmedInv
  <2> DEFINE t == k * Tick
             w == k * (Tick + MaxBurst)
  <2>2. /\ t \in Nat /\ w \in Nat /\ t < Limit
        /\ (k + 1) * Tick = t + Tick /\ (k + 1) * (Tick + MaxBurst) = w + (Tick + MaxBurst)
        /\ k <= t
    BY <1>0, <2>1 DEF Periods
  <2>3. /\ Credit \in Nat /\ StoodStill = t + Tick
        /\ wrapping_sub(now, gate.beat_ms) - Credit = t + Tick
        /\ wrapping_sub(now, gate.beat_ms) <= w + (Tick + MaxBurst)
    BY <1>8, <2>1, <2>2, AgeIsPeriods
  <2>4. Stamps = 0
    BY <1>0, <1>1, <1>8 DEF Stamps, WatchTypes
  <2>5. frozen \in (t + Tick)..(t + Tick + Tick)
    BY <1>1, <2>1, <2>4 DEF Periods
  <2>6. gate' = [Now EXCEPT !.blocked_ms = Credit, !.tripped = Stalls]
    BY <1>1, <1>8 DEF Judged
  <2>7. Stalls \in BOOLEAN /\ (Stalls <=> StoodStill >= Limit)
    BY <1>8 DEF Stalls
  <2>8. /\ WatchTypes' /\ gate'.tripped = Stalls /\ gate'.tick_ms = now
        /\ gate'.armed = TRUE /\ gate'.blocked_ms = Credit
        /\ gate'.beat = gate.beat /\ gate'.beat_ms = gate.beat_ms
    <3>1. /\ gate' \in [armed: BOOLEAN, beat: 0..(BeatWrap - 1), beat_ms: 0..(Wrap - 1),
                     tick_ms: 0..(Wrap - 1), blocked_ms: Nat, tripped: BOOLEAN]
          /\ gate'.tripped = Stalls /\ gate'.tick_ms = now
          /\ gate'.armed = gate.armed /\ gate'.blocked_ms = Credit
          /\ gate'.beat = gate.beat /\ gate'.beat_ms = gate.beat_ms
      BY <1>1, <2>3, <2>6, <2>7 DEF WatchTypes
    <3>2. gate.armed = TRUE
      BY <1>1, <1>8 DEF WatchTypes
    <3> QED BY <3>1, <3>2, <1>5
  <2> HIDE DEF t, w
  <2>9. CASE Stalls
    <3>1. t + Tick >= Limit /\ frozen >= Limit
      <4>1. StoodStill >= Limit
        BY <2>7, <2>9
      <4> QED BY <1>0, <2>2, <2>3, <2>5, <4>1
    <3>2. wedged /\ wedged' = wedged
      BY <1>1, <3>1 DEF WatchInv
    <3>3. /\ gate'.tripped = TRUE /\ stalled' = TRUE /\ rwdt' = rwdt
      BY <1>1, <2>7, <2>8, <2>9
    <3>4. frozen <= Limit + 2 * Tick + rwdt
      BY <1>0, <1>1, <2>2, <2>5 DEF WatchTypes
    <3>5. FeedInv'
      BY <1>1, <3>3, <3>4 DEF FeedInv
    <3> QED BY <1>1, <2>8, <3>2, <3>3, <3>5 DEF WatchInv
  <2>10. CASE ~Stalls
    <3>1. /\ gate'.tripped = FALSE /\ stalled' = FALSE /\ rwdt' = 0
      BY <1>1, <1>8, <2>7, <2>8, <2>10 DEF WatchInv, WatchTypes, FeedInv, Fed
    <3>2. FeedInv'
      <4>1. rwdt' = 0 /\ Punctual' = 0 /\ stalled' = FALSE /\ gate'.tripped = FALSE
        BY <1>1, <3>1
      <4>2. (stalled = gate.tripped)'
        BY <4>1
      <4>3. rwdt' <= Punctual'
        BY <4>1
      <4>4. (stalled => frozen <= Limit + 2 * Tick + rwdt)'
        BY <4>1
      <4> QED BY <4>2, <4>3, <4>4 DEF FeedInv
    <3>3. t + Tick < Limit /\ k + 1 \in 0..Limit
      <4>1. ~(StoodStill >= Limit)
        BY <2>7, <2>10
      <4> QED BY <1>0, <2>2, <2>3, <4>1
    <3>4. Held' = wrapping_sub(now, gate.beat_ms) /\ Stamps' = 0
      BY <1>0, <1>1, <1>8, <2>8 DEF Held, Stamps, WatchTypes
    <3>5. Periods(k + 1)'
      BY <1>0, <1>1, <2>2, <2>3, <2>5, <2>8, <3>3, <3>4 DEF Periods
    <3>6. ArmedInv' /\ UnarmedInv'
      BY <2>8, <3>3, <3>5 DEF ArmedInv, UnarmedInv
    <3>7. ClockInv'
      BY <1>2, <1>3, <2>8
    <3> QED BY <1>1, <2>8, <3>1, <3>2, <3>6, <3>7 DEF WatchInv
  <2> QED BY <2>9, <2>10
<1> QED BY <1>6, <1>7, <1>8

(***************************************************************************)
(* The other steps, and the theorems                                       *)
(***************************************************************************)
LEMMA SecondStep == ASSUME WatchInv, Free \/ Solid \/ Yielding PROVE WatchInv'
<1>0. due \in 0..Tick /\ burst \in 0..MaxBurst /\ MaxBurst \in Nat /\ Tick \in Nat
  BY Periodic DEF WatchInv, WatchTypes
<1>1. CASE Free
  <2>1. PICK stamped \in BOOLEAN: Second(stamped, FALSE, rwdt)
    BY <1>1 DEF Free
  <2>2. due > 0 /\ burst' = burst /\ ~dead /\ dead' = dead
    BY <1>1 DEF Free
  <2>3. Second(stamped, due = 0, rwdt) /\ due # 0
    BY <1>0, <2>1, <2>2 DEF Second
  <2> QED BY <1>0, <2>2, <2>3, AliveSecond
<1>2. CASE Solid
  <2>1. /\ Second(FALSE, due = 0, Fed) /\ burst' = burst + 1 /\ ~dead /\ dead' = dead
        /\ burst < MaxBurst /\ (due > 0 \/ burst > 0)
    BY <1>2 DEF Solid, FenceFed
  <2>2. burst' \in 0..MaxBurst
    <3>1. burst + 1 \in 0..MaxBurst
      BY <1>0, <2>1
    <3> QED BY <2>1, <3>1
  <2> QED BY <1>0, <2>1, <2>2, AliveSecond
<1>3. CASE Yielding
  <2>1. /\ Second(FALSE, FALSE, Fed) /\ burst' = burst /\ ~dead /\ dead' = dead /\ due > 0
    BY <1>3 DEF Yielding, FenceFed
  <2>2. Second(FALSE, due = 0, Fed) /\ due # 0
    BY <1>0, <2>1 DEF Second
  <2> QED BY <1>0, <2>1, <2>2, AliveSecond
<1> QED BY <1>1, <1>2, <1>3

LEMMA DeadStep == ASSUME WatchInv, Dead PROVE WatchInv'
<1>1. PICK stamped \in BOOLEAN: Second(stamped, TRUE, rwdt)
  BY DEF Dead
<1>2. dead' = TRUE /\ dead' \in BOOLEAN /\ burst' = 0 /\ burst' \in 0..MaxBurst
  BY Periodic DEF Dead
<1>3. /\ WatchTypes'
      /\ (stalled = gate.tripped)'
      /\ (stalled => frozen <= Limit + 2 * Tick + rwdt)'
      /\ (gate.tripped => wedged)' /\ (frozen >= Limit => wedged)'
  BY <1>1, <1>2, PassTypes
<1>4. frozen' \in {0, frozen} /\ frozen \in Nat
  BY <1>1 DEF Second, WatchInv, WatchTypes
<1>5. WedgeIsReset'
  BY <1>4, FrozenBounded, Periodic DEF WedgeIsReset
<1> QED BY <1>2, <1>3, <1>5 DEF WatchInv, FeedInv

LEMMA BurstStep == ASSUME WatchInv, BurstEnds PROVE WatchInv'
<1>1. /\ burst' = 0 /\ 0 \in 0..MaxBurst
      /\ UNCHANGED <<now, gate, stalled, heart, due, rwdt, frozen, wedged, dead>>
  BY Periodic DEF BurstEnds
<1>2. WatchTypes'
  BY <1>1 DEF WatchInv, WatchTypes
<1>3. ClockInv => ClockInv'
  BY <1>1 DEF ClockInv, Elapsed, Punctual
<1>4. UnarmedInv => UnarmedInv'
  BY <1>1 DEF UnarmedInv, Punctual
<1>5. ArmedInv => ArmedInv'
  BY <1>1 DEF ArmedInv, Periods, Held, Stamps, Punctual
<1>6. FeedInv' /\ (WedgeIsReset => WedgeIsReset')
  BY <1>1 DEF WatchInv, FeedInv, Punctual, WedgeIsReset
<1> QED BY <1>1, <1>2, <1>3, <1>4, <1>5, <1>6 DEF WatchInv

LEMMA ResetStep == ASSUME Reset PROVE WatchInv'
<1>0. /\ Tick \in Nat \ {0} /\ Limit \in Nat \ {0} /\ Watchdog \in Nat \ {0}
      /\ MaxBurst \in Nat \ {0} /\ Wrap \in Nat \ {0} /\ BeatWrap \in Nat \ {0}
  BY Periodic
<1>1. /\ now' = 0 /\ gate' = New /\ stalled' = FALSE /\ heart' = 0
      /\ due' = 0 /\ burst' = 0 /\ rwdt' = 0
      /\ frozen' = 0 /\ wedged' = FALSE /\ dead' = FALSE
      /\ gate'.armed = FALSE /\ gate'.tripped = FALSE /\ gate'.blocked_ms = 0
      /\ gate'.tick_ms = 0
  BY DEF Reset, New
<1>2. WatchTypes'
  <2>1. 0 \in 0..(Wrap - 1) /\ 0 \in 0..(BeatWrap - 1) /\ 0 \in 0..Tick
        /\ 0 \in 0..MaxBurst /\ 0 \in 0..Watchdog /\ 0 \in Nat
    BY <1>0
  <2> QED BY <1>1, <2>1 DEF WatchTypes, New
<1>3. Elapsed' = 0 /\ Punctual' = Tick
  <2>1. 0 \in 0..(Wrap - 1)
    BY <1>0
  <2> QED BY <1>0, <1>1, <2>1, Subtracts DEF Elapsed, Punctual
<1>4. ClockInv' /\ UnarmedInv' /\ ArmedInv'
  BY <1>0, <1>1, <1>3 DEF ClockInv, Overdue, UnarmedInv, ArmedInv
<1>5. FeedInv'
  <2>1. (stalled = gate.tripped)' /\ ~stalled'
    BY <1>1
  <2>2. rwdt' <= Punctual'
    BY <1>0, <1>1, <1>3
  <2> QED BY <2>1, <2>2 DEF FeedInv
<1>6. ~(frozen' >= Limit)
  BY <1>0, <1>1
<1> QED BY <1>1, <1>2, <1>4, <1>5, <1>6 DEF WatchInv

(* The inductive invariant of the gate, its clock and the RTC watchdog.      *)
THEOREM WatchInvariant == WatchSpec => []WatchInv
<1>1. WatchInv /\ UNCHANGED watchVars => WatchInv'
  <2> SUFFICES ASSUME WatchInv, UNCHANGED watchVars PROVE WatchInv'
    OBVIOUS
  <2> USE DEF watchVars, WatchInv
  <2>1. WatchTypes'
    BY DEF WatchTypes
  <2>2. (ClockInv => ClockInv') /\ (UnarmedInv => UnarmedInv')
    BY DEF ClockInv, Elapsed, UnarmedInv, Punctual
  <2>3. ArmedInv => ArmedInv'
    BY DEF ArmedInv, Periods, Held, Stamps, Punctual
  <2>4. FeedInv' /\ (WedgeIsReset => WedgeIsReset')
    BY DEF FeedInv, Punctual, WedgeIsReset
  <2> QED BY <2>1, <2>2, <2>3, <2>4
<1>2. WatchInv /\ [WatchNext]_watchVars => WatchInv'
  BY <1>1, TaskTurnStep, SecondStep, BurstStep, DeadStep, ResetStep DEF WatchNext
<1> QED BY WatchInitially, <1>2, PTL DEF WatchSpec

(* No blocking burst, however long, and no wrap of the clock or of the       *)
(* heartbeat counter brings a running board down: the gate trips, and the    *)
(* RTC watchdog expires, only over a render loop that stood still for the    *)
(* limit or over a dead executor.                                            *)
THEOREM OnlyAWedgeResets == WatchSpec => []HealthyNeverResets
<1>1. WatchInv => HealthyNeverResets
  BY Periodic DEF WatchInv, WatchTypes, FeedInv, Punctual, HealthyNeverResets
<1> QED BY <1>1, WatchInvariant, PTL

(* And a render loop that stands still is reset in bounded time.             *)
THEOREM AWedgeIsReset == WatchSpec => []WedgeIsReset
  BY FrozenBounded, WatchInvariant, PTL
=============================================================================
