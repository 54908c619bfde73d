----------------------------- MODULE RingQueue -----------------------------
(***************************************************************************)
(* The claim queue of the HUB75 ring driver (luxel-hub75 ring.rs and       *)
(* hub75_ring.rs): the panel's DMA, the beam, reads a ring of slots; two   *)
(* copiers, the output task on core 0 and the steal interrupt on core 1,   *)
(* claim row pairs ahead of it by compare-and-swap on one word and copy    *)
(* them out of the packed frames, which the output task packs between      *)
(* claims.  The loads and stores of a turn are steps of their own.         *)
(*                                                                         *)
(* Two timing assumptions.  BeamMoves: a copy takes less than a slot, so a *)
(* turn keeps ahead of the beam once the skip rule has let its claim       *)
(* through, and is over before the beam has passed the slots it may fill;  *)
(* a re-join, a few instructions, is over before the beam moves.  Prompt:  *)
(* the few instructions from a turn's look at NEWEST to                    *)
(* its store in PASS_FRAME are over before the output task begins to pack  *)
(* the next frame.  Contended lets the other core in between the swap of   *)
(* the word and that store; without it the store follows at once.          *)
(***************************************************************************)
EXTENDS Integers

CONSTANTS
  Frame,      \* the packed frames, FRAMES = 4 of them
  None,
  Shapes,     \* ring shapes: [n, rows, period]
  MaxAge,     \* slots the beam moves in one turn
  Contended   \* the two cores' turns meet between a claim and its store

GUARD_SLOTS == 2
Core == {0, 1}

ASSUME ShapesAssumption ==
  \A s \in Shapes:
    /\ {s.n, s.rows, s.period} \subseteq Nat
    /\ s.n > GUARD_SLOTS /\ s.n <= s.rows
    /\ s.period % s.n = 0 /\ s.period % s.rows = 0
ASSUME MaxAgeAssumption == MaxAge \in Nat
ASSUME ContendedAssumption == Contended \in BOOLEAN

VARIABLES
  ring,       \* the ring's shape
  beam,       \* abs_dma, the slot the DMA is in
  next,       \* NEXT_FILL: [buf, abs]
  newest,     \* NEWEST
  passFrame,  \* PASS_FRAME, by pass parity
  cop,        \* each core's turn: [pc, beam, word, claim, plan]
  pack,       \* the output task in write_frame: [pc, frame]
  lastPass,   \* last_frame_pass
  stamp,      \* SLOT_GEN: the frame whose present FRAME_GEN it equals
  held        \* the frame whose present content the slot's row pair is

ringVars == <<ring, beam, next, newest, passFrame, cop, pack, lastPass, stamp, held>>

Slot(a) == a % ring.n
Row(a) == a % ring.rows
Pass(a) == a \div ring.rows
Dist(from, to) == (to + ring.period - from) % ring.period
Succ(a) == (a + 1) % ring.period
Full == ring.n = ring.rows

Fillable(a, b) == Dist(b, a) >= 1 /\ Dist(b, a) + GUARD_SLOTS <= ring.n
Late(a, b) == Dist(b, a) = 0 \/ Dist(b, a) > ring.period \div 2

NoClaim == [buf |-> None, abs |-> 0]
Idle == [pc |-> "idle", beam |-> 0, word |-> NoClaim, claim |-> NoClaim, plan |-> "none"]

(* The ring is dark and the beam anywhere when the queue is published.     *)
RingInit ==
  /\ ring \in Shapes
  /\ beam = 0
  /\ newest \in Frame
  /\ next = [buf |-> newest, abs |-> ring.n % ring.period]
  /\ passFrame = [p \in 0..1 |-> newest]
  /\ cop = [c \in Core |-> Idle]
  /\ pack = [pc |-> "idle", frame |-> None]
  /\ lastPass = -1
  /\ stamp = [k \in 0..ring.n - 1 |-> None]
  /\ held = [k \in 0..ring.n - 1 |-> None]

queue == <<next, newest, passFrame>>
slots == <<stamp, held>>
packer == <<pack, lastPass>>

(***************************************************************************)
(* The beam                                                                *)
(***************************************************************************)
InHand(c) == cop[c].pc \in {"cas", "note", "copy"}

Age(c) == Dist(cop[c].beam, Succ(beam))

BeamMoves ==
  /\ \A c \in Core: InHand(c) => Succ(beam) # cop[c].claim.abs
  /\ \A c \in Core: cop[c].pc # "idle" => Age(c) <= MaxAge
  /\ \A c \in Core: cop[c].pc = "load" =>
       Succ(beam) # next.abs /\ ~Late(next.abs, cop[c].beam)
  /\ beam' = Succ(beam)
  /\ UNCHANGED <<ring, queue, cop, packer, slots>>

(***************************************************************************)
(* A copier's turn: drain_cpu                                              *)
(***************************************************************************)
Step(c, turn) == cop' = [cop EXCEPT ![c] = turn]
Looking(b) == [Idle EXCEPT !.pc = "load", !.beam = b]

(* The output task drains in flush, or between two chunks of a pack.       *)
Turn(c) ==
  /\ cop[c].pc = "idle"
  /\ c = 0 => pack.pc \in {"idle", "pack"}
  /\ Step(c, Looking(beam))
  /\ UNCHANGED <<ring, beam, queue, packer, slots>>

claim_next(word, new) ==
  [buf |-> IF Row(word.abs) = 0 THEN new ELSE word.buf, abs |-> word.abs]

catch_up(b) == Succ(b)

(* What the turn does with the head of the queue.  A claim one slot from   *)
(* the beam cannot be copied in time: the skip rule.                       *)
Plan(claim, b) ==
  CASE Late(claim.abs, b) -> "rejoin"
    [] ~Late(claim.abs, b) /\ ~Fillable(claim.abs, b) -> "stop"
    [] Fillable(claim.abs, b) /\ Full /\ stamp[Slot(claim.abs)] = claim.buf -> "reuse"
    [] OTHER -> IF Dist(b, claim.abs) < 2 THEN "skip" ELSE "take"

Load(c) ==
  /\ cop[c].pc = "load"
  /\ LET claim == claim_next(next, newest)
         plan == Plan(claim, cop[c].beam)
     IN  Step(c, CASE plan = "stop" -> Idle
                   [] plan = "rejoin" ->
                        [cop[c] EXCEPT !.pc = "cas", !.word = next, !.plan = plan,
                           !.claim = [buf |-> newest, abs |-> catch_up(cop[c].beam)]]
                   [] OTHER ->
                        [cop[c] EXCEPT !.pc = "cas", !.word = next, !.plan = plan,
                           !.claim = claim])
  /\ UNCHANGED <<ring, beam, queue, packer, slots>>

(* The compare-and-swap: lost to the other core, the turn looks again.     *)
Claimed(c, to) ==
  IF to = "load" THEN Looking(cop[c].beam)
  ELSE [cop[c] EXCEPT !.pc = to, !.word = Idle.word]

Cas(c) ==
  /\ cop[c].pc = "cas"
  /\ LET claim == cop[c].claim
         noted == Row(claim.abs) = 0 \/ cop[c].plan = "rejoin"
     IN  IF next = cop[c].word
           THEN /\ next' = IF cop[c].plan = "rejoin" THEN claim
                           ELSE [buf |-> claim.buf, abs |-> Succ(claim.abs)]
                /\ Step(c, Claimed(c, IF noted THEN "note"
                                      ELSE IF cop[c].plan = "take" THEN "copy"
                                      ELSE "load"))
           ELSE /\ Step(c, Looking(cop[c].beam))
                /\ UNCHANGED next
  /\ UNCHANGED <<ring, beam, newest, passFrame, packer, slots>>

(* PASS_FRAME, by the claimer of a pass's row 0 or of its re-joined rest.  *)
SameEntry(a) == 0             \* mutant
Parity(a) == Pass(a) % 2
Note(c) ==
  /\ cop[c].pc = "note"
  /\ passFrame' = [passFrame EXCEPT ![Parity(cop[c].claim.abs)] = cop[c].claim.buf]
  /\ Step(c, Claimed(c, IF cop[c].plan = "take" THEN "copy" ELSE "load"))
  /\ UNCHANGED <<ring, beam, next, newest, packer, slots>>

Packing(f) == pack.pc = "pack" /\ pack.frame = f

Copy(c) ==
  /\ cop[c].pc = "copy"
  /\ LET k == Slot(cop[c].claim.abs)
         f == cop[c].claim.buf
     IN  /\ held' = [held EXCEPT ![k] = IF Full /\ ~Packing(f) THEN f ELSE None]
         /\ stamp' = [stamp EXCEPT ![k] = IF Full THEN f ELSE None]
  /\ Step(c, Looking(cop[c].beam))
  /\ UNCHANGED <<ring, beam, queue, packer>>

(***************************************************************************)
(* write_frame on the output task                                          *)
(***************************************************************************)
FreeFrames == {f \in Frame: f # newest /\ f # passFrame[0] /\ f # passFrame[1]}

ready_for_frame == Pass(next.abs) # lastPass

Prompt == cop[1].pc \notin {"cas", "note"}

(* Paced, or after a hold of VSYNC_HOLD, far longer than any turn takes.   *)
(* free_frame takes the first free one: which one makes no difference.     *)
StartPack ==
  /\ pack.pc = "idle" /\ cop[0].pc = "idle" /\ Prompt
  /\ ready_for_frame \/ cop[1].pc = "idle"
  /\ \E f \in FreeFrames:
       /\ pack' = [pc |-> "pack", frame |-> f]
       /\ held' = [k \in DOMAIN held |-> IF held[k] = f THEN None ELSE held[k]]
  /\ UNCHANGED <<ring, beam, queue, cop, lastPass, stamp>>

(* The frame is packed: a fresh generation on it, before it is newest.     *)
KeepGen ==                    \* mutant
  /\ pack.pc = "pack" /\ cop[0].pc = "idle"
  /\ pack' = [pack EXCEPT !.pc = "newest"]
  /\ UNCHANGED <<ring, beam, queue, cop, lastPass, slots>>
StampFrame ==
  /\ pack.pc = "pack" /\ cop[0].pc = "idle"
  /\ pack' = [pack EXCEPT !.pc = "newest"]
  /\ stamp' = [k \in DOMAIN stamp |-> IF stamp[k] = pack.frame THEN None ELSE stamp[k]]
  /\ UNCHANGED <<ring, beam, queue, cop, lastPass, held>>

PublishFrame ==
  /\ pack.pc = "newest"
  /\ newest' = pack.frame
  /\ pack' = [pc |-> "pass", frame |-> None]
  /\ UNCHANGED <<ring, beam, next, passFrame, cop, lastPass, slots>>

NotePass ==
  /\ pack.pc = "pass"
  /\ lastPass' = Pass(next.abs)
  /\ pack' = [pack EXCEPT !.pc = "idle"]
  /\ UNCHANGED <<ring, beam, queue, cop, slots>>

Copier(c) == Turn(c) \/ Load(c) \/ Cas(c) \/ Copy(c)
Output == StartPack \/ StampFrame \/ PublishFrame \/ NotePass

RingNext ==
  \/ \E c \in Core: Note(c)
  \/ /\ Contended \/ \A c \in Core: cop[c].pc # "note"
     /\ BeamMoves \/ (\E c \in Core: Copier(c)) \/ Output

RingSpec == RingInit /\ [][RingNext]_ringVars

(***************************************************************************)
(* Properties                                                              *)
(***************************************************************************)
(* A frame being packed is read by nobody: no copy in hand reads it, and   *)
(* the rest of the pass being claimed will not (the SAFETY argument of     *)
(* copy_claim and pack_frame).                                             *)
NoRepackUnderCopy ==
  \A f \in Frame: Packing(f) =>
    /\ \A c \in Core:
         ~(cop[c].pc \in {"note", "copy"} /\ cop[c].plan = "take" /\ cop[c].claim.buf = f)
    /\ Row(next.abs) # 0 => next.buf # f

(* On a full-frame ring a slot whose stamp is a frame's generation holds   *)
(* that frame's row pair, so a reused slot shows what a copy would have    *)
(* put there.                                                              *)
ReuseIsExact ==
  \A k \in DOMAIN stamp: stamp[k] # None /\ ~Packing(stamp[k]) => held[k] = stamp[k]

=============================================================================
