----------------------------- MODULE StallWatch -----------------------------
(***************************************************************************)
(* The watchdog of the dual-core boards (appwdt.rs and the watchdog half   *)
(* of core1.rs): a task on the ProCpu executor feeds the RTC watchdog      *)
(* every TICK_MS unless the render loop's heartbeat stood still for        *)
(* STALL_LIMIT_MS, less the time by which the task's own ticks came late.  *)
(*                                                                         *)
(* Time passes in whole seconds.  A second is Free (both cores run),       *)
(* Solid (a blocking flash burst holds the ProCpu executor and parks the   *)
(* other core), Yielding (a burst that lets the executor in between its    *)
(* operations while the other core stays parked) or Dead (the executor     *)
(* stopped and takes no fence).                                            *)
(***************************************************************************)
EXTENDS Integers

CONSTANTS
  Tick,       \* TICK_MS, in seconds
  Limit,      \* STALL_LIMIT_MS
  Watchdog,   \* WATCHDOG_SECS
  Wrap,       \* the modulus of the millisecond clock
  BeatWrap,   \* the modulus of HEARTBEAT
  MaxBurst    \* bound: the longest blocking burst

ASSUME WatchAssumption ==
  /\ {Tick, Limit, Watchdog, Wrap, BeatWrap, MaxBurst} \subseteq Nat \ {0}
  /\ Limit + Tick < Watchdog
  /\ BeatWrap > Tick + 1              \* fewer stamps between two ticks than wrap
  /\ Wrap > (Limit \div Tick + 3) * (Tick + MaxBurst)

VARIABLES
  now,      \* the ProCpu's clock
  gate,     \* StallWatch
  stalled,  \* STALLED
  heart,    \* HEARTBEAT
  due,      \* seconds until the watchdog task's timer fires
  burst,    \* seconds of the blocking burst under way, 0 when there is none
  rwdt,     \* seconds since the RTC watchdog was fed
  frozen,   \* seconds since the last stamp in which the task was not overdue
  wedged,   \* ghost: frozen reached Limit since the reset
  dead      \* the ProCpu executor stopped

watchVars == <<now, gate, stalled, heart, due, burst, rwdt, frozen, wedged, dead>>

New == [armed |-> FALSE, beat |-> 0, beat_ms |-> 0, tick_ms |-> 0,
        blocked_ms |-> 0, tripped |-> FALSE]

WatchInit ==
  /\ now = 0 /\ gate = New /\ stalled = FALSE /\ heart = 0
  /\ due = 0 /\ burst = 0 /\ rwdt = 0
  /\ frozen = 0 /\ wedged = FALSE /\ dead = FALSE

wrapping_sub(a, b) == (a - b + Wrap) % Wrap
saturating_sub(a, b) == IF a > b THEN a - b ELSE 0

(***************************************************************************)
(* StallWatch::tick                                                        *)
(***************************************************************************)
NoCredit == 0                 \* mutant
Credit == gate.blocked_ms + saturating_sub(wrapping_sub(now, gate.tick_ms), Tick)

StoodStill == saturating_sub(wrapping_sub(now, gate.beat_ms), Credit)

Stalls == gate.armed /\ heart = gate.beat /\ StoodStill >= Limit

Judged ==      \* the gate after a tick
  LET g == [gate EXCEPT !.tick_ms = now]
      moved == [g EXCEPT !.beat = heart, !.beat_ms = now]
  IN  CASE gate.tripped -> g
        [] ~gate.tripped /\ ~gate.armed ->
             IF heart # 0 THEN [moved EXCEPT !.armed = TRUE] ELSE g
        [] ~gate.tripped /\ gate.armed /\ heart # gate.beat ->
             [moved EXCEPT !.blocked_ms = 0]
        [] OTHER -> [g EXCEPT !.blocked_ms = Credit, !.tripped = Stalls]

(* feed_watchdog: a no-op for good once the gate has tripped.              *)
AlwaysFed == 0                \* mutant
Fed == IF stalled THEN rwdt ELSE 0

(* watchdog_task, one turn of its loop.                                    *)
TaskTurn ==
  /\ due = 0 /\ burst = 0 /\ ~dead /\ rwdt < Watchdog
  /\ gate' = Judged
  /\ IF Judged.tripped
       THEN stalled' = TRUE /\ UNCHANGED rwdt
       ELSE rwdt' = Fed /\ UNCHANGED stalled
  /\ due' = Tick
  /\ UNCHANGED <<now, heart, burst, frozen, wedged, dead>>

(***************************************************************************)
(* A second passes.  A timer that fires while the executor is free is      *)
(* served before the next second begins.                                   *)
(***************************************************************************)
Second(stamp, late, fed) ==
  /\ rwdt < Watchdog
  /\ now' = (now + 1) % Wrap
  /\ due' = saturating_sub(due, 1)
  /\ rwdt' = fed + 1
  /\ IF stamp
       THEN heart' = (heart + 1) % BeatWrap /\ frozen' = 0
       ELSE /\ UNCHANGED heart
            /\ frozen' = IF late \/ (heart = 0 /\ ~gate.armed)
                           THEN frozen ELSE frozen + 1
  /\ wedged' = (wedged \/ frozen' >= Limit)
  /\ UNCHANGED <<gate, stalled>>

(* core1::beat runs in this second, or the loop does not come round.       *)
Free ==
  /\ due > 0 /\ burst = 0 /\ ~dead
  /\ \E stamp \in BOOLEAN: Second(stamp, FALSE, rwdt)
  /\ UNCHANGED <<burst, dead>>

(* feed_from_fence feeds while the burst's fences are taken.               *)
FenceFed == Fed

Solid ==
  /\ (due > 0 \/ burst > 0) /\ burst < MaxBurst /\ ~dead
  /\ Second(FALSE, due = 0, FenceFed)
  /\ burst' = burst + 1
  /\ UNCHANGED dead

BurstEnds ==
  /\ burst > 0
  /\ burst' = 0
  /\ UNCHANGED <<now, gate, stalled, heart, due, rwdt, frozen, wedged, dead>>

Yielding ==
  /\ due > 0 /\ burst = 0 /\ ~dead
  /\ Second(FALSE, FALSE, FenceFed)
  /\ UNCHANGED <<burst, dead>>

(* The executor stops: nothing feeds any more.  The render loop may go on. *)
Dead ==
  /\ \E stamp \in BOOLEAN: Second(stamp, TRUE, rwdt)
  /\ dead' = TRUE /\ burst' = 0

(* The RTC watchdog expires: the board resets.                             *)
Reset ==
  /\ rwdt = Watchdog
  /\ now' = 0 /\ gate' = New /\ stalled' = FALSE /\ heart' = 0
  /\ due' = 0 /\ burst' = 0 /\ rwdt' = 0
  /\ frozen' = 0 /\ wedged' = FALSE /\ dead' = FALSE

WatchNext == TaskTurn \/ Free \/ Solid \/ BurstEnds \/ Yielding \/ Dead \/ Reset

WatchSpec == WatchInit /\ [][WatchNext]_watchVars

(***************************************************************************)
(* A board resets, or starts on the way to it, only when the render loop   *)
(* stood still for STALL_LIMIT_MS of time in which the watchdog task was   *)
(* not itself overdue, or when the ProCpu executor stopped: no blocking    *)
(* burst, however long, and no wrap of the clock trips the gate.           *)
(***************************************************************************)
HealthyNeverResets ==
  (gate.tripped \/ stalled \/ rwdt = Watchdog) => (wedged \/ dead)

(***************************************************************************)
(* A render loop that stops is reset: its heartbeat never stands still,    *)
(* counting the seconds in which the watchdog task was not overdue, for    *)
(* longer than the limit, two ticks and the watchdog's own period, and the *)
(* fences of a burst cannot keep the board alive past that.                *)
(***************************************************************************)
WedgeIsReset == frozen <= Limit + 2 * Tick + Watchdog

=============================================================================
