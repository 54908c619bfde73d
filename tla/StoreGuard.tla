----------------------------- MODULE StoreGuard -----------------------------
(* The pattern store's guard (firmware/src/patterns.rs): BUSY is 0 when idle, *)
(* WRITER while a mutation is in flight, and otherwise the number of mapped   *)
(* readers.  Tasks of both cores take it by a test-and-set under BUSY_LOCK,   *)
(* retry a bounded number of times, and drop it when they are done.           *)
EXTENDS Naturals, FiniteSets

CONSTANTS
    Tasks,
    WRITER,                 \* u32::MAX in the code: the largest value of BUSY
    WriteTries, ReadTries   \* 50 and 20 in the code

ASSUME GuardAssumption ==
    /\ IsFiniteSet(Tasks)
    /\ WRITER \in Nat \ {0}
    /\ WriteTries \in Nat \ {0} /\ ReadTries \in Nat \ {0}

VARIABLES busy, stage, tries

guardVars == <<busy, stage, tries>>

Readers == { t \in Tasks : stage[t] = "reading" }
Writers == { t \in Tasks : stage[t] = "writing" }

GuardInit ==
    /\ busy = 0
    /\ stage = [t \in Tasks |-> "idle"]
    /\ tries = [t \in Tasks |-> 0]

Ask(t, how, n) ==
    /\ stage[t] = "idle"
    /\ stage' = [stage EXCEPT ![t] = how]
    /\ tries' = [tries EXCEPT ![t] = n]
    /\ UNCHANGED busy

AskWrite(t) == Ask(t, "wantWrite", WriteTries)
AskRead(t) == Ask(t, "wantRead", ReadTries)

ReadersIgnored == busy # WRITER    \* mutant
WriteFree == busy = 0
OnlyWriterRefused == busy # WRITER    \* mutant
ReadFree == busy \notin {WRITER, WRITER - 1}

TakeWrite(t) ==
    /\ stage[t] = "wantWrite" /\ WriteFree
    /\ busy' = WRITER
    /\ stage' = [stage EXCEPT ![t] = "writing"]
    /\ UNCHANGED tries

TakeRead(t) ==
    /\ stage[t] = "wantRead" /\ ReadFree
    /\ busy' = busy + 1
    /\ stage' = [stage EXCEPT ![t] = "reading"]
    /\ UNCHANGED tries

Unspent(t) == tries[t]    \* mutant
Spent(t) == tries[t] - 1

\* A refused try: wait for the timer, or answer "busy" after the last one.
Retry(t) ==
    /\ \/ stage[t] = "wantWrite" /\ ~WriteFree
       \/ stage[t] = "wantRead" /\ ~ReadFree
    /\ tries' = [tries EXCEPT ![t] = Spent(t)]
    /\ stage' = IF Spent(t) > 0 THEN stage ELSE [stage EXCEPT ![t] = "idle"]
    /\ UNCHANGED busy

DropWrite(t) ==
    /\ stage[t] = "writing"
    /\ busy' = 0
    /\ stage' = [stage EXCEPT ![t] = "idle"]
    /\ UNCHANGED tries

\* The count saturates at 0.
DropRead(t) ==
    /\ stage[t] = "reading"
    /\ busy' = IF busy = 0 THEN 0 ELSE busy - 1
    /\ stage' = [stage EXCEPT ![t] = "idle"]
    /\ UNCHANGED tries

Step(t) == TakeWrite(t) \/ TakeRead(t) \/ Retry(t) \/ DropWrite(t) \/ DropRead(t)

GuardNext == \E t \in Tasks : AskWrite(t) \/ AskRead(t) \/ Step(t)

GuardSpec == GuardInit /\ [][GuardNext]_guardVars

\* A task that waits on a timer is polled again, and one that holds the guard
\* reaches its end: its flash operations are all bounded.
FairGuardSpec == GuardSpec /\ \A t \in Tasks : WF_guardVars(Step(t))

-----------------------------------------------------------------------------

\* The word, the states of the tasks and their remaining tries have their types.
GuardTypeOK ==
    /\ busy \in 0 .. WRITER
    /\ stage \in [Tasks -> {"idle", "wantWrite", "wantRead", "writing", "reading"}]
    /\ tries \in [Tasks -> Nat]

\* A mutation excludes every other mutation and every mapped read.
Exclusion ==
    \A t \in Writers : Writers = {t} /\ Readers = {}

\* BUSY never lies: it is WRITER exactly during a mutation, else the number of
\* readers, and no number of readers is taken for a writer.
BusyCounts ==
    IF Writers = {} THEN busy = Cardinality(Readers) /\ busy # WRITER
    ELSE busy = WRITER

\* A task that waits has a try left.
TriesLeft ==
    \A t \in Tasks : stage[t] \in {"wantWrite", "wantRead"} => tries[t] > 0

\* The inductive invariant.
GuardInv == GuardTypeOK /\ Exclusion /\ BusyCounts /\ TriesLeft

\* Nobody waits forever: a task that asks gets the guard or an answer.
EveryWaitEnds ==
    \A t \in Tasks : stage[t] \in {"wantWrite", "wantRead"}
                       ~> stage[t] \in {"idle", "writing", "reading"}
=============================================================================
