---------------------------- MODULE MCMigration ----------------------------
(* Migration for TLC: a build that works, one that crashes.                  *)
EXTENDS Migration

CONSTANTS good, crash

TwoImages == {good, crash}
OneCrashes == {crash}

NoFaults == {}
EveryFault == AllFaults
=============================================================================
