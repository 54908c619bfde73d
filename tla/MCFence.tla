------------------------------ MODULE MCFence ------------------------------
(* The fence for TLC: both cores fence without end; up to two waits of the   *)
(* whole behaviour outlast PARK_TIMEOUT.                                     *)
EXTENDS Fence
=============================================================================
