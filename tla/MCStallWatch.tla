---------------------------- MODULE MCStallWatch ----------------------------
(* The watchdog for TLC, with the code's periods in seconds and bursts that *)
(* outlast the RTC watchdog.                                                *)
EXTENDS StallWatch
=============================================================================
