SPECIFICATION WatchSpec
CONSTANTS
  Tick = 2
  Limit = 4
  Watchdog = 7
  Wrap = 51
  BeatWrap = 4
  MaxBurst = 8
INVARIANTS HealthyNeverResets WedgeIsReset
