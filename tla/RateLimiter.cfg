SPECIFICATION Spec
CONSTANTS
  Chats = {"a", "b"}
  Max = 2
  Window = 2
  MaxTime = 3
  Burst = 4
INVARIANTS Capped BlockedOnlyWhenBusy OneNotice
CHECK_DEADLOCK FALSE
