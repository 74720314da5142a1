\* One property the documentation states and the code does not meet.
CONSTANTS
  MaxText = 2
  MaxGeneration = 2
  Slots = 2
  VersionsRestart = FALSE
  PromptSends = TRUE
  None = None
SPECIFICATION Spec
INVARIANT ClosedBufferRestoresDisk
CHECK_DEADLOCK FALSE
