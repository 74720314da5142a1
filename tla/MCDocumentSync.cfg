\* Three texts, two index generations; a reopened buffer may restart its
\* version numbers; two updates may wait for the first snapshot at once.
CONSTANTS
  MaxText = 3
  MaxGeneration = 2
  Slots = 2
  VersionsRestart = TRUE
  PromptSends = TRUE
  None = None
SPECIFICATION Spec
INVARIANTS
  OverlayFollowsClient
  DiagnosticsCatchUp
PROPERTIES
  DiagnosticsNeverGoBack
  SilentAfterShutdown
\* The client has no more texts to send, or the server has shut down.
CHECK_DEADLOCK FALSE
