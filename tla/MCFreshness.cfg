\* One module, so that a batch is the module's, the schema's, another part's or
\* mixed; two edits of any parts, one reload beside the watcher.
CONSTANTS
  Modules = {m1}
  MaxEdits = 2
  MaxReloads = 1
  Idle = Idle
SPECIFICATION FairSpec
INVARIANTS
  FreshWhenQuiet
  LayersMatchSchema
PROPERTIES
  PartsNeverGoBack
  ChangesAreIndexed
\* Edits and reloads are bounded: the system runs out of work.
CHECK_DEADLOCK FALSE
