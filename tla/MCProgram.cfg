\* A session of three calls; two commands that write one destination, and two
\* changes by others.
CONSTANTS
  Requests = {r1, r2, r3}
  Commands = {c1, c2}
  Kinds = {"convert", "force", "generate"}
  MaxChanges = 2
  MaxMisreads = 1
SPECIFICATION ProgramSpec
INVARIANTS
  ExitStatusIsRight
  ConversionsAreWhole
PROPERTIES
  OrphansEnd
  OthersAreKept
\* Sessions and commands end.
CHECK_DEADLOCK FALSE
