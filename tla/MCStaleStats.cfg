\* Packaged Stats after the schemas have changed.
CONSTANTS
  Packages = {p1}
  Tasks = {t1, t2}
  Plans = {"thoth", "stats"}
  Volatile = {p1, "Editor/Config"}
  MaxStarts = 2
  MaxChanges = 1
SPECIFICATION Spec
INVARIANT StatsFollowSchemas
\* The tasks and changes are bounded: the system runs out of work.
CHECK_DEADLOCK FALSE
