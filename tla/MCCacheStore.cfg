\* Two calls of build_module in one process, two edits, one truncated file, from
\* an empty, an abandoned and a warm directory; and two tasks, any
\* of a scoped build, a command, localization and tooltips, while a package, the
\* schemas and the tooltips' package are replaced, removed or put back.
CONSTANTS
  Builders = {"b1", "b2"}
  Processes = {"p"}
  ProcessOf <- MCProcessOf
  Objects = {"even", "odd"}
  TextOf <- MCTextOf
  MaxEdits = 2
  MaxLosses = 1
  Spares = {"i1", "i2", "i3", "i4", "i5"}
  None = None
  Packages = {p1}
  Tasks = {t1, t2}
  Plans = {"scoped_stats", "localization", "tooltips", "command"}
  Volatile = {p1, "Editor/Config", "Game.pak"}
  MaxStarts = 2
  MaxChanges = 2
SYMMETRY Symmetry
SPECIFICATION MCSpec
INVARIANTS
  BuildsAreCurrent
  ObjectsMatchNames
  CatalogsAreCurrent
\* Calls, tasks and changes are bounded: the system runs out of work.
CHECK_DEADLOCK FALSE
