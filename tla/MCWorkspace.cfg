\* Two readers of up to three generations, two files, two texts; and three
\* files of four texts, one below the roots of two modules.
CONSTANTS
  Buffers = {p1, p2}
  Contents = {t1, t2}
  Queries = {q1, q2}
  MaxGeneration = 3
  SchemasOf <- MCSchemasOf
  Ranks = {1, 2}
  Paths = {1, 2, 3}
  Indexing <- MCIndexing
  Containing <- MCContaining
  Texts <- MCTexts
  Packaged <- MCPackaged
  MaxSymbols = 20
  None = None
SYMMETRY Symmetry
SPECIFICATION MCSpec
INVARIANTS
  AnswersAreCurrent
  LocationsAreLive
  CompletionMatchesNavigation
  DuplicatesLendNothing
PROPERTIES
  OpeningKeepsAnswers
