----------------------------- MODULE Workspace -----------------------------
(***************************************************************************)
(* crates/bg3-ide/src/lib.rs: WorkspaceSnapshot and OverlaySet, as queries *)
(* and diagnostic tasks use them to get the Osiris database schemas.       *)
(*                                                                         *)
(* A query takes the snapshot, awaits the read lock of the overlays and    *)
(* asks for the schemas, once or more; queries and tasks read at the same  *)
(* time, of different generations, and fill the one cache that the set of  *)
(* overlays keeps behind its own lock.  What schemas the visible sources   *)
(* give is SchemasOf, the subject of OsirisSchemas.                        *)
(***************************************************************************)
EXTENDS Naturals, Sequences

CONSTANTS
  Paths,           \* source files
  Texts,           \* what a file or an open document may hold
  Queries,         \* handlers and diagnostic tasks
  SchemasOf(_),    \* the schemas of the visible sources
  MaxGeneration,   \* bound: generations of the snapshot
  None             \* no such file, document, cache or answer

VARIABLES
  snapshots,   \* the files of each generation; the last is published
  documents,   \* the overlays: the open documents
  cache,       \* the schemas kept with the overlays, and their generation
  pc,          \* where each query is
  snap,        \* the generation it took
  answer       \* the schemas it last got, or None

vars == <<snapshots, documents, cache, pc, snap, answer>>

Sources == [Paths -> Texts \cup {None}]
NoDocuments == [p \in Paths |-> None]

(* The sources a build sees: documents in place of the files.              *)
Visible(files, docs) == [p \in Paths |-> IF docs[p] # None THEN docs[p] ELSE files[p]]

Build(generation, docs) == SchemasOf(Visible(snapshots[generation], docs))

TypeOK ==
  /\ snapshots \in Seq(Sources) /\ snapshots # <<>>
  /\ documents \in Sources
  /\ cache = None \/ \E g \in 1 .. Len(snapshots), v \in Sources :
                        cache = [generation |-> g, schemas |-> SchemasOf(v)]
  /\ pc \in [Queries -> {"idle", "waiting", "reading", "building"}]
  /\ snap \in [Queries -> 1 .. Len(snapshots)]
  /\ answer \in [Queries -> {None} \cup {SchemasOf(v) : v \in Sources}]
  /\ \A q \in Queries : pc[q] \in {"idle", "waiting"} => answer[q] = None

Init ==
  /\ \E files \in Sources : snapshots = <<files>>
  /\ documents = NoDocuments
  /\ cache = None
  /\ pc = [q \in Queries |-> "idle"]
  /\ snap = [q \in Queries |-> 1]
  /\ answer = [q \in Queries |-> None]

-----------------------------------------------------------------------------
(* The coordinator publishes another snapshot: a file was changed.         *)
Publish ==
  /\ Len(snapshots) < MaxGeneration
  /\ \E p \in Paths, t \in Texts \cup {None} :
       snapshots' = Append(snapshots, [snapshots[Len(snapshots)] EXCEPT ![p] = t])
  /\ UNCHANGED <<documents, cache, pc, snap, answer>>

(* The write lock waits for readers.                                       *)
Readers == {q \in Queries : pc[q] \in {"reading", "building"}}

(* OverlaySet::insert and remove.                                          *)
Insert(p, t) ==
  /\ Readers = {}
  /\ documents' = [documents EXCEPT ![p] = t]
  /\ cache' = None
  /\ UNCHANGED <<snapshots, pc, snap, answer>>

Remove(p) ==
  /\ Readers = {}
  /\ documents[p] # None
  /\ documents' = [documents EXCEPT ![p] = None]
  /\ cache' = None
  /\ UNCHANGED <<snapshots, pc, snap, answer>>

(* wait_snapshot returns; then the query awaits the overlays.              *)
Take(q) ==
  /\ pc[q] = "idle"
  /\ snap' = [snap EXCEPT ![q] = Len(snapshots)]
  /\ pc' = [pc EXCEPT ![q] = "waiting"]
  /\ UNCHANGED <<snapshots, documents, cache, answer>>

Lock(q) ==
  /\ pc[q] = "waiting"
  /\ pc' = [pc EXCEPT ![q] = "reading"]
  /\ UNCHANGED <<snapshots, documents, cache, snap, answer>>

(* cached_database_schemas                                                 *)
HitsAnyGeneration(q) == cache # None

Hits(q) == cache # None /\ cache.generation = snap[q]

(* osiris_database_schemas: the snapshot's own schemas when nothing is     *)
(* open, then the cached ones, ...                                         *)
Ask(q) ==
  /\ pc[q] = "reading"
  /\ IF documents = NoDocuments
       THEN answer' = [answer EXCEPT ![q] = Build(snap[q], NoDocuments)] /\ UNCHANGED pc
     ELSE IF Hits(q)
       THEN answer' = [answer EXCEPT ![q] = cache.schemas] /\ UNCHANGED pc
     ELSE pc' = [pc EXCEPT ![q] = "building"] /\ UNCHANGED answer
  /\ UNCHANGED <<snapshots, documents, cache, snap>>

(* ... else built without the cache's lock, and cached over whatever       *)
(* another reader cached in the meantime.                                  *)
Built(q) == Build(snap[q], documents)

Store(q) ==
  /\ pc[q] = "building"
  /\ cache' = [generation |-> snap[q], schemas |-> Built(q)]
  /\ answer' = [answer EXCEPT ![q] = Built(q)]
  /\ pc' = [pc EXCEPT ![q] = "reading"]
  /\ UNCHANGED <<snapshots, documents, snap>>

Release(q) ==
  /\ pc[q] = "reading"
  /\ pc' = [pc EXCEPT ![q] = "idle"]
  /\ answer' = [answer EXCEPT ![q] = None]
  /\ UNCHANGED <<snapshots, documents, cache, snap>>

Next ==
  \/ Publish
  \/ \E p \in Paths : Remove(p) \/ \E t \in Texts : Insert(p, t)
  \/ \E q \in Queries : Take(q) \/ Lock(q) \/ Ask(q) \/ Store(q) \/ Release(q)

Spec == Init /\ [][Next]_vars

-----------------------------------------------------------------------------
(* Properties.                                                             *)

(* "Overlay-derived schemas are cached until an open document changes":    *)
(* what a query has been answered is what the sources it sees give, those  *)
(* of its snapshot under the documents open now, as long as it reads,      *)
(* whichever queries of other generations fill the cache.                  *)
AnswersAreCurrent ==
  \A q \in Queries : answer[q] # None => answer[q] = Build(snap[q], documents)

(* What is cached is what its generation gives under the open documents.   *)
CacheIsCurrent ==
  cache # None => cache.schemas = Build(cache.generation, documents)
=============================================================================
