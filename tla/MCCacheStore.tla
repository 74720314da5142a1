---------------------------- MODULE MCCacheStore ----------------------------
(***************************************************************************)
(* The cache, its two halves apart: what build_module makes of loose files *)
(* (CacheStore) and the catalogs of one file each (CatalogCache).          *)
(*                                                                         *)
(* For TLC, two calls of one process, where every second edit restores the *)
(* text before it; and builds and commands next to each other, where a     *)
(* command loads whatever the tasks of a full build load.                  *)
(***************************************************************************)
EXTENDS CacheStore, TLC

CONSTANTS Packages, Tasks, Plans, Volatile, MaxStarts, MaxChanges

VARIABLES
  half,
  versions, there, changes, cache, plan, starts, at, listed, schema, stamps, reading, parts,
  loaded, began

Catalogs == INSTANCE CatalogCache

catalogVars ==
  <<versions, there, changes, cache, plan, starts, at, listed, schema, stamps, reading, parts,
    loaded, began>>

MCProcessOf == [b \in Builders |-> "p"]
MCTextOf(n) == IF n % 2 = 0 THEN "even" ELSE "odd"
Symmetry == Permutations(Tasks) \cup Permutations(Packages)

MCInit ==
  /\ half \in {"modules", "catalogs"}
  /\ Init /\ Catalogs!Init
  /\ half = "modules" => there = Catalogs!Files
  /\ half = "catalogs" => file = [n \in Names |-> None] /\ temp = [n \in Temps |-> None]

BuildModule == half = "modules" /\ Next /\ UNCHANGED <<half, catalogVars>>
LoadCatalogs == half = "catalogs" /\ Catalogs!Next /\ UNCHANGED <<half, vars>>

MCSpec == MCInit /\ [][BuildModule \/ LoadCatalogs]_<<half, vars, catalogVars>>

\* What a task loads is what the files held since it began.
CatalogsAreCurrent == Catalogs!CatalogsAreCurrent
=============================================================================
