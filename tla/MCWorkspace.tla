---------------------------- MODULE MCWorkspace ----------------------------
(***************************************************************************)
(* The workspace snapshot, its two halves apart: what one query answers    *)
(* (Resolution) and the cache of schemas under concurrent queries          *)
(* (Workspace).                                                            *)
(*                                                                         *)
(* For TLC, schemas stand for the sources they are inferred from, so that  *)
(* no two sets of sources are confused.  Queries resolve names in a base   *)
(* module and a project, a file of each, and one below both roots.         *)
(***************************************************************************)
EXTENDS Resolution, TLC

CONSTANTS Buffers, Contents, Queries, SchemasOf(_), MaxGeneration

VARIABLES half, snapshots, overlays, cache, pc, snap, answer

Cache == INSTANCE Workspace WITH Paths <- Buffers, Texts <- Contents, documents <- overlays

ASSUME CacheAssumption ==
  /\ MaxGeneration \in Nat
  /\ None \notin Contents
  /\ \A v \in [Buffers -> Contents \cup {None}] : SchemasOf(v) # None

cached == <<snapshots, overlays, cache, pc, snap, answer>>

MCSchemasOf(v) == v
Symmetry == Permutations(Buffers) \cup Permutations(Contents) \cup Permutations(Queries)

MCIndexing(p) == CASE p = 1 -> {1} [] p = 2 -> {2} [] p = 3 -> {1, 2} [] OTHER -> {}
MCContaining(p) == CASE p = 1 -> <<1>> [] p = 3 -> <<1, 2>> [] OTHER -> <<2>>

Declare(kind, name, aliases, uuid, arity, parent, fields, line) ==
  [kind |-> kind, name |-> name, aliases |-> aliases, uuid |-> uuid, arity |-> arity,
   parent |-> parent, fields |-> fields, line |-> line]
Refer(target, line) == [target |-> target, line |-> line]
File0 == [definitions |-> {}, references |-> {}]

\* An entry that uses its own name, twice, and refers to another.
Twice == [definitions |-> {Declare("PassiveData", "A", <<"A">>, None, None, "A", [Name |-> 1], 1),
                           Declare("PassiveData", "A", <<"A">>, None, None, "A", [Icon |-> 2], 2)},
          references |-> {Refer(Named("PassiveData", "B"), 3)}]
\* A toolkit record with an alias and an identifier, and an untyped use.
Toolkit == [definitions |-> {Declare("Passive", "B", <<"B", "C">>, "u", None, "A", [Text |-> 3], 1)},
            references |-> {Refer(Named(None, "A"), 2), Refer(Uuid("u"), 3)}]
\* An entry that inherits from the other kind of file, and a procedure.
Mixed == [definitions |-> {Declare("PassiveData", "A", <<"A">>, None, None, "B", [Icon |-> 4], 2),
                           Declare("OsirisProcedure", "P", <<>>, None, 1, None, <<>>, 4)},
          references |-> {Refer(Osiris("callable", "P", 1), 5)}]
MCTexts == {File0, Twice, Toolkit, Mixed}
Pack(module, priority, package, definition) ==
  [module |-> module, priority |-> priority, package |-> package, definition |-> definition]
MCPackaged ==
  {Pack(1, 0, 9, Declare("PassiveData", "A", <<"A">>, None, None, None, [Name |-> 6], 1)),
   Pack(1, 1, 8, Declare("PassiveData", "D", <<"D">>, None, None, "B", [Text |-> 7], 1))}

MCInit ==
  /\ half \in {"schemas", "names"}
  /\ Cache!Init /\ Init
  /\ half = "schemas" => \A p \in Paths : disk[p] = File0
  /\ half = "names" => snapshots = <<Cache!NoDocuments>>

Schemas == half = "schemas" /\ Cache!Next /\ UNCHANGED <<half, vars>>
Answers == half = "names" /\ Next /\ UNCHANGED <<half, cached>>

MCSpec == MCInit /\ [][Schemas \/ Answers]_<<half, vars, cached>>

\* A query's answer is what its snapshot gives under the open documents.
AnswersAreCurrent == Cache!AnswersAreCurrent
=============================================================================
