--------------------------- MODULE OsirisSchemas ---------------------------
(***************************************************************************)
(* crates/bg3-ide/src/lib.rs: build_osiris_database_schemas, which infers  *)
(* the column types of Osiris databases from the visible goal files.       *)
(*                                                                         *)
(* A column key (name, arity, column) is one Column: columns are folded    *)
(* one by one and meet only in propagation, where an occurrence of several *)
(* columns acts as one occurrence for each.  Columns, paths and goals are  *)
(* numbers, in the order of the BTreeMaps and of the sort.                 *)
(***************************************************************************)
EXTENDS Naturals, Sequences, SequencesExt, Ordering

CONSTANTS
  Columns,         \* database columns
  Paths,           \* goal files
  Goals,           \* goal names
  Generic,         \* GUIDSTRING
  Aliases,         \* CHARACTER, ITEM, ...
  Unknown,         \* names outside the type catalog
  None,
  Occurrences,        \* bound: the occurrences files are made of
  MaxOccurrences(_)   \* bound: occurrences in a file

Types == {Generic} \cup Aliases \cup Unknown

(* What the parser says of an argument: the evidence of its type, and the  *)
(* rule-local variable in it, if any: not bound, bound by a database       *)
(* column that the argument is no more than, or otherwise.                 *)
Arguments == [evidence : Types \cup {None},
              variable : {"none", "unbound", "database", "other"},
              binding : Columns]

AllOccurrences == [column : Columns, role : {"read", "write", "remove"}, argument : Arguments]

ASSUME SchemasAssumption ==
  /\ Columns \subseteq Nat /\ Paths \subseteq Nat /\ Goals \subseteq Nat
  /\ IsFiniteSet(Columns) /\ IsFiniteSet(Paths) /\ IsFiniteSet(Goals) /\ Columns # {}
  /\ Occurrences \subseteq AllOccurrences
  /\ None \notin Types
  /\ \A p \in Paths : MaxOccurrences(p) \in Nat

VARIABLE
  files   \* the visible source of each path: an open document or the file

-----------------------------------------------------------------------------
(* Types.                                                                  *)

(* osiris_type_compatibility: TRUE, FALSE, or None when it is not known.   *)
Compatibility(s, t) ==
  IF s = t THEN "yes"
  ELSE IF {s, t} \cap Unknown # {} THEN "unknown"
  ELSE IF Generic \in {s, t} THEN "yes" ELSE "no"

(* osiris_type_candidates_resolve: the first, if each pair is compatible.  *)
ResolveFirst(types) == IF types = <<>> THEN None ELSE types[1]

ResolveTypes(types) ==
  IF types # <<>> /\ \A i, j \in DOMAIN types : Compatibility(types[i], types[j]) = "yes"
    THEN types[1] ELSE None

(* add_osiris_type_candidate                                               *)
AddType(seen, t) == IF t = None \/ t \in ToSet(seen) THEN seen ELSE Append(seen, t)

(* The same for a sequence of types or None.                               *)
Distinct(types) ==
  LET distinct[n \in 0 .. Len(types)] ==
        IF n = 0 THEN <<>> ELSE AddType(distinct[n - 1], types[n])
  IN  distinct[Len(types)]

-----------------------------------------------------------------------------
(* The occurrences in Story order.                                         *)

(* ordered_osiris_database_occurrences: what an argument gives: a type, or *)
(* for a write of a variable the column that bound it.                     *)
Gives(o) ==
  LET a == o.argument IN
  IF o.role # "write" THEN [type |-> a.evidence, from |-> None]
  ELSE IF a.variable = "unbound" THEN [type |-> None, from |-> None]
  ELSE IF a.variable = "database" /\ a.evidence = None THEN [type |-> None, from |-> a.binding]
  ELSE [type |-> a.evidence, from |-> None]

Record(p, o) ==
  [column |-> o.column, role |-> o.role, goal |-> files[p].goal,
   type |-> Gives(o).type, from |-> Gives(o).from]

Ascending == {e \in Paths \X Paths : e[1] < e[2]}

(* Sources sorted by goal and then path: `before' is the order of paths.   *)
Sources(before) ==
  LET Earlier(p) == {q \in Paths : \/ files[q].goal < files[p].goal
                                   \/ files[q].goal = files[p].goal /\ <<q, p>> \in before}
  IN  Arranged(Paths, [p \in Paths |-> Cardinality(Earlier(p))])

Records(before) ==
  LET sources == Sources(before)
      Of(p) == [k \in DOMAIN files[p].occurrences |-> Record(p, files[p].occurrences[k])]
  IN  FlattenSeq([i \in DOMAIN sources |-> Of(sources[i])])

(* goal_source_counts > 1.                                                 *)
Duplicated(goal) == Cardinality({p \in Paths : files[p].goal = goal}) > 1

(* The types of those of the records that are `chosen', by their places.   *)
TypesIn(records, chosen) ==
  [i \in DOMAIN records |-> IF i \in chosen THEN records[i].type ELSE None]

-----------------------------------------------------------------------------
(* propagatable_osiris_database_types.                                     *)

Writes(records, c) ==
  {i \in DOMAIN records : records[i].role = "write" /\ records[i].column = c}

Direct(records, c) == Distinct(TypesIn(records, Writes(records, c)))

Edges(records) ==
  {<<r.from, r.column>> : r \in {s \in ToSet(records) : s.role = "write" /\ s.from # None}}

(* Files of one goal name that write incompatible types.                   *)
Ambiguous(records) ==
  {c \in Columns : \E g \in Goals :
     LET types == Distinct(TypesIn(records, {i \in Writes(records, c) : records[i].goal = g}))
     IN  Duplicated(g) /\ types # <<>> /\ ResolveTypes(types) = None}

(* osiris_database_dfs_order: the columns in the order their visits end.   *)
Visit(edges) ==
  LET Targets(c) == Sorted({e[2] : e \in {f \in edges : f[1] = c}})
      visit[order \in [open : SUBSET Columns, ended : Seq(Columns)], c \in Columns] ==
        LET opened == [order EXCEPT !.open = @ \cup {c}]
            after == FoldLeft(LAMBDA acc, t : visit[acc, t], opened, Targets(c))
        IN  IF c \in order.open THEN order ELSE [after EXCEPT !.ended = Append(@, c)]
  IN  visit

Ended(edges) ==
  FoldLeft(LAMBDA acc, c : Visit(edges)[acc, c], [open |-> {}, ended |-> <<>>],
           Sorted(Columns)).ended

(* osiris_database_dfs_component: what leads to c and has no component yet.*)
Collect(taken, edges) ==
  LET From(c) == Sorted({e[1] : e \in {f \in edges : f[2] = c}})
      collect[members \in Seq(Columns), c \in Columns] ==
        IF c \in taken \/ Contains(members, c) THEN members
        ELSE FoldLeft(LAMBDA acc, s : collect[acc, s], Append(members, c), From(c))
  IN  collect

(* The components, each in the order its members were found.               *)
ComponentsInEndOrder(edges) ==
  FoldLeft(LAMBDA found, c :
             LET taken == UNION {ToSet(found[i]) : i \in DOMAIN found}
             IN  IF c \in taken THEN found ELSE Append(found, Collect(taken, edges)[<<>>, c]),
           <<>>, Ended(edges))

Components(edges) ==
  FoldLeft(LAMBDA found, c :
             LET taken == UNION {ToSet(found[i]) : i \in DOMAIN found}
             IN  IF c \in taken THEN found ELSE Append(found, Collect(taken, edges)[<<>>, c]),
           <<>>, Reverse(Ended(edges)))

(* The components are settled in topological order: each from its direct   *)
(* types and those of the components before it.                            *)
SettleNext(types, components, edges, records) ==
  LET Into(i) == {j \in DOMAIN components \ {i} :
                    \E e \in edges : Contains(components[j], e[1]) /\ Contains(components[i], e[2])}
      ready == {i \in DOMAIN components \ DOMAIN types : Into(i) \subseteq DOMAIN types}
      i == CHOOSE k \in ready : \A l \in ready : k <= l
      before == Sorted(Into(i))
      candidates == Distinct(
        FlattenSeq([k \in DOMAIN components[i] |-> Direct(records, components[i][k])])
        \o [k \in DOMAIN before |-> types[before[k]]])
      blocked == ToSet(components[i]) \cap Ambiguous(records) # {}
      type == IF blocked THEN None ELSE ResolveTypes(candidates)
  IN  IF ready = {} THEN types
      ELSE [k \in DOMAIN types \cup {i} |-> IF k = i THEN type ELSE types[k]]

Settle(components, edges, records) ==
  LET settled[n \in 0 .. Len(components)] ==
        IF n = 0 THEN <<>> ELSE SettleNext(settled[n - 1], components, edges, records)
  IN  settled[Len(components)]

OfComponents(components, types) ==
  [c \in Columns |-> types[CHOOSE i \in DOMAIN components : Contains(components[i], c)]]

SettleAll(components, edges, records) ==
  OfComponents(components, Settle(components, edges, records))

Propagatable(records) == SettleAll(Components(Edges(records)), Edges(records), records)

(* apply_osiris_database_propagation                                       *)
Fill(records, available) ==
  [i \in DOMAIN records |->
     LET r == records[i] IN
       IF r.role = "write" /\ r.type = None /\ r.from # None
         THEN [r EXCEPT !.type = available[r.from]] ELSE r]

Propagate(records) == Fill(records, Propagatable(records))

-----------------------------------------------------------------------------
(* fold_osiris_database_records.                                           *)

(* fold_osiris_database_type                                               *)
Observe(column, t) ==
  IF column.ambiguous \/ t = None THEN column
  ELSE [column EXCEPT
    !.established = IF @ = None THEN t ELSE @,
    !.conflicts = IF \E s \in ToSet(column.observations) : Compatibility(s, t) # "yes"
                    THEN Append(@, t) ELSE @,
    !.observations = Append(@, t)]

ObserveAll(column, types) ==
  LET observed[n \in 0 .. Len(types)] ==
        IF n = 0 THEN column ELSE Observe(observed[n - 1], types[n])
  IN  observed[Len(types)]

FoldGoal(column, c, g, records) ==
  LET here == TypesIn(records, {i \in DOMAIN records : records[i].goal = g /\ records[i].column = c})
      known == Distinct(here)
  IN  IF ~Duplicated(g) THEN ObserveAll(column, here)
      ELSE IF known # <<>> /\ ResolveTypes(known) = None
        THEN [column EXCEPT !.established = None, !.conflicts = <<>>, !.ambiguous = TRUE]
      ELSE ObserveAll(column, known)

NoEvidence == [established |-> None, conflicts |-> <<>>, ambiguous |-> FALSE, observations |-> <<>>]

FoldColumn(c, records) ==
  LET goals == Sorted(Goals)
      folded[n \in 0 .. Len(goals)] ==
        IF n = 0 THEN NoEvidence ELSE FoldGoal(folded[n - 1], c, goals[n], records)
  IN  folded[Len(goals)]

Fold(records) == [c \in Columns |-> FoldColumn(c, records)]

Schemas(before) == Fold(Propagate(Records(before)))

(* add_osiris_database_diagnostics: the observations that are errors, the  *)
(* first of their type to contradict an earlier one.                       *)
ReportedAgainstEstablished(column) ==
  {i \in DOMAIN column.observations :
     LET t == column.observations[i] IN
       /\ column.established # None /\ ~column.ambiguous
       /\ \A j \in 1 .. i - 1 : column.observations[j] # t
       /\ Compatibility(column.established, t) = "no"}

Reported(column) ==
  {i \in DOMAIN column.observations :
     LET t == column.observations[i] IN
       /\ column.established # None /\ ~column.ambiguous
       /\ \A j \in 1 .. i - 1 : column.observations[j] # t
       /\ \E j \in 1 .. i - 1 : Compatibility(column.observations[j], t) = "no"}

-----------------------------------------------------------------------------
(* Files gain occurrences in any order.                                    *)

Init == files \in [Paths -> [goal : Goals, occurrences : {<<>>}]]

Extend(p, o) ==
  /\ Len(files[p].occurrences) < MaxOccurrences(p)
  /\ files' = [files EXCEPT ![p].occurrences = Append(@, o)]

Next == \E p \in Paths, o \in Occurrences : Extend(p, o)

Spec == Init /\ [][Next]_files

-----------------------------------------------------------------------------
(* Properties.                                                             *)

(* Which columns lead to which, by Warshall's algorithm.                   *)
LeadsTo(edges) ==
  FoldSet(LAMBDA k, leads : leads \cup {e \in Columns \X Columns :
                                         <<e[1], k>> \in leads /\ <<k, e[2]>> \in leads},
          edges \cup {<<c, c>> : c \in Columns}, Columns)

Agree(types) == types # {} /\ \A s, t \in types : Compatibility(s, t) = "yes"

Evidence(cycle, records, edges, types) ==
  UNION {ToSet(Direct(records, d)) : d \in cycle}
  \cup ({types[e[1]] : e \in {f \in edges : f[1] \notin cycle /\ f[2] \in cycle}} \ {None})

IsSettled(c, cycle, types, evidence, ambiguous) ==
  /\ \A d \in cycle : types[c] = types[d]
  /\ IF Agree(evidence) /\ cycle \cap ambiguous = {} THEN types[c] \in evidence ELSE types[c] = None

SettledBy(records, edges, leads, types, ambiguous) ==
  \A c \in Columns :
    LET cycle == {d \in Columns : <<c, d>> \in leads /\ <<d, c>> \in leads}
    IN  IsSettled(c, cycle, types, Evidence(cycle, records, edges, types), ambiguous)

SettledFor(records, edges) ==
  SettledBy(records, edges, LeadsTo(edges), Propagatable(records), Ambiguous(records))

(* Columns that depend on each other have one type: that of their direct   *)
(* writes and of what leads into them, if all of those are compatible and  *)
(* no write is ambiguous, and else none.                                   *)
TypesAreSettled == SettledFor(Records(Ascending), Edges(Records(Ascending)))

(* "incompatible evidence in that group is ambiguous rather than resolved  *)
(* by filesystem path": which columns have a type, which type and which    *)
(* are ambiguous does not depend on the order of paths.  A column that     *)
(* takes both GUIDSTRING and an alias has the first of them.               *)
PathsDoNotDecide ==
  LET Descending == {e \in Paths \X Paths : e[1] > e[2]}
      generic == \E p \in Paths : \E i \in DOMAIN files[p].occurrences :
                   files[p].occurrences[i].argument.evidence = Generic
      Shown(schemas) == [c \in Columns |-> <<schemas[c].established, schemas[c].ambiguous>>]
  IN  ~generic => Shown(Schemas(Ascending)) = Shown(Schemas(Descending))

Clash(types, verdicts) == \E s, t \in types : Compatibility(s, t) \in verdicts

ReportedFor(records, schemas) ==
  \A c \in Columns :
    LET Given(g) == {r.type : r \in {s \in ToSet(records) : s.column = c /\ s.goal = g}} \ {None}
    IN  /\ schemas[c].ambiguous <=> \E g \in Goals : Duplicated(g) /\ Clash(Given(g), {"no", "unknown"})
        /\ ~schemas[c].ambiguous =>
             (Reported(schemas[c]) # {} <=> Clash(UNION {Given(g) : g \in Goals}, {"no"}))

ReportedBy(records) == ReportedFor(records, Fold(records))

(* A column is ambiguous exactly if files of one goal name disagree on it; *)
(* otherwise an error is reported for it exactly if two of the types it is *)
(* given anywhere exclude each other, wherever they stand.                 *)
MismatchesAreReported == ReportedBy(Propagate(Records(Ascending)))
=============================================================================
