-------------------------- MODULE WorkspaceProofs --------------------------
(***************************************************************************)
(* Proofs about the workspace snapshot, for any modules, files, texts,     *)
(* packages and queries, and whatever schemas the visible sources give.    *)
(***************************************************************************)
EXTENDS MCWorkspace, Induction

-----------------------------------------------------------------------------
(* Workspace: the cache of schemas.                                        *)

CacheInv == Cache!TypeOK /\ Cache!AnswersAreCurrent /\ Cache!CacheIsCurrent

(* A query past the lock is a reader, so that no document changes.         *)
LEMMA NoReaders ==
  ASSUME Cache!TypeOK, Cache!Readers = {}
  PROVE  \A q \in Queries : pc[q] \in {"idle", "waiting"} /\ answer[q] = None
  BY DEF Cache!TypeOK, Cache!Readers

LEMMA VisibleType ==
  ASSUME NEW files \in Cache!Sources, NEW docs \in Cache!Sources
  PROVE  Cache!Visible(files, docs) \in Cache!Sources
  BY DEF Cache!Visible, Cache!Sources

LEMMA BuildType ==
  ASSUME Cache!TypeOK, NEW g \in 1 .. Len(snapshots)
  PROVE  \E v \in Cache!Sources : Cache!Build(g, overlays) = SchemasOf(v)
<1>1. snapshots[g] \in Cache!Sources /\ overlays \in Cache!Sources
  BY DEF Cache!TypeOK
<1> QED  BY <1>1, VisibleType DEF Cache!Build

LEMMA CacheInit == Cache!Init => CacheInv
<1> SUFFICES ASSUME Cache!Init PROVE CacheInv
  OBVIOUS
<1>1. PICK files \in Cache!Sources : snapshots = <<files>>
  BY DEF Cache!Init
<1>2. snapshots \in Seq(Cache!Sources) /\ snapshots # <<>> /\ 1 \in 1 .. Len(snapshots)
  BY <1>1
<1>3. Cache!NoDocuments \in Cache!Sources
  BY DEF Cache!NoDocuments, Cache!Sources
<1>4. Cache!TypeOK
  BY <1>2, <1>3 DEF Cache!Init, Cache!TypeOK
<1> QED  BY <1>4 DEF Cache!Init, CacheInv, Cache!AnswersAreCurrent, Cache!CacheIsCurrent

(* A publication leaves the generations there are as they were.            *)
LEMMA PublishStep ==
  ASSUME CacheInv, Cache!Publish
  PROVE  CacheInv'
<1>0. Cache!TypeOK /\ Cache!AnswersAreCurrent /\ Cache!CacheIsCurrent
  BY DEF CacheInv
<1>1. PICK s : snapshots' = Append(snapshots, s) /\ s \in Cache!Sources
  <2>1. PICK p \in Buffers, t \in Contents \cup {None} :
          snapshots' = Append(snapshots, [snapshots[Len(snapshots)] EXCEPT ![p] = t])
    BY DEF Cache!Publish
  <2>2. snapshots[Len(snapshots)] \in Cache!Sources
    BY <1>0 DEF Cache!TypeOK
  <2> QED  BY <2>1, <2>2 DEF Cache!Sources
<1>2. UNCHANGED <<overlays, cache, pc, snap, answer>>
  BY DEF Cache!Publish
<1>3. /\ snapshots' \in Seq(Cache!Sources) /\ snapshots' # <<>>
      /\ 1 .. Len(snapshots) \subseteq 1 .. Len(snapshots')
      /\ \A g \in 1 .. Len(snapshots) : snapshots'[g] = snapshots[g]
  BY <1>0, <1>1 DEF Cache!TypeOK
<1>4. \A g \in 1 .. Len(snapshots) : Cache!Build(g, overlays)' = Cache!Build(g, overlays)
  BY <1>2, <1>3 DEF Cache!Build
<1>5. Cache!TypeOK'
  BY <1>0, <1>2, <1>3 DEF Cache!TypeOK
<1>6. Cache!AnswersAreCurrent'
  BY <1>0, <1>2, <1>4 DEF Cache!TypeOK, Cache!AnswersAreCurrent
<1>7. Cache!CacheIsCurrent'
  BY <1>0, <1>2, <1>4 DEF Cache!TypeOK, Cache!CacheIsCurrent
<1> QED  BY <1>5, <1>6, <1>7 DEF CacheInv

(* A document changes while nobody reads, and clears the cache.            *)
LEMMA DocumentStep ==
  ASSUME CacheInv, NEW p \in Buffers, Cache!Remove(p) \/ \E t \in Contents : Cache!Insert(p, t)
  PROVE  CacheInv'
<1>1. Cache!TypeOK
  BY DEF CacheInv
<1>2. Cache!Readers = {}
  BY DEF Cache!Remove, Cache!Insert
<1>3. cache' = None /\ UNCHANGED <<snapshots, pc, snap, answer>>
  BY DEF Cache!Remove, Cache!Insert
<1>4. overlays' \in Cache!Sources
  BY <1>1 DEF Cache!Remove, Cache!Insert, Cache!TypeOK, Cache!Sources
<1> QED  BY <1>1, <1>2, <1>3, <1>4, NoReaders DEF CacheInv, Cache!TypeOK, Cache!AnswersAreCurrent, Cache!CacheIsCurrent

LEMMA QueryStep ==
  ASSUME CacheInv, NEW q \in Queries, Cache!Take(q) \/ Cache!Lock(q) \/ Cache!Ask(q) \/ Cache!Store(q) \/ Cache!Release(q)
  PROVE  CacheInv'
<1>0. Cache!TypeOK /\ Cache!AnswersAreCurrent /\ Cache!CacheIsCurrent
  BY DEF CacheInv
<1>1. UNCHANGED <<snapshots, overlays>>
  BY DEF Cache!Take, Cache!Lock, Cache!Ask, Cache!Store, Cache!Release
<1>2. snap[q] \in 1 .. Len(snapshots) /\ Len(snapshots) \in 1 .. Len(snapshots)
  BY <1>0 DEF Cache!TypeOK
<1>3. CASE Cache!Take(q) \/ Cache!Lock(q) \/ Cache!Release(q)
  <2>1. UNCHANGED cache
    BY <1>3 DEF Cache!Take, Cache!Lock, Cache!Release
  <2>2. Cache!TypeOK'
    BY <1>0, <1>1, <1>2, <1>3, <2>1 DEF Cache!Take, Cache!Lock, Cache!Release, Cache!TypeOK
  <2>3. Cache!AnswersAreCurrent'
    BY <1>0, <1>1, <1>3 DEF Cache!Take, Cache!Lock, Cache!Release, Cache!TypeOK, Cache!AnswersAreCurrent, Cache!Build
  <2>4. Cache!CacheIsCurrent'
    BY <1>0, <1>1, <2>1 DEF Cache!CacheIsCurrent, Cache!Build
  <2> QED  BY <2>2, <2>3, <2>4 DEF CacheInv
<1>4. CASE Cache!Ask(q)
  <2>1. UNCHANGED <<cache, snap>>
    BY <1>4 DEF Cache!Ask
  <2>2. CASE pc' = [pc EXCEPT ![q] = "building"] /\ UNCHANGED answer
    <3>1. Cache!TypeOK'
      BY <1>0, <1>1, <1>4, <2>1, <2>2 DEF Cache!Ask, Cache!TypeOK
    <3>2. Cache!AnswersAreCurrent' /\ Cache!CacheIsCurrent'
      BY <1>0, <1>1, <2>1, <2>2 DEF Cache!AnswersAreCurrent, Cache!CacheIsCurrent, Cache!Build
    <3> QED  BY <3>1, <3>2 DEF CacheInv
  <2>3. CASE answer' = [answer EXCEPT ![q] = Cache!Build(snap[q], overlays)] /\ UNCHANGED pc
    <3>1. PICK v \in Cache!Sources : Cache!Build(snap[q], overlays) = SchemasOf(v)
      BY <1>0, <1>2, BuildType
    <3>2. Cache!TypeOK'
      BY <1>0, <1>1, <1>4, <2>1, <2>3, <3>1 DEF Cache!Ask, Cache!TypeOK
    <3>3. Cache!AnswersAreCurrent'
      BY <1>0, <1>1, <2>1, <2>3 DEF Cache!TypeOK, Cache!AnswersAreCurrent, Cache!Build
    <3>4. Cache!CacheIsCurrent'
      BY <1>0, <1>1, <2>1 DEF Cache!CacheIsCurrent, Cache!Build
    <3> QED  BY <3>2, <3>3, <3>4 DEF CacheInv
  <2>4. Cache!Hits(q) => cache.schemas = Cache!Build(snap[q], overlays)
    BY <1>0 DEF Cache!Hits, Cache!CacheIsCurrent
  <2> QED  BY <1>4, <2>2, <2>3, <2>4 DEF Cache!Ask
<1>5. CASE Cache!Store(q)
  <2>1. PICK v \in Cache!Sources : Cache!Built(q) = SchemasOf(v)
    BY <1>0, <1>2, BuildType DEF Cache!Built
  <2>2. /\ cache' = [generation |-> snap[q], schemas |-> Cache!Built(q)]
        /\ answer' = [answer EXCEPT ![q] = Cache!Built(q)]
        /\ pc' = [pc EXCEPT ![q] = "reading"] /\ snap' = snap
    BY <1>5 DEF Cache!Store
  <2>3. Cache!TypeOK'
    BY <1>0, <1>1, <1>2, <2>1, <2>2 DEF Cache!TypeOK
  <2>4. Cache!AnswersAreCurrent'
    BY <1>0, <1>1, <2>2 DEF Cache!TypeOK, Cache!AnswersAreCurrent, Cache!Built, Cache!Build
  <2>5. Cache!CacheIsCurrent'
    BY <1>1, <2>2 DEF Cache!CacheIsCurrent, Cache!Built, Cache!Build
  <2> QED  BY <2>3, <2>4, <2>5 DEF CacheInv
<1> QED  BY <1>3, <1>4, <1>5

LEMMA CacheStep ==
  ASSUME CacheInv, [Cache!Next]_cached
  PROVE  CacheInv'
<1>1. CASE UNCHANGED cached
  BY <1>1 DEF cached, CacheInv, Cache!TypeOK, Cache!AnswersAreCurrent, Cache!CacheIsCurrent, Cache!Build
<1> QED  BY <1>1, PublishStep, DocumentStep, QueryStep DEF Cache!Next

-----------------------------------------------------------------------------
(* Resolution: sets of declarations and of symbols.                        *)

LEMMA FiniteImage ==
  ASSUME NEW S, IsFiniteSet(S), NEW f, DOMAIN f = S
  PROVE  IsFiniteSet({f[x] : x \in S})
<1> DEFINE T == {f[x] : x \in S}
           g == [x \in S |-> f[x]]
<1>1. g \in Surjection(S, T)
  BY DEF Surjection
<1> QED  BY <1>1, FS_Surjection

-----------------------------------------------------------------------------
(* Resolution: the text that is shown of a file, and what it declares.     *)

Shown(p) == IF IsOpen(p) THEN documents[p].file ELSE disk[p]

LEMMA TextFacts ==
  ASSUME NEW t \in Texts
  PROVE  /\ IsFiniteSet(t.definitions)
         /\ \A d \in t.definitions : d.line \in Nat /\ d.kind # None
         /\ \A d, e \in t.definitions : d.line = e.line => d = e
  BY ResolutionAssumption

LEMMA ShownType ==
  ASSUME TypeOK, NEW p \in Paths
  PROVE  /\ Shown(p) \in Texts /\ disk[p] \in Texts
         /\ IsOpen(p) => documents[p] \in [module : Ranks, file : Texts]
  BY DEF TypeOK, Shown, IsOpen

Declared(p, d) == [path |-> p, definition |-> d]

LEMMA VisibleMembers ==
  ASSUME TypeOK, NEW rank \in Ranks, NEW r
  PROVE  r \in VisibleRecords(rank) <=>
           \E p \in Paths :
             /\ \E d \in Shown(p).definitions : r = Declared(p, d)
             /\ IF IsOpen(p) THEN documents[p].module = rank ELSE rank \in Indexing(p)
<1>1. r \in OpenRecords(rank) <=>
        \E p \in Paths : /\ IsOpen(p) /\ documents[p].module = rank
                         /\ \E d \in documents[p].file.definitions : r = Declared(p, d)
  BY DEF OpenRecords, OpenIn, Declared
<1>2. r \in Records(rank) <=>
        \E p \in Paths : rank \in Indexing(p) /\ \E d \in disk[p].definitions : r = Declared(p, d)
  BY DEF Records, Declared
<1>3. \A p, d : r = Declared(p, d) => r.path = p
  BY DEF Declared
<1>4. r \in VisibleRecords(rank) <=> r \in OpenRecords(rank) \/ (r \in Records(rank) /\ ~IsOpen(r.path))
  BY DEF VisibleRecords
<1> QED  BY <1>1, <1>2, <1>3, <1>4 DEF Shown

LEMMA VisibleFacts ==
  ASSUME TypeOK, NEW rank \in Ranks, NEW r \in VisibleRecords(rank)
  PROVE  /\ r.path \in Paths /\ r.definition \in Shown(r.path).definitions
         /\ r = Declared(r.path, r.definition) /\ r.definition.line \in Nat
         /\ IF IsOpen(r.path) THEN documents[r.path].module = rank ELSE rank \in Indexing(r.path)
         /\ \A s \in VisibleRecords(rank) :
              s.path = r.path /\ s.definition.line = r.definition.line => s = r
<1>1. \A s \in VisibleRecords(rank) :
        /\ s.path \in Paths /\ s.definition \in Shown(s.path).definitions
        /\ s = Declared(s.path, s.definition)
        /\ IF IsOpen(s.path) THEN documents[s.path].module = rank ELSE rank \in Indexing(s.path)
  BY VisibleMembers DEF Declared
<1>2. Shown(r.path) \in Texts
  BY <1>1, ShownType
<1>3. ASSUME NEW s \in VisibleRecords(rank), s.path = r.path, s.definition.line = r.definition.line
      PROVE  s = r
  <2>1. s.definition = r.definition
    BY <1>1, <1>2, <1>3, TextFacts
  <2> QED  BY <1>1, <1>3, <2>1
<1> QED  BY <1>1, <1>2, <1>3, TextFacts

LEMMA VisibleFinite ==
  ASSUME TypeOK, NEW rank \in Ranks
  PROVE  IsFiniteSet(VisibleRecords(rank))
<1> DEFINE Of(p) == {Declared(p, d) : d \in Shown(p).definitions}
           all == UNION {Of(p) : p \in Paths}
<1>1. ASSUME NEW p \in Paths PROVE IsFiniteSet(Of(p))
  <2> DEFINE f == [d \in Shown(p).definitions |-> Declared(p, d)]
  <2>1. IsFiniteSet(Shown(p).definitions)
    BY ShownType, TextFacts
  <2>2. Of(p) = {f[d] : d \in Shown(p).definitions}
    OBVIOUS
  <2>3. IsFiniteSet({f[d] : d \in Shown(p).definitions})
    <3>1. DOMAIN f = Shown(p).definitions
      OBVIOUS
    <3> HIDE DEF f
    <3> QED  BY <2>1, <3>1, FiniteImage
  <2> QED  BY <2>2, <2>3
<1> HIDE DEF Of
<1>2. IsFiniteSet({Of(p) : p \in Paths})
  <2> DEFINE f == [p \in Paths |-> Of(p)]
  <2>1. {Of(p) : p \in Paths} = {f[p] : p \in Paths} /\ DOMAIN f = Paths
    OBVIOUS
  <2>2. IsFiniteSet(Paths)
    BY ResolutionAssumption
  <2> HIDE DEF f
  <2> QED  BY <2>1, <2>2, FiniteImage
<1>3. IsFiniteSet(all)
  <2>1. \A T \in {Of(p) : p \in Paths} : IsFiniteSet(T)
    BY <1>1
  <2> QED  BY <1>2, <2>1, FS_UNION
<1>4. \A r \in VisibleRecords(rank) : r \in all
  BY VisibleMembers DEF Of
<1> HIDE DEF all
<1> QED  BY <1>3, <1>4, FS_Subset

-----------------------------------------------------------------------------
(* Resolution: what a module declares under a name.                        *)

IsInstalled(rank, p, d) ==
  \E c \in Packaged : c.module = rank /\ c.package = p /\ c.definition = d

LEMMA AtRankMembers ==
  ASSUME NEW rank \in Ranks, NEW t, NEW g \in AtRank(rank, t)
  PROVE  /\ g = Found(rank, g.path, g.definition, g.packaged) /\ g.packaged \in BOOLEAN
         /\ ~g.packaged => Declared(g.path, g.definition) \in VisibleRecords(rank)
         /\ g.packaged => IsInstalled(rank, g.path, g.definition)
<1>1. \A r \in OpenRecords(rank) \cup IndexResolve(rank, t) : r = Declared(r.path, r.definition)
  BY DEF OpenRecords, IndexResolve, Records, Declared
<1>2. IndexResolve(rank, t) \subseteq Records(rank)
  BY DEF IndexResolve
<1>3. CASE \E r \in VisibleRecords(rank) : r = Declared(r.path, r.definition) /\ g = Found(rank, r.path, r.definition, FALSE)
  BY <1>3 DEF Found
<1>4. CASE g \in Installed(rank, t)
  <2>1. PackagedCandidates(t) \subseteq Packaged
    BY DEF PackagedCandidates
  <2>2. PICK c \in Packaged : c.module = rank /\ g = Found(rank, c.package, c.definition, TRUE)
    BY <1>4, <2>1 DEF Installed
  <2> QED  BY <2>2 DEF IsInstalled, Found
<1>5. g \in Installed(rank, t) \/ \E r \in VisibleRecords(rank) :
        r = Declared(r.path, r.definition) /\ g = Found(rank, r.path, r.definition, FALSE)
  <2>1. CASE g \in Loose(rank, {r \in OpenRecords(rank) : Matches(r.definition, t)})
    BY <1>1, <2>1 DEF Loose, VisibleRecords
  <2>2. CASE g \in Loose(rank, {r \in IndexResolve(rank, t) : ~IsOpen(r.path)})
    BY <1>1, <1>2, <2>2 DEF Loose, VisibleRecords
  <2> QED  BY <2>1, <2>2 DEF AtRank
<1> QED  BY <1>3, <1>4, <1>5

LEMMA AtRankUnique ==
  ASSUME TypeOK, NEW rank \in Ranks, NEW t, NEW g \in AtRank(rank, t), NEW h \in AtRank(rank, t),
         g.path = h.path, g.definition.line = h.definition.line
  PROVE  g = h
<1>1. CASE ~g.packaged /\ ~h.packaged
  <2>1. /\ Declared(g.path, g.definition) \in VisibleRecords(rank)
        /\ Declared(h.path, h.definition) \in VisibleRecords(rank)
    BY <1>1, AtRankMembers
  <2>2. \A p, d : Declared(p, d).path = p /\ Declared(p, d).definition = d
    BY DEF Declared
  <2>3. Declared(g.path, g.definition) = Declared(h.path, h.definition)
    BY <2>1, <2>2, VisibleFacts
  <2>4. g.definition = h.definition
    BY <2>2, <2>3
  <2> QED  BY <1>1, <2>4, AtRankMembers
<1>2. CASE g.packaged /\ h.packaged
  <2>1. g.definition = h.definition
    BY <1>2, AtRankMembers, ResolutionAssumption DEF IsInstalled
  <2> QED  BY <1>2, <2>1, AtRankMembers
<1>3. \A f \in AtRank(rank, t) : IF f.packaged THEN f.path \notin Paths ELSE f.path \in Paths
  <2> TAKE f \in AtRank(rank, t)
  <2>1. CASE f.packaged
    BY <2>1, AtRankMembers, ResolutionAssumption DEF IsInstalled
  <2>2. CASE ~f.packaged
    <3>1. Declared(f.path, f.definition) \in VisibleRecords(rank)
      BY <2>2, AtRankMembers
    <3>2. Declared(f.path, f.definition).path \in Paths
      BY <3>1, VisibleFacts
    <3> QED  BY <2>2, <3>2 DEF Declared
  <2> QED  BY <2>1, <2>2
<1>4. g.packaged \in BOOLEAN /\ h.packaged \in BOOLEAN
  BY AtRankMembers
<1> QED  BY <1>1, <1>2, <1>3, <1>4

LEMMA AtRankFinite ==
  ASSUME TypeOK, NEW rank \in Ranks, NEW t
  PROVE  IsFiniteSet(AtRank(rank, t))
<1> DEFINE f == [r \in VisibleRecords(rank) |-> Found(rank, r.path, r.definition, FALSE)]
           e == [c \in Packaged |-> Found(rank, c.package, c.definition, TRUE)]
           F == {f[r] : r \in VisibleRecords(rank)}
           E == {e[c] : c \in Packaged}
<1>1. DOMAIN f = VisibleRecords(rank) /\ DOMAIN e = Packaged
  OBVIOUS
<1>2. AtRank(rank, t) \subseteq F \cup E
  <2> SUFFICES ASSUME NEW g \in AtRank(rank, t) PROVE g \in F \cup E
    OBVIOUS
  <2>1. CASE ~g.packaged
    <3>1. Declared(g.path, g.definition) \in VisibleRecords(rank) /\ g = Found(rank, g.path, g.definition, FALSE)
      BY <2>1, AtRankMembers
    <3>2. f[Declared(g.path, g.definition)] = g
      BY <3>1 DEF Declared
    <3> QED  BY <3>1, <3>2
  <2>2. CASE g.packaged
    <3>1. PICK c \in Packaged : c.package = g.path /\ c.definition = g.definition
      BY <2>2, AtRankMembers DEF IsInstalled
    <3>2. g = Found(rank, g.path, g.definition, TRUE)
      BY <2>2, AtRankMembers
    <3>3. e[c] = g
      BY <3>1, <3>2
    <3> QED  BY <3>3
  <2>3. g.packaged \in BOOLEAN
    BY AtRankMembers
  <2> QED  BY <2>1, <2>2, <2>3
<1>3. IsFiniteSet(VisibleRecords(rank)) /\ IsFiniteSet(Packaged)
  BY VisibleFinite, ResolutionAssumption
<1> HIDE DEF f, e
<1>4. IsFiniteSet(F) /\ IsFiniteSet(E)
  BY <1>1, <1>3, FiniteImage
<1>5. IsFiniteSet(F \cup E)
  BY <1>4, FS_Union
<1> HIDE DEF F, E
<1> QED  BY <1>2, <1>5, FS_Subset

(* A candidate is a declaration of its module, marked if there are others. *)
Ambiguous(rank, t) == Cardinality(AtRank(rank, t)) > 1 /\ t.tag # "database"

Plain(f) == Found(f.rank, f.path, f.definition, f.packaged)

LEMMA CandidateFacts ==
  ASSUME NEW t, NEW f \in Candidates(t)
  PROVE  /\ f.rank \in Ranks /\ f.ambiguous = Ambiguous(f.rank, t) /\ f.packaged \in BOOLEAN
         /\ Plain(f) \in AtRank(f.rank, t)
         /\ f = [Plain(f) EXCEPT !.ambiguous = f.ambiguous]
<1>1. PICK rank \in Ranks : f \in Marked(rank, t)
  BY DEF Candidates
<1>2. PICK g \in AtRank(rank, t) : f = [g EXCEPT !.ambiguous = Ambiguous(rank, t)]
  BY <1>1 DEF Marked, Ambiguous
<1>3. g = Found(rank, g.path, g.definition, g.packaged) /\ g.packaged \in BOOLEAN
  BY AtRankMembers
<1>4. /\ f.rank = rank /\ f.path = g.path /\ f.definition = g.definition /\ f.packaged = g.packaged
      /\ f.ambiguous = Ambiguous(rank, t)
  BY <1>2, <1>3 DEF Found
<1>5. Plain(f) = g
  BY <1>3, <1>4 DEF Plain
<1> QED  BY <1>2, <1>3, <1>4, <1>5

LEMMA CandidateOf ==
  ASSUME NEW t, NEW rank \in Ranks, NEW g \in AtRank(rank, t)
  PROVE  \E f \in Candidates(t) :
           /\ Plain(f) = g /\ f.rank = rank /\ f.path = g.path
           /\ f.definition = g.definition /\ f.packaged = g.packaged
<1> DEFINE f == [g EXCEPT !.ambiguous = Ambiguous(rank, t)]
<1>1. g = Found(rank, g.path, g.definition, g.packaged)
  BY AtRankMembers
<1>2. /\ f.rank = rank /\ f.path = g.path /\ f.definition = g.definition /\ f.packaged = g.packaged
  BY <1>1 DEF Found
<1>3. f \in Marked(rank, t)
  BY DEF Marked, Ambiguous
<1>4. f \in Candidates(t)
  BY <1>3 DEF Candidates
<1> HIDE DEF f
<1>5. Plain(f) = g
  BY <1>1, <1>2 DEF Plain
<1> QED  BY <1>2, <1>4, <1>5

LEMMA CandidatesFinite ==
  ASSUME TypeOK, NEW t
  PROVE  IsFiniteSet(Candidates(t))
<1>1. ASSUME NEW rank \in Ranks PROVE IsFiniteSet(Marked(rank, t))
  <2> DEFINE f == [g \in AtRank(rank, t) |-> [g EXCEPT !.ambiguous = Ambiguous(rank, t)]]
  <2>1. Marked(rank, t) = {f[g] : g \in AtRank(rank, t)} /\ DOMAIN f = AtRank(rank, t)
    BY DEF Marked, Ambiguous
  <2>2. IsFiniteSet(AtRank(rank, t))
    BY AtRankFinite
  <2> HIDE DEF f
  <2> QED  BY <2>1, <2>2, FiniteImage
<1> DEFINE f == [rank \in Ranks |-> Marked(rank, t)]
<1>2. {Marked(rank, t) : rank \in Ranks} = {f[rank] : rank \in Ranks} /\ DOMAIN f = Ranks
  OBVIOUS
<1>3. IsFiniteSet(Ranks)
  BY ResolutionAssumption
<1> HIDE DEF f
<1>4. IsFiniteSet({Marked(rank, t) : rank \in Ranks})
  BY <1>2, <1>3, FiniteImage
<1>5. \A T \in {Marked(rank, t) : rank \in Ranks} : IsFiniteSet(T)
  BY <1>1
<1> QED  BY <1>4, <1>5, FS_UNION DEF Candidates

(* No two candidates have the same place, so that their order is strict.   *)
LEMMA CandidateUnique ==
  ASSUME TypeOK, NEW t, NEW f \in Candidates(t), NEW g \in Candidates(t),
         f.rank = g.rank, f.path = g.path, f.definition.line = g.definition.line
  PROVE  f = g
<1>1. /\ Plain(f) \in AtRank(f.rank, t) /\ Plain(g) \in AtRank(f.rank, t) /\ f.rank \in Ranks
      /\ f.ambiguous = g.ambiguous
  BY CandidateFacts
<1>2. /\ Plain(f).path = f.path /\ Plain(f).definition = f.definition
      /\ Plain(g).path = g.path /\ Plain(g).definition = g.definition
  BY DEF Plain, Found
<1>3. Plain(f) = Plain(g)
  BY <1>1, <1>2, AtRankUnique
<1> QED  BY <1>1, <1>3, CandidateFacts

LEMMA CandidateNumbers ==
  ASSUME TypeOK, NEW t, NEW f \in Candidates(t)
  PROVE  f.rank \in Nat /\ f.path \in Nat /\ f.definition.line \in Nat
<1>1. f.rank \in Ranks /\ Plain(f) \in AtRank(f.rank, t) /\ f.packaged \in BOOLEAN
  BY CandidateFacts
<1>2. Plain(f).path = f.path /\ Plain(f).definition = f.definition /\ Plain(f).packaged = f.packaged
  BY DEF Plain, Found
<1>3. CASE f.packaged
  <2>0. IsInstalled(f.rank, f.path, f.definition)
    <3>1. IsInstalled(f.rank, Plain(f).path, Plain(f).definition)
      BY <1>1, <1>2, <1>3, AtRankMembers
    <3> QED  BY <1>2, <3>1
  <2>1. PICK c \in Packaged : c.package = f.path /\ c.definition = f.definition
    BY <2>0 DEF IsInstalled
  <2>2. c.package \in Nat /\ c.definition.line \in Nat
    BY ResolutionAssumption
  <2>3. f.rank \in Nat
    BY <1>1, ResolutionAssumption
  <2> QED  BY <2>1, <2>2, <2>3
<1>4. CASE ~f.packaged
  <2>1. Declared(f.path, f.definition) \in VisibleRecords(f.rank)
    BY <1>1, <1>2, <1>4, AtRankMembers
  <2>2. Declared(f.path, f.definition).path = f.path /\ Declared(f.path, f.definition).definition = f.definition
    BY DEF Declared
  <2>3. f.path \in Paths /\ f.definition.line \in Nat
    BY <1>1, <2>1, <2>2, VisibleFacts
  <2> QED  BY <1>1, <2>3, ResolutionAssumption
<1> QED  BY <1>1, <1>3, <1>4

Precedence(S) == {fg \in S \X S : Precedes(fg[1], fg[2])}

LEMMA PrecedenceOrders ==
  ASSUME TypeOK, NEW t, NEW S \in SUBSET Candidates(t)
  PROVE  Orders(Precedence(S), S)
<1>1. \A f, g : <<f, g>> \in Precedence(S) <=> f \in S /\ g \in S /\ Precedes(f, g)
  BY DEF Precedence
<1>2. \A f \in S : f.rank \in Nat /\ f.path \in Nat /\ f.definition.line \in Nat
  BY CandidateNumbers
<1>3. \A f \in S : ~Precedes(f, f)
  BY <1>2 DEF Precedes, Before
<1>4. \A f, g, h \in S : Precedes(f, g) /\ Precedes(g, h) => Precedes(f, h)
  BY <1>2 DEF Precedes, Before
<1>5. \A f, g \in S : f = g \/ Precedes(f, g) \/ Precedes(g, f)
  BY <1>2, CandidateUnique DEF Precedes, Before
<1> QED  BY <1>1, <1>3, <1>4, <1>5 DEF Orders, Precedence

LEMMA ChainArranges ==
  ASSUME TypeOK, NEW t, NEW S \in SUBSET Candidates(t)
  PROVE  Arranges(Chain(S), S, Precedence(S))
<1>1. IsFiniteSet(S)
  BY CandidatesFinite, FS_Subset
<1>2. Arranges(Arranged(S, [f \in S |-> Cardinality({g \in S : <<g, f>> \in Precedence(S)})]), S, Precedence(S))
  BY <1>1, PrecedenceOrders, OrderArranges
<1>3. \A f \in S : {g \in S : <<g, f>> \in Precedence(S)} = {g \in S : Precedes(g, f)}
  BY DEF Precedence
<1>4. [f \in S |-> Cardinality({g \in S : <<g, f>> \in Precedence(S)})]
        = [f \in S |-> Cardinality({g \in S : Precedes(g, f)})]
  BY <1>3
<1> QED  BY <1>2, <1>4 DEF Chain

-----------------------------------------------------------------------------
(* Resolution: reachable states.                                           *)

LEMMA FirstOf ==
  ASSUME NEW S, IsFiniteSet(S), S # {}, NEW R, Orders(R, S)
  PROVE  \E x \in S : \A y \in S : y = x \/ <<x, y>> \in R
<1> DEFINE list == Arranged(S, [x \in S |-> Cardinality({y \in S : <<y, x>> \in R})])
<1>1. Arranges(list, S, R)
  BY OrderArranges
<1> HIDE DEF list
<1>2. PICK i \in 1 .. Len(list) : list[i] \in S
  BY <1>1 DEF Arranges
<1>3. Len(list) \in Nat /\ 1 \in 1 .. Len(list) /\ list[1] \in S
  <2>1. list \in Seq(S)
    BY <1>1 DEF Arranges
  <2> QED  BY <1>2, <2>1
<1>4. ASSUME NEW y \in S PROVE y = list[1] \/ <<list[1], y>> \in R
  <2>1. PICK j \in 1 .. Len(list) : list[j] = y
    BY <1>1 DEF Arranges
  <2>2. j = 1 \/ 1 < j
    BY <1>3
  <2> QED  BY <1>1, <1>3, <2>1, <2>2 DEF Arranges
<1> QED  BY <1>3, <1>4

LEMMA LeastOf ==
  ASSUME NEW S \in SUBSET Nat, IsFiniteSet(S), S # {}
  PROVE  Least(S) \in S /\ \A s \in S : Least(S) <= s
<1> DEFINE R == {ss \in S \X S : ss[1] < ss[2]}
<1>0. \A x, y : <<x, y>> \in R <=> x \in S /\ y \in S /\ x < y
  OBVIOUS
<1>1. Orders(R, S)
  BY DEF Orders
<1> HIDE DEF R
<1>2. PICK x \in S : \A y \in S : y = x \/ <<x, y>> \in R
  BY <1>1, FirstOf
<1>3. ASSUME NEW y \in S PROVE x <= y
  <2>1. x \in Nat /\ y \in Nat
    OBVIOUS
  <2>2. y = x \/ x < y
    BY <1>0, <1>2
  <2> QED  BY <2>1, <2>2
<1> QED  BY <1>3 DEF Least

Greatest(S) == CHOOSE r \in S : \A s \in S : s <= r

LEMMA GreatestOf ==
  ASSUME NEW S \in SUBSET Nat, IsFiniteSet(S), S # {}
  PROVE  Greatest(S) \in S /\ \A s \in S : s <= Greatest(S)
<1> DEFINE R == {ss \in S \X S : ss[2] < ss[1]}
<1>0. \A x, y : <<x, y>> \in R <=> x \in S /\ y \in S /\ y < x
  OBVIOUS
<1>1. Orders(R, S)
  BY DEF Orders
<1> HIDE DEF R
<1>2. PICK x \in S : \A y \in S : y = x \/ <<x, y>> \in R
  BY <1>1, FirstOf
<1>3. ASSUME NEW y \in S PROVE y <= x
  <2>1. x \in Nat /\ y \in Nat
    OBVIOUS
  <2>2. y = x \/ y < x
    BY <1>0, <1>2
  <2> QED  BY <2>1, <2>2
<1> QED  BY <1>3 DEF Greatest

LEMMA RankFinite ==
  ASSUME NEW S \in SUBSET Ranks
  PROVE  IsFiniteSet(S) /\ S \subseteq Nat
  BY ResolutionAssumption, FS_Subset

LEMMA IndexingLeast ==
  ASSUME NEW p \in Paths, Indexing(p) # {}
  PROVE  Least(Indexing(p)) \in Indexing(p) /\ Indexing(p) \subseteq Ranks
<1>1. Indexing(p) \in SUBSET Ranks
  BY ResolutionAssumption
<1> QED  BY <1>1, RankFinite, LeastOf

LEMMA ModuleType ==
  ASSUME NEW p \in Paths, ModuleForPath(p) # None
  PROVE  ModuleForPath(p) \in Ranks
<1>1. CASE Indexing(p) # {}
  BY <1>1, IndexingLeast DEF ModuleForPath
<1>2. CASE Indexing(p) = {}
  <2>1. Containing(p) \in Seq(Ranks) /\ Containing(p) # <<>> /\ ModuleForPath(p) = Containing(p)[1]
    BY <1>2, ResolutionAssumption DEF ModuleForPath
  <2> QED  BY <2>1
<1> QED  BY <1>1, <1>2

LEMMA NamesInit == Init => TypeOK
  BY DEF Init, TypeOK

LEMMA NamesStep ==
  ASSUME TypeOK, [Next]_vars
  PROVE  TypeOK'
<1>1. ASSUME NEW p \in Paths, NEW t \in Texts, Insert(p, t) PROVE TypeOK'
  BY <1>1, ModuleType DEF Insert, TypeOK
<1>2. ASSUME NEW p \in Paths, Close(p) PROVE TypeOK'
  BY <1>2 DEF Close, TypeOK
<1>3. CASE UNCHANGED vars
  BY <1>3 DEF vars, TypeOK
<1> QED  BY <1>1, <1>2, <1>3 DEF Next

-----------------------------------------------------------------------------
(* Resolution: answers name places in the text that is shown.              *)

LEMMA FileShown ==
  ASSUME TypeOK, NEW p \in Paths, IsOpen(p) \/ Indexing(p) # {}
  PROVE  /\ File(p) # None /\ File(p).file = Shown(p)
         /\ File(p).module = IF IsOpen(p) THEN documents[p].module ELSE Least(Indexing(p))
<1>1. CASE IsOpen(p)
  BY <1>1 DEF File, Shown, IsOpen
<1>2. CASE ~IsOpen(p)
  <2>1. File(p) = [module |-> Least(Indexing(p)), file |-> disk[p]]
    BY <1>2 DEF File
  <2>2. Least(Indexing(p)) \in Ranks /\ disk[p] \in Texts
    BY <1>2, IndexingLeast, ShownType
  <2>3. File(p) \in [module : Ranks, file : Texts]
    BY <2>1, <2>2
  <2> QED  BY <1>2, <2>1, <2>3, ResolutionAssumption DEF Shown
<1> QED  BY <1>1, <1>2

LEMMA LooseCandidates ==
  ASSUME TypeOK, NEW t, NEW f \in Candidates(t), ~f.packaged
  PROVE  /\ f.rank \in Ranks /\ Declared(f.path, f.definition) \in VisibleRecords(f.rank)
         /\ f.path \in Paths /\ f.definition \in Shown(f.path).definitions
         /\ File(f.path).file = Shown(f.path)
<1>1. f.rank \in Ranks /\ Plain(f) \in AtRank(f.rank, t)
  BY CandidateFacts
<1>2. Plain(f).path = f.path /\ Plain(f).definition = f.definition /\ Plain(f).packaged = f.packaged
  BY DEF Plain, Found
<1>3. Declared(f.path, f.definition) \in VisibleRecords(f.rank)
  BY <1>1, <1>2, AtRankMembers
<1>4. Declared(f.path, f.definition).path = f.path /\ Declared(f.path, f.definition).definition = f.definition
  BY DEF Declared
<1>5. /\ f.path \in Paths /\ f.definition \in Shown(f.path).definitions
      /\ IF IsOpen(f.path) THEN documents[f.path].module = f.rank ELSE f.rank \in Indexing(f.path)
  BY <1>1, <1>3, <1>4, VisibleFacts
<1> QED  BY <1>1, <1>3, <1>5, FileShown

Live(l) == \E x \in File(l.path).file.definitions \cup File(l.path).file.references : x.line = l.line

LEMMA DeclarationsLive ==
  ASSUME TypeOK, NEW t, NEW l \in DeclarationsOf(t)
  PROVE  Live(l)
<1>1. PICK f \in Candidates(t) : ~f.packaged /\ l = Location(f.path, f.definition.line)
  BY DEF DeclarationsOf
<1>2. l.path = f.path /\ l.line = f.definition.line
  BY <1>1 DEF Location
<1> QED  BY <1>1, <1>2, LooseCandidates DEF Live

LEMMA ReferencesLive ==
  ASSUME TypeOK, NEW p, NEW line, NEW l \in References(p, line, TRUE)
  PROVE  Live(l)
<1> DEFINE t == TargetAt(p, line)
           In(q, text) == {Location(q, r.line) : r \in {r \in text.references : r.target = t}}
<1>1. \/ l \in DeclarationsOf(t)
      \/ \E q \in Paths : IsOpen(q) /\ l \in In(q, documents[q].file)
      \/ \E q \in Paths : ~IsOpen(q) /\ Indexing(q) # {} /\ l \in In(q, disk[q])
  BY DEF References, OpenIn
<1>2. ASSUME NEW q \in Paths, IsOpen(q) \/ Indexing(q) # {}, l \in In(q, Shown(q))
      PROVE  Live(l)
  <2>1. PICK r \in Shown(q).references : l = Location(q, r.line)
    BY <1>2
  <2>2. l.path = q /\ l.line = r.line
    BY <2>1 DEF Location
  <2> QED  BY <1>2, <2>1, <2>2, FileShown DEF Live
<1> HIDE DEF t, In
<1>3. CASE \E q \in Paths : IsOpen(q) /\ l \in In(q, documents[q].file)
  BY <1>2, <1>3 DEF Shown
<1>4. CASE \E q \in Paths : ~IsOpen(q) /\ Indexing(q) # {} /\ l \in In(q, disk[q])
  BY <1>2, <1>4 DEF Shown
<1> QED  BY <1>1, <1>3, <1>4, DeclarationsLive

(* The symbols are those of the visible records, in a strict order.        *)
LEMMA SymbolMembers ==
  ASSUME TypeOK, NEW names, NEW s
  PROVE  s \in Symbols(names) <=>
           \E rank \in Ranks : \E r \in VisibleRecords(rank) :
             r.definition.name \in names /\ s = Symbol(rank, r.path, r.definition)
  BY DEF Symbols

LEMMA SymbolFacts ==
  ASSUME TypeOK, NEW names, NEW s \in Symbols(names)
  PROVE  /\ s.module \in Ranks /\ s.module \in Nat /\ s.path \in Paths /\ s.path \in Nat /\ s.line \in Nat
         /\ IsOpen(s.path) => s.module = documents[s.path].module
         /\ \A u \in Symbols(names) :
              u.module = s.module /\ u.path = s.path /\ u.line = s.line => u = s
<1> DEFINE Of(u, r) == r \in VisibleRecords(u.module) /\ u = Symbol(u.module, r.path, r.definition)
<1>1. \A u \in Symbols(names) : u.module \in Ranks /\ \E r : Of(u, r)
  BY SymbolMembers DEF Symbol
<1>2. PICK r : Of(s, r)
  BY <1>1
<1>3. /\ s.module \in Ranks /\ s.path = r.path /\ s.line = r.definition.line
      /\ r.path \in Paths /\ r.definition.line \in Nat
      /\ IsOpen(r.path) => s.module = documents[r.path].module
      /\ \A x \in VisibleRecords(s.module) :
           x.path = r.path /\ x.definition.line = r.definition.line => x = r
  BY <1>1, <1>2, VisibleFacts DEF Symbol
<1>4. ASSUME NEW u \in Symbols(names), u.module = s.module, u.path = s.path, u.line = s.line
      PROVE  u = s
  <2>1. PICK x : Of(u, x)
    BY <1>1
  <2>2. u.path = x.path /\ u.line = x.definition.line
    BY <2>1 DEF Symbol
  <2>3. x = r
    BY <1>3, <1>4, <2>1, <2>2
  <2> QED  BY <1>2, <1>4, <2>1, <2>3
<1>5. s.module \in Nat /\ s.path \in Nat
  BY <1>3, ResolutionAssumption
<1> QED  BY <1>3, <1>4, <1>5

LEMMA SymbolsFinite ==
  ASSUME TypeOK, NEW names
  PROVE  IsFiniteSet(Symbols(names))
<1> DEFINE Of(rank) == {Symbol(rank, r.path, r.definition) :
                          r \in {r \in VisibleRecords(rank) : r.definition.name \in names}}
<1>1. ASSUME NEW rank \in Ranks PROVE IsFiniteSet(Of(rank))
  <2> DEFINE D == {r \in VisibleRecords(rank) : r.definition.name \in names}
             f == [r \in D |-> Symbol(rank, r.path, r.definition)]
  <2>1. Of(rank) = {f[r] : r \in D} /\ DOMAIN f = D
    OBVIOUS
  <2>2. D \in SUBSET VisibleRecords(rank)
    OBVIOUS
  <2> HIDE DEF f, D, Of
  <2>3. IsFiniteSet(D)
    BY <2>2, VisibleFinite, FS_Subset
  <2>4. IsFiniteSet({f[r] : r \in D})
    BY <2>1, <2>3, FiniteImage
  <2> QED  BY <2>1, <2>4
<1>2. Symbols(names) = UNION {Of(rank) : rank \in Ranks}
  BY DEF Symbols
<1> HIDE DEF Of
<1> DEFINE g == [rank \in Ranks |-> Of(rank)]
<1>3. {Of(rank) : rank \in Ranks} = {g[rank] : rank \in Ranks} /\ DOMAIN g = Ranks
  OBVIOUS
<1>4. IsFiniteSet(Ranks)
  BY ResolutionAssumption
<1> HIDE DEF g
<1>5. IsFiniteSet({Of(rank) : rank \in Ranks})
  BY <1>3, <1>4, FiniteImage
<1>6. \A T \in {Of(rank) : rank \in Ranks} : IsFiniteSet(T)
  BY <1>1
<1> QED  BY <1>2, <1>5, <1>6, FS_UNION

LEMMA SymbolsArranged ==
  ASSUME TypeOK, NEW names
  PROVE  /\ WorkspaceSymbols(names) \in Seq(Symbols(names))
         /\ Len(WorkspaceSymbols(names)) < MaxSymbols =>
              ToSet(WorkspaceSymbols(names)) = Symbols(names)
         /\ Len(WorkspaceSymbols(names)) < MaxSymbols <=> Cardinality(Symbols(names)) < MaxSymbols
<1> DEFINE S == Symbols(names)
           R == {su \in S \X S : Earlier(su[1], su[2])}
           e == [s \in S |-> Cardinality({u \in S : Earlier(u, s)})]
           all == Arranged(S, e)
<1>1. \A s, u : <<s, u>> \in R <=> s \in S /\ u \in S /\ Earlier(s, u)
  OBVIOUS
<1>2. e = [s \in S |-> Cardinality({u \in S : <<u, s>> \in R})]
  <2>1. \A s \in S : {u \in S : Earlier(u, s)} = {u \in S : <<u, s>> \in R}
    OBVIOUS
  <2> QED  BY <2>1
<1>3. R \subseteq S \X S
  OBVIOUS
<1>4. WorkspaceSymbols(names) = SubSeq(all, 1, IF Len(all) < MaxSymbols THEN Len(all) ELSE MaxSymbols)
  BY DEF WorkspaceSymbols
<1>5. \A s \in S : /\ s.module \in Nat /\ s.path \in Nat /\ s.line \in Nat
                   /\ IsOpen(s.path) => s.module = documents[s.path].module
                   /\ \A u \in S : u.module = s.module /\ u.path = s.path /\ u.line = s.line => u = s
  BY SymbolFacts
<1>6. IsFiniteSet(S)
  BY SymbolsFinite
<1> HIDE DEF S, R, e
<1>7. Orders(R, S)
  <2>1. \A s \in S : ~Earlier(s, s)
    BY <1>5 DEF Earlier
  <2>2. ASSUME NEW s \in S, NEW u \in S, NEW v \in S, Earlier(s, u), Earlier(u, v)
        PROVE  Earlier(s, v)
    <3>1. /\ s.module \in Nat /\ s.path \in Nat /\ s.line \in Nat
          /\ u.module \in Nat /\ u.path \in Nat /\ u.line \in Nat
          /\ v.module \in Nat /\ v.path \in Nat /\ v.line \in Nat
      BY <1>5
    <3> QED  BY <2>2, <3>1 DEF Earlier
  <2>3. ASSUME NEW s \in S, NEW u \in S PROVE s = u \/ Earlier(s, u) \/ Earlier(u, s)
    <3>0. /\ s.module \in Nat /\ s.path \in Nat /\ s.line \in Nat
          /\ u.module \in Nat /\ u.path \in Nat /\ u.line \in Nat
          /\ IsOpen(s.path) /\ s.path = u.path => s.module = u.module
          /\ s.module = u.module /\ s.path = u.path /\ s.line = u.line => s = u
      BY <1>5
    <3>1. CASE IsOpen(s.path) /\ IsOpen(u.path)
      BY <3>0, <3>1 DEF Earlier
    <3>2. CASE ~IsOpen(s.path) /\ ~IsOpen(u.path)
      BY <3>0, <3>2 DEF Earlier
    <3>3. CASE ~(IsOpen(s.path) <=> IsOpen(u.path))
      BY <3>3 DEF Earlier
    <3> QED  BY <3>1, <3>2, <3>3
  <2> QED  BY <1>1, <1>3, <2>1, <2>2, <2>3 DEF Orders
<1>8. Arranges(all, S, R)
  BY <1>2, <1>6, <1>7, OrderArranges
<1> HIDE DEF all
<1>9. /\ all \in Seq(S) /\ Len(all) = Cardinality(S) /\ Len(all) \in Nat /\ MaxSymbols \in Nat
      /\ \A x \in S : \E i \in 1 .. Len(all) : all[i] = x
  <2>1. all \in Seq(S)
    BY <1>8 DEF Arranges
  <2> QED  BY <1>8, <2>1, ResolutionAssumption DEF Arranges
<1>10. CASE Len(all) < MaxSymbols
  <2>1. WorkspaceSymbols(names) = SubSeq(all, 1, Len(all))
    BY <1>4, <1>10
  <2>2. SubSeq(all, 1, Len(all)) = all
    BY <1>9
  <2>3. ToSet(all) = S
    <3>1. \A i \in DOMAIN all : all[i] \in S
      BY <1>9
    <3>2. \A x \in S : \E i \in DOMAIN all : all[i] = x
      BY <1>9
    <3> QED  BY <3>1, <3>2 DEF ToSet
  <2> QED  BY <1>9, <1>10, <2>1, <2>2, <2>3 DEF S
<1>11. CASE ~(Len(all) < MaxSymbols)
  <2>1. WorkspaceSymbols(names) = SubSeq(all, 1, MaxSymbols)
    BY <1>4, <1>11
  <2>2. SubSeq(all, 1, MaxSymbols) \in Seq(S) /\ Len(SubSeq(all, 1, MaxSymbols)) = MaxSymbols
    BY <1>9, <1>11
  <2> QED  BY <1>9, <1>11, <2>1, <2>2 DEF S
<1> QED  BY <1>10, <1>11

SymbolOf(s) == [name |-> s.name, kind |-> s.kind, module |-> s.module, line |-> s.line]

LEMMA SymbolsOfFile ==
  ASSUME TypeOK, NEW p \in Paths, IsOpen(p) \/ Cardinality(Indexing(p)) = 1
  PROVE  {SymbolOf(s) : s \in {s \in Symbols(Names) : s.path = p}} = DocumentSymbols(p)
<1>1. /\ IsOpen(p) \/ Indexing(p) # {}
      /\ ~IsOpen(p) => \A rank : rank \in Indexing(p) <=> rank = Least(Indexing(p))
  <2>1. CASE ~IsOpen(p)
    <3>1. Indexing(p) \in SUBSET Ranks
      BY ResolutionAssumption
    <3>2. IsFiniteSet(Indexing(p)) /\ Cardinality(Indexing(p)) = 1
      BY <2>1, <3>1, RankFinite
    <3>3. PICK rank : Indexing(p) = {rank}
      BY <3>2, FS_Singleton
    <3>4. Least(Indexing(p)) = rank
      BY <3>3, IndexingLeast
    <3> QED  BY <3>3, <3>4
  <2> QED  BY <2>1
<1>2. Shown(p) \in Texts /\ File(p) # None /\ File(p).file = Shown(p)
  BY <1>1, FileShown, ShownType
<1>3. /\ File(p).module \in Ranks
      /\ \A rank : (IF IsOpen(p) THEN documents[p].module = rank ELSE rank \in Indexing(p))
                  <=> rank = File(p).module
  <2>1. CASE IsOpen(p)
    BY <2>1, FileShown, ShownType
  <2>2. CASE ~IsOpen(p)
    BY <1>1, <2>2, FileShown, IndexingLeast
  <2> QED  BY <2>1, <2>2
<1> DEFINE Of(d) == [name |-> d.name, kind |-> d.kind, module |-> File(p).module, line |-> d.line]
<1>4. DocumentSymbols(p) = {Of(d) : d \in Shown(p).definitions}
  BY <1>2 DEF DocumentSymbols
<1>5. ASSUME NEW s \in Symbols(Names), s.path = p
      PROVE  \E d \in Shown(p).definitions : SymbolOf(s) = Of(d)
  <2>0. PICK rank \in Ranks : \E r \in VisibleRecords(rank) : s = Symbol(rank, r.path, r.definition)
    BY SymbolMembers
  <2>1. PICK r \in VisibleRecords(rank) : s = Symbol(rank, r.path, r.definition)
    BY <2>0
  <2>2. r.path = p
    BY <1>5, <2>1 DEF Symbol
  <2>3. r.definition \in Shown(p).definitions /\ rank = File(p).module
    BY <1>3, <2>2, VisibleFacts
  <2> QED  BY <2>1, <2>3 DEF Symbol, SymbolOf
<1>6. ASSUME NEW d \in Shown(p).definitions
      PROVE  \E s \in Symbols(Names) : s.path = p /\ SymbolOf(s) = Of(d)
  <2> DEFINE s == Symbol(File(p).module, p, d)
  <2>1. Declared(p, d) \in VisibleRecords(File(p).module)
    BY <1>3, VisibleMembers
  <2>2. Declared(p, d).path = p /\ Declared(p, d).definition = d
    BY DEF Declared
  <2>3. d.name \in Names
    BY <1>2 DEF Names
  <2>4. s \in Symbols(Names)
    BY <1>3, <2>1, <2>2, <2>3, SymbolMembers
  <2>5. s.path = p /\ SymbolOf(s) = Of(d)
    BY DEF Symbol, SymbolOf
  <2> QED  BY <2>4, <2>5
<1> HIDE DEF Of
<1> QED  BY <1>4, <1>5, <1>6

LEMMA LocationsLive == TypeOK => LocationsAreLive
<1> SUFFICES ASSUME TypeOK PROVE LocationsAreLive
  OBVIOUS
<1>1. ASSUME NEW p \in Paths, NEW line \in Lines,
             NEW l \in DefinitionLocations(p, line) \cup References(p, line, TRUE)
      PROVE  \E x \in File(l.path).file.definitions \cup File(l.path).file.references : x.line = l.line
  <2>1. Live(l)
    BY DeclarationsLive, ReferencesLive DEF DefinitionLocations
  <2> QED  BY <2>1 DEF Live
<1>2. ASSUME Len(WorkspaceSymbols(Names)) < MaxSymbols,
             NEW p \in {p \in Paths : IsOpen(p) \/ Cardinality(Indexing(p)) = 1}
      PROVE  {[name |-> s.name, kind |-> s.kind, module |-> s.module, line |-> s.line] :
                s \in {s \in ToSet(WorkspaceSymbols(Names)) : s.path = p}} = DocumentSymbols(p)
  <2>1. ToSet(WorkspaceSymbols(Names)) = Symbols(Names)
    BY <1>2, SymbolsArranged
  <2>2. {SymbolOf(s) : s \in {s \in Symbols(Names) : s.path = p}} = DocumentSymbols(p)
    BY SymbolsOfFile
  <2> QED  BY <2>1, <2>2 DEF SymbolOf
<1> QED  BY <1>1, <1>2 DEF LocationsAreLive

-----------------------------------------------------------------------------
(* Resolution: opening a document as it is on disk.                        *)

LEMMA OpenedFacts ==
  ASSUME TypeOK, [Next]_vars, NEW p \in Paths, Opens(p), Cardinality(Indexing(p)) = 1
  PROVE  /\ ~IsOpen(p) /\ IsOpen(p)' /\ UNCHANGED disk /\ TypeOK'
         /\ \A q \in Paths : q # p => documents'[q] = documents[q] /\ (IsOpen(q)' <=> IsOpen(q))
         /\ \E rank \in Ranks : /\ Indexing(p) = {rank} /\ ModuleForPath(p) = rank
                                /\ documents'[p] = [module |-> rank, file |-> disk[p]]
                                /\ Least(Indexing(p)) = rank
<1>1. TypeOK'
  BY NamesStep
<1>2. Indexing(p) \in SUBSET Ranks
  BY ResolutionAssumption
<1>3. PICK rank : Indexing(p) = {rank}
  BY <1>2, RankFinite, FS_Singleton
<1>4. rank \in Ranks /\ Least(Indexing(p)) = rank /\ ModuleForPath(p) = rank
  BY <1>2, <1>3, IndexingLeast DEF ModuleForPath
<1>5. documents' = [documents EXCEPT ![p] = [module |-> rank, file |-> disk[p]]]
  BY <1>4 DEF Opens
<1>6. documents'[p] = [module |-> rank, file |-> disk[p]] /\ \A q \in Paths : q # p => documents'[q] = documents[q]
  BY <1>5 DEF TypeOK
<1>7. UNCHANGED disk
  BY DEF Next, Insert, Close, vars
<1>8. documents'[p] \in [module : Ranks, file : Texts]
  BY <1>4, <1>6, ShownType
<1>9. documents'[p] # None
  BY <1>8, ResolutionAssumption
<1> QED  BY <1>1, <1>3, <1>4, <1>6, <1>7, <1>9 DEF Opens, IsOpen

(* What the lemmas above say of a state they say of the next one.          *)
VisibleAre ==
  TypeOK => \A rank \in Ranks : \A r :
    r \in VisibleRecords(rank) <=>
      \E q \in Paths : /\ \E d \in Shown(q).definitions : r = Declared(q, d)
                       /\ IF IsOpen(q) THEN documents[q].module = rank ELSE rank \in Indexing(q)

LEMMA VisibleNow == VisibleAre
  BY VisibleMembers DEF VisibleAre

LEMMA VisibleNext == VisibleAre'
  BY VisibleNow, PTL

LEMMA OpeningShows ==
  ASSUME TypeOK, [Next]_vars, NEW p \in Paths, Opens(p), Cardinality(Indexing(p)) = 1
  PROVE  /\ \A q \in Paths : Shown(q)' = Shown(q) /\ File(q)' = File(q)
         /\ \A rank \in Ranks : VisibleRecords(rank)' = VisibleRecords(rank)
<1>0. PICK rank \in Ranks : /\ Indexing(p) = {rank} /\ documents'[p] = [module |-> rank, file |-> disk[p]]
                            /\ Least(Indexing(p)) = rank
  BY OpenedFacts
<1>1. /\ ~IsOpen(p) /\ IsOpen(p)' /\ UNCHANGED disk /\ TypeOK'
      /\ \A q \in Paths : q # p => documents'[q] = documents[q] /\ (IsOpen(q)' <=> IsOpen(q))
  BY OpenedFacts
<1>2. ASSUME NEW q \in Paths PROVE Shown(q)' = Shown(q) /\ File(q)' = File(q)
  <2>1. CASE q = p
    BY <1>0, <1>1, <2>1 DEF Shown, File
  <2>2. CASE q # p
    BY <1>1, <2>2 DEF Shown, File
  <2> QED  BY <2>1, <2>2
<1>3. ASSUME NEW r \in Ranks PROVE VisibleRecords(r)' = VisibleRecords(r)
  <2>1. \A q \in Paths : (IF IsOpen(q) THEN documents[q].module = r ELSE r \in Indexing(q))'
                        <=> (IF IsOpen(q) THEN documents[q].module = r ELSE r \in Indexing(q))
    <3> TAKE q \in Paths
    <3>1. CASE q = p
      BY <1>0, <1>1, <3>1
    <3>2. CASE q # p
      BY <1>1, <3>2
    <3> QED  BY <3>1, <3>2
  <2>2. ASSUME NEW x PROVE x \in VisibleRecords(r)' <=> x \in VisibleRecords(r)
    <3>1. x \in VisibleRecords(r) <=>
            \E q \in Paths :
              /\ \E d \in Shown(q).definitions : x = Declared(q, d)
              /\ IF IsOpen(q) THEN documents[q].module = r ELSE r \in Indexing(q)
      BY VisibleMembers
    <3>2. x \in VisibleRecords(r)' <=>
            \E q \in Paths :
              /\ \E d \in Shown(q)'.definitions : x = Declared(q, d)
              /\ (IF IsOpen(q) THEN documents[q].module = r ELSE r \in Indexing(q))'
      BY <1>1, VisibleNext DEF VisibleAre
    <3> QED  BY <1>2, <2>1, <3>1, <3>2
  <2> QED  BY <2>2
<1> QED  BY <1>2, <1>3

(* Where the name is no alias, the index and the open documents match the  *)
(* same declarations.                                                      *)
PlainAre ==
  TypeOK => \A rank \in Ranks : \A t : ~AliasOnly(t.name) =>
    AtRank(rank, t) = Loose(rank, {r \in VisibleRecords(rank) : Matches(r.definition, t)})
                      \cup Installed(rank, t)

LEMMA PlainNow == PlainAre
<1> SUFFICES ASSUME TypeOK, NEW rank \in Ranks, NEW t, ~AliasOnly(t.name)
             PROVE  AtRank(rank, t) = Loose(rank, {r \in VisibleRecords(rank) : Matches(r.definition, t)})
                                      \cup Installed(rank, t)
  BY DEF PlainAre
<1>1. \A r \in Records(rank) : HasAlias(r.definition, t) => HasName(r.definition, t)
  <2> TAKE r \in Records(rank)
  <2>1. PICK p \in Paths : r.definition \in disk[p].definitions
    BY DEF Records
  <2>2. Contains(r.definition.aliases, t.name) => r.definition.name = t.name
    BY <2>1 DEF AliasOnly
  <2> QED  BY <2>2 DEF HasAlias, HasName
<1>2. IndexResolve(rank, t) = {r \in Records(rank) : Matches(r.definition, t)}
  <2>1. CASE t.tag = "named"
    <3>1. \A r \in Records(rank) : Matches(r.definition, t) <=> HasName(r.definition, t)
      BY <1>1, <2>1 DEF Matches
    <3> QED  BY <1>1, <2>1, <3>1 DEF IndexResolve
  <2>2. CASE t.tag # "named"
    BY <2>2 DEF IndexResolve
  <2> QED  BY <2>1, <2>2
<1>3. {r \in VisibleRecords(rank) : Matches(r.definition, t)}
        = {r \in OpenRecords(rank) : Matches(r.definition, t)}
          \cup {r \in IndexResolve(rank, t) : ~IsOpen(r.path)}
  BY <1>2 DEF VisibleRecords
<1> QED  BY <1>3 DEF AtRank, Loose

LEMMA PlainNext == PlainAre'
  BY PlainNow, PTL

LEMMA OpeningKeepsNames ==
  ASSUME TypeOK, [Next]_vars, NEW p \in Paths, Opens(p), Cardinality(Indexing(p)) = 1,
         NEW t, ~AliasOnly(t.name)
  PROVE  Resolve(t)' = Resolve(t)
<1>0. \E rank : documents'[p] = [module |-> rank, file |-> disk[p]]
  BY OpenedFacts
<1>1. /\ ~IsOpen(p) /\ IsOpen(p)' /\ UNCHANGED disk /\ TypeOK' /\ documents'[p].file = disk[p]
      /\ \A q \in Paths : q # p => documents'[q] = documents[q] /\ (IsOpen(q)' <=> IsOpen(q))
  BY <1>0, OpenedFacts
<1>2. \A rank \in Ranks : VisibleRecords(rank)' = VisibleRecords(rank)
  BY OpeningShows
<1>3. ~AliasOnly(t.name)'
  <2> SUFFICES ASSUME NEW q \in Paths,
                      NEW d \in (disk[q].definitions \cup
                                  (IF IsOpen(q) THEN documents[q].file.definitions ELSE {}))',
                      d.name # t.name, Contains(d.aliases, t.name)
               PROVE  FALSE
    BY DEF AliasOnly
  <2>1. d \in disk[q].definitions \cup (IF IsOpen(q) THEN documents[q].file.definitions ELSE {})
    <3>1. CASE q = p
      BY <1>1, <3>1
    <3>2. CASE q # p
      BY <1>1, <3>2
    <3> QED  BY <3>1, <3>2
  <2> QED  BY <2>1 DEF AliasOnly
<1>4. \A rank \in Ranks : AtRank(rank, t)' = AtRank(rank, t)
  <2> TAKE rank \in Ranks
  <2>1. AtRank(rank, t)' = Loose(rank, {r \in VisibleRecords(rank)' : Matches(r.definition, t)})
                           \cup Installed(rank, t)
    BY <1>1, <1>3, PlainNext DEF PlainAre
  <2>2. AtRank(rank, t) = Loose(rank, {r \in VisibleRecords(rank) : Matches(r.definition, t)})
                          \cup Installed(rank, t)
    BY PlainNow DEF PlainAre
  <2> QED  BY <1>2, <2>1, <2>2
<1>5. \A rank \in Ranks : Marked(rank, t)' = Marked(rank, t)
  BY <1>4 DEF Marked
<1>6. Candidates(t)' = Candidates(t)
  BY <1>5 DEF Candidates
<1> QED  BY <1>6 DEF Resolve

(* The references are those of the texts shown.                            *)
Answered(q, line) == References(q, line, FALSE)

ReferencesAre ==
  \A q \in Paths : \A line : \A l :
    l \in Answered(q, line) <=>
      /\ TargetAt(q, line) # None
      /\ \E p \in Paths : /\ IsOpen(p) \/ Indexing(p) # {}
                          /\ \E r \in Shown(p).references :
                               r.target = TargetAt(q, line) /\ l = Location(p, r.line)

LEMMA ReferencesNow == TypeOK => ReferencesAre
<1> SUFFICES ASSUME TypeOK, NEW q \in Paths, NEW line, NEW l
             PROVE  l \in Answered(q, line) <=>
                      /\ TargetAt(q, line) # None
                      /\ \E p \in Paths : /\ IsOpen(p) \/ Indexing(p) # {}
                                          /\ \E r \in Shown(p).references :
                                               r.target = TargetAt(q, line) /\ l = Location(p, r.line)
  BY DEF ReferencesAre
<1> DEFINE t == TargetAt(q, line)
           In(p, text) == {Location(p, r.line) : r \in {r \in text.references : r.target = t}}
           opened == UNION {UNION {In(p, documents[p].file) : p \in OpenIn(rank)} : rank \in Ranks}
           closed == UNION {In(p, disk[p]) : p \in {p \in Paths : ~IsOpen(p) /\ Indexing(p) # {}}}
<1>1. Answered(q, line) = IF t = None THEN {} ELSE opened \cup closed
  BY DEF References, Answered
<1>2. \A p \in Paths : IsOpen(p) => documents[p].module \in Ranks
  BY ShownType
<1>3. \A x : x \in opened <=> \E p \in Paths : IsOpen(p) /\ x \in In(p, documents[p].file)
  BY <1>2 DEF OpenIn
<1>4. \A x : x \in closed <=> \E p \in Paths : ~IsOpen(p) /\ Indexing(p) # {} /\ x \in In(p, disk[p])
  OBVIOUS
<1>5. \A p, x, text : x \in In(p, text) <=> \E r \in text.references : r.target = t /\ x = Location(p, r.line)
  OBVIOUS
<1> HIDE DEF t, In, opened, closed
<1>6. l \in Answered(q, line) <=>
        t # None /\ \E p \in Paths : (IsOpen(p) \/ Indexing(p) # {}) /\ l \in In(p, Shown(p))
  BY <1>1, <1>3, <1>4 DEF Shown
<1>7. \A p \in Paths : l \in In(p, Shown(p)) <=>
                       \E r \in Shown(p).references : r.target = t /\ l = Location(p, r.line)
  BY <1>5
<1> QED  BY <1>6, <1>7 DEF t

LEMMA ReferencesNext == (TypeOK => ReferencesAre)'
  BY ReferencesNow, PTL

TargetIn(file, line) ==
  LET references == {r \in file.file.references : r.line = line}
      definitions == {d \in file.file.definitions : d.line = line}
  IN  IF file = None THEN None
      ELSE IF references # {} THEN (CHOOSE r \in references : TRUE).target
      ELSE IF definitions # {} THEN TargetOf(CHOOSE d \in definitions : TRUE)
      ELSE None

LEMMA OpeningKeepsReferences ==
  ASSUME TypeOK, [Next]_vars, NEW p \in Paths, Opens(p), Cardinality(Indexing(p)) = 1,
         NEW q \in Paths, NEW line
  PROVE  References(q, line, FALSE)' = References(q, line, FALSE)
<1>1. /\ TypeOK' /\ \E rank : Indexing(p) = {rank}
      /\ \A x \in Paths : x # p => (IsOpen(x)' <=> IsOpen(x))
  BY OpenedFacts
<1>2. \A x \in Paths : Shown(x)' = Shown(x) /\ File(x)' = File(x)
  BY OpeningShows
<1>3. TargetAt(q, line)' = TargetAt(q, line)
  <2>1. TargetAt(q, line) = TargetIn(File(q), line)
    BY DEF TargetAt, TargetIn
  <2>2. TargetAt(q, line)' = TargetIn(File(q)', line)
    BY DEF TargetAt, TargetIn
  <2>3. File(q)' = File(q)
    BY <1>2
  <2> QED  BY <2>1, <2>2, <2>3
<1>4. \A x \in Paths : (IsOpen(x) \/ Indexing(x) # {})' <=> (IsOpen(x) \/ Indexing(x) # {})
  BY <1>1
<1>5. ReferencesAre /\ ReferencesAre'
  BY <1>1, ReferencesNow, ReferencesNext
<1>6. \A l : l \in Answered(q, line)' <=> l \in Answered(q, line)
  <2> TAKE l
  <2>1. l \in Answered(q, line)' <=>
          /\ TargetAt(q, line)' # None
          /\ \E x \in Paths : /\ (IsOpen(x) \/ Indexing(x) # {})'
                              /\ \E r \in Shown(x)'.references :
                                   r.target = TargetAt(q, line)' /\ l = Location(x, r.line)
    BY <1>5 DEF ReferencesAre
  <2>2. l \in Answered(q, line) <=>
          /\ TargetAt(q, line) # None
          /\ \E x \in Paths : /\ IsOpen(x) \/ Indexing(x) # {}
                              /\ \E r \in Shown(x).references :
                                   r.target = TargetAt(q, line) /\ l = Location(x, r.line)
    BY <1>5 DEF ReferencesAre
  <2> QED  BY <1>2, <1>3, <1>4, <2>1, <2>2
<1>7. Answered(q, line)' = Answered(q, line)
  <2>1. /\ Answered(q, line) = {l \in Answered(q, line) : TRUE}
        /\ Answered(q, line)' = {l \in Answered(q, line)' : TRUE}
    BY DEF Answered, References
  <2> QED  BY <1>6, <2>1
<1> QED  BY <1>7 DEF Answered

SymbolsFewAre ==
  TypeOK => \A names :
    Cardinality(Symbols(names)) < MaxSymbols => ToSet(WorkspaceSymbols(names)) = Symbols(names)

LEMMA SymbolsFewNow == SymbolsFewAre
  BY SymbolsArranged DEF SymbolsFewAre

LEMMA SymbolsFewNext == SymbolsFewAre'
  BY SymbolsFewNow, PTL

LEMMA OpeningKeeps ==
  ASSUME TypeOK, [Next]_vars, NEW p \in Paths, Opens(p), Cardinality(Indexing(p)) = 1
  PROVE  /\ Len(WorkspaceSymbols(Names)) < MaxSymbols =>
              ToSet(WorkspaceSymbols(Names))' = ToSet(WorkspaceSymbols(Names))
         /\ \A kind \in Kinds : CompleteSymbols(kind, "name", Names)'
                                 = CompleteSymbols(kind, "name", Names)
<1>1. TypeOK'
  BY OpenedFacts
<1>2. \A rank \in Ranks : VisibleRecords(rank)' = VisibleRecords(rank)
  BY OpeningShows
<1>3. Symbols(Names)' = Symbols(Names)
  BY <1>2 DEF Symbols, Names
<1>4. ASSUME Len(WorkspaceSymbols(Names)) < MaxSymbols
      PROVE  ToSet(WorkspaceSymbols(Names))' = ToSet(WorkspaceSymbols(Names))
  <2>1. Cardinality(Symbols(Names)) < MaxSymbols
    BY <1>4, SymbolsArranged
  <2>2. Cardinality(Symbols(Names))' < MaxSymbols
    BY <1>3, <2>1
  <2>3. ToSet(WorkspaceSymbols(Names)) = Symbols(Names)
    BY <2>1, SymbolsFewNow DEF SymbolsFewAre
  <2>4. ToSet(WorkspaceSymbols(Names))' = Symbols(Names)'
    BY <1>1, <2>2, SymbolsFewNext DEF SymbolsFewAre
  <2> QED  BY <1>3, <2>3, <2>4
<1>5. [rank \in Ranks |-> VisibleRecords(rank)]' = [rank \in Ranks |-> VisibleRecords(rank)]
  BY <1>2
<1>6. \A kind \in Kinds : CompleteSymbols(kind, "name", Names)' = CompleteSymbols(kind, "name", Names)
  BY <1>5 DEF CompleteSymbols
<1> QED  BY <1>4, <1>6

-----------------------------------------------------------------------------
(* Resolution: completion and navigation.                                  *)

Offers(records, kind, label) ==
  {r \in records : Canonical(r.definition.kind) = Canonical(kind) /\ r.definition.name = label}

Offering(kind, label) == {rank \in Ranks : Offers(VisibleRecords(rank), kind, label) # {}}

LEMMA NamedMatches ==
  ASSUME TypeOK, NEW kind, kind # None, NEW label, ~AliasOnly(label), NEW rank \in Ranks
  PROVE  {r \in VisibleRecords(rank) : Matches(r.definition, Named(kind, label))}
           = Offers(VisibleRecords(rank), kind, label)
<1> DEFINE t == Named(kind, label)
<1>1. t.tag = "named" /\ t.kind = kind /\ t.name = label
  BY DEF Named
<1>2. ASSUME NEW r \in VisibleRecords(rank), Contains(r.definition.aliases, label)
      PROVE  r.definition.name = label
  <2>1. PICK p \in Paths : r.definition \in Shown(p).definitions
    BY VisibleFacts
  <2>2. r.definition \in disk[p].definitions \cup
                         (IF IsOpen(p) THEN documents[p].file.definitions ELSE {})
    BY <2>1 DEF Shown
  <2> QED  BY <1>2, <2>2 DEF AliasOnly
<1> HIDE DEF t
<1>3. \A d : HasName(d, t) <=> Canonical(d.kind) = Canonical(kind) /\ d.name = label
  BY <1>1 DEF HasName, KindFits
<1>4. \A r \in VisibleRecords(rank) : HasAlias(r.definition, t) => HasName(r.definition, t)
  BY <1>1, <1>2 DEF HasName, HasAlias
<1>5. \A r \in VisibleRecords(rank) : Matches(r.definition, t) <=> HasName(r.definition, t)
  BY <1>1, <1>4 DEF Matches
<1> QED  BY <1>3, <1>5 DEF Offers, t

LEMMA NamedPackages ==
  ASSUME NEW kind, kind # None, NEW label
  PROVE  PackagedCandidates(Named(kind, label)) = {} <=> Offers(Packaged, kind, label) = {}
<1> DEFINE t == Named(kind, label)
           found == {c \in Packaged : HasName(c.definition, t)}
<1>1. t.tag = "named" /\ t.kind = kind /\ t.name = label
  BY DEF Named
<1>2. PackagedCandidates(t) = {c \in found : \A other \in found : other.priority <= c.priority}
  BY <1>1 DEF PackagedCandidates
<1>3. found = Offers(Packaged, kind, label)
  BY <1>1 DEF Offers, HasName, KindFits
<1> HIDE DEF t
<1>4. ASSUME found # {} PROVE PackagedCandidates(t) # {}
  <2> DEFINE f == [c \in found |-> c.priority]
             P == {f[c] : c \in found}
  <2>1. IsFiniteSet(found)
    <3>1. found \in SUBSET Packaged
      OBVIOUS
    <3> QED  BY <3>1, ResolutionAssumption, FS_Subset
  <2>2. DOMAIN f = found
    OBVIOUS
  <2>3. P \in SUBSET Nat /\ P # {}
    BY <1>4, ResolutionAssumption
  <2>4. \A c \in found : f[c] = c.priority
    OBVIOUS
  <2> HIDE DEF f, found
  <2>5. IsFiniteSet(P)
    BY <2>1, <2>2, FiniteImage
  <2>6. Greatest(P) \in P /\ \A s \in P : s <= Greatest(P)
    BY <2>3, <2>5, GreatestOf
  <2>7. PICK c \in found : f[c] = Greatest(P)
    BY <2>6
  <2>8. \A other \in found : other.priority <= c.priority
    BY <2>4, <2>6, <2>7
  <2> QED  BY <1>2, <2>8
<1> HIDE DEF found
<1> QED  BY <1>2, <1>3, <1>4 DEF t

LEMMA NamedCandidates ==
  ASSUME TypeOK, NEW kind, kind # None, NEW label, ~AliasOnly(label)
  PROVE  /\ \A f \in Candidates(Named(kind, label)) : ~f.packaged =>
              f.rank \in Ranks /\ Declared(f.path, f.definition) \in Offers(VisibleRecords(f.rank), kind, label)
         /\ \A rank \in Ranks : \A r \in Offers(VisibleRecords(rank), kind, label) :
              \E f \in Candidates(Named(kind, label)) :
                ~f.packaged /\ f.rank = rank /\ Declared(f.path, f.definition) = r
         /\ Candidates(Named(kind, label)) = {} <=>
              Offering(kind, label) = {} /\ Offers(Packaged, kind, label) = {}
<1> DEFINE t == Named(kind, label)
           Of(rank) == Offers(VisibleRecords(rank), kind, label)
<1>0. t.name = label
  BY DEF Named
<1>1. \A rank \in Ranks : AtRank(rank, t) = Loose(rank, Of(rank)) \cup Installed(rank, t)
  BY <1>0, PlainNow, NamedMatches DEF PlainAre
<1>2. \A rank, r : /\ Found(rank, r.path, r.definition, FALSE).packaged = FALSE
                   /\ Found(rank, r.path, r.definition, FALSE).path = r.path
                   /\ Found(rank, r.path, r.definition, FALSE).definition = r.definition
  BY DEF Found
<1>3. \A rank \in Ranks : \A r \in Of(rank) : r = Declared(r.path, r.definition)
  BY VisibleFacts DEF Offers, Declared
<1>4. \A rank : \A g \in Installed(rank, t) : g.packaged = TRUE
  BY DEF Installed, Found
<1> HIDE DEF t, Of
<1>5. ASSUME NEW f \in Candidates(t), ~f.packaged
      PROVE  f.rank \in Ranks /\ Declared(f.path, f.definition) \in Of(f.rank)
  <2>1. f.rank \in Ranks /\ Plain(f) \in AtRank(f.rank, t)
    BY CandidateFacts
  <2>2. Plain(f).path = f.path /\ Plain(f).definition = f.definition /\ Plain(f).packaged = f.packaged
    BY DEF Plain, Found
  <2>3. Plain(f) \in Loose(f.rank, Of(f.rank))
    BY <1>1, <1>4, <1>5, <2>1, <2>2
  <2>4. PICK r \in Of(f.rank) : Plain(f) = Found(f.rank, r.path, r.definition, FALSE)
    BY <2>3 DEF Loose
  <2>5. f.path = r.path /\ f.definition = r.definition
    BY <1>2, <2>2, <2>4
  <2>6. r = Declared(f.path, f.definition)
    BY <1>3, <2>1, <2>5
  <2> QED  BY <2>1, <2>4, <2>6
<1>6. ASSUME NEW rank \in Ranks, NEW r \in Of(rank)
      PROVE  \E f \in Candidates(t) : ~f.packaged /\ f.rank = rank /\ Declared(f.path, f.definition) = r
  <2> DEFINE g == Found(rank, r.path, r.definition, FALSE)
  <2>0. g.packaged = FALSE /\ g.path = r.path /\ g.definition = r.definition
    BY <1>2
  <2>1. g \in AtRank(rank, t)
    BY <1>1 DEF Loose
  <2> HIDE DEF g
  <2>2. PICK f \in Candidates(t) :
          f.rank = rank /\ f.path = r.path /\ f.definition = r.definition /\ f.packaged = FALSE
    BY <2>0, <2>1, CandidateOf
  <2>3. r = Declared(f.path, f.definition)
    BY <1>3, <2>2
  <2> QED  BY <2>2, <2>3
<1>7. Offers(Packaged, kind, label) # {} => Candidates(t) # {}
  <2> SUFFICES ASSUME Offers(Packaged, kind, label) # {} PROVE Candidates(t) # {}
    OBVIOUS
  <2>1. PICK c : c \in PackagedCandidates(t)
    BY NamedPackages DEF t
  <2>2. PackagedCandidates(t) \subseteq Packaged
    BY DEF PackagedCandidates
  <2>3. c.module \in Ranks
    BY <2>1, <2>2, ResolutionAssumption
  <2>4. Found(c.module, c.package, c.definition, TRUE) \in AtRank(c.module, t)
    BY <1>1, <2>1, <2>3 DEF Installed
  <2>5. \E f \in Candidates(t) : f.rank = c.module
    BY <2>3, <2>4, CandidateOf
  <2> QED  BY <2>5
<1>8. ASSUME NEW f \in Candidates(t), f.packaged PROVE Offers(Packaged, kind, label) # {}
  <2>1. f.rank \in Ranks /\ Plain(f) \in AtRank(f.rank, t) /\ Plain(f).packaged
    BY <1>8, CandidateFacts DEF Plain, Found
  <2>2. Plain(f) \in Installed(f.rank, t)
    <3>1. ASSUME Plain(f) \in Loose(f.rank, Of(f.rank)) PROVE FALSE
      <4>1. PICK r \in Of(f.rank) : Plain(f) = Found(f.rank, r.path, r.definition, FALSE)
        BY <3>1 DEF Loose
      <4> QED  BY <1>2, <2>1, <4>1
    <3> QED  BY <1>1, <2>1, <3>1
  <2>3. PackagedCandidates(t) # {}
    BY <2>2 DEF Installed
  <2> QED  BY <2>3, NamedPackages DEF t
<1>9. Candidates(t) = {} <=> Offering(kind, label) = {} /\ Offers(Packaged, kind, label) = {}
  <2>1. ASSUME NEW f \in Candidates(t) PROVE Offering(kind, label) # {} \/ Offers(Packaged, kind, label) # {}
    <3>1. CASE f.packaged
      BY <1>8, <3>1
    <3>2. CASE ~f.packaged
      BY <1>5, <3>2 DEF Offering, Of
    <3> QED  BY <3>1, <3>2
  <2>2. Offering(kind, label) # {} => Candidates(t) # {}
    BY <1>6 DEF Offering, Of
  <2> QED  BY <1>7, <2>1, <2>2
<1> QED  BY <1>5, <1>6, <1>9 DEF t, Of

LEMMA OfferingGreatest ==
  ASSUME NEW kind, NEW label, Offering(kind, label) # {}
  PROVE  /\ Greatest(Offering(kind, label)) \in Offering(kind, label)
         /\ Greatest(Offering(kind, label)) \in Ranks
         /\ \A r \in Offering(kind, label) : r <= Greatest(Offering(kind, label))
<1>1. Offering(kind, label) \in SUBSET Ranks
  BY DEF Offering
<1> QED  BY <1>1, RankFinite, GreatestOf

LEMMA SeveralOf ==
  ASSUME NEW S, IsFiniteSet(S), NEW x \in S
  PROVE  Cardinality(S) > 1 <=> \E y \in S : y # x
<1>1. Cardinality(S) \in Nat /\ Cardinality({x}) = 1 /\ IsFiniteSet({x})
  BY FS_CardinalityType, FS_Singleton
<1>2. {x} \in SUBSET S
  OBVIOUS
<1>3. 1 <= Cardinality(S) /\ (1 = Cardinality(S) => S = {x})
  BY <1>1, <1>2, FS_Subset
<1>4. S = {x} => Cardinality(S) = 1
  BY <1>1
<1>5. Cardinality(S) > 1 <=> S # {x}
  BY <1>1, <1>3, <1>4
<1> QED  BY <1>5

(* What completion offers under one label.                                 *)
Item(label, rank, d, ambiguous) ==
  [label |-> label, module |-> rank, ambiguous |-> ambiguous, text |-> Inserted(d, label, "name")]

FileItems(kind, label) ==
  {Item(label, Greatest(Offering(kind, label)), r.definition,
        Cardinality(Offers(VisibleRecords(Greatest(Offering(kind, label))), kind, label)) > 1) :
     r \in Offers(VisibleRecords(Greatest(Offering(kind, label))), kind, label)}

LEMMA CompletionOffers ==
  ASSUME NEW kind, NEW label \in Names
  PROVE  LET offered == {i \in CompleteSymbols(kind, "name", Names) : i.label = label} IN
         /\ Offering(kind, label) # {} => offered = FileItems(kind, label)
         /\ Offering(kind, label) = {} => (offered = {} <=> Offers(Packaged, kind, label) = {})
<1> DEFINE visible == [rank \in Ranks |-> VisibleRecords(rank)]
           Offered(d) == /\ Canonical(d.kind) = Canonical(kind)
                         /\ CompletionLabel(d, "name", Names) \in Names
           Of(records, l) == {r \in records : /\ Offered(r.definition)
                                              /\ CompletionLabel(r.definition, "name", Names) = l}
           Having(l) == {rank \in Ranks : Of(visible[rank], l) # {}}
           OfFiles(l) ==
             LET rank == CHOOSE r \in Having(l) : \A s \in Having(l) : s <= r
                 here == Of(visible[rank], l)
             IN  {Item(l, rank, r.definition, Cardinality(here) > 1) : r \in here}
           Outranks(c, e) == \/ c.priority > e.priority
                             \/ c.priority = e.priority /\ c.package < e.package
                             \/ /\ c.priority = e.priority /\ c.package = e.package
                                /\ c.definition.line <= e.definition.line
           First(candidates) == CHOOSE c \in candidates : \A e \in candidates : Outranks(c, e)
           OfPackages(l) ==
             LET here == Of(Packaged, l) IN
             IF here = {} THEN {} ELSE {Item(l, First(here).module, First(here).definition, FALSE)}
           Piece(l) == IF Having(l) # {} THEN OfFiles(l) ELSE OfPackages(l)
<1>1. CompleteSymbols(kind, "name", Names) = UNION {Piece(l) : l \in Names}
  BY DEF CompleteSymbols, CompleteFrom, Item
<1>2. \A d : CompletionLabel(d, "name", Names) = d.name
  BY DEF CompletionLabel
<1>3. \A records : Of(records, label) = Offers(records, kind, label)
  BY <1>2 DEF Offers
<1>4. Having(label) = Offering(kind, label)
  <2>1. \A rank \in Ranks : visible[rank] = VisibleRecords(rank)
    OBVIOUS
  <2> HIDE DEF Of, visible
  <2> QED  BY <1>3, <2>1 DEF Offering
<1>5. \A l, rank, d, b : Item(l, rank, d, b).label = l
  BY DEF Item
<1>6. \A l : \A i \in Piece(l) : i.label = l
  <2> TAKE l
  <2> HIDE DEF Of, Having, First, visible
  <2>1. \A i \in OfFiles(l) : i.label = l
    <3> DEFINE rank == CHOOSE r \in Having(l) : \A s \in Having(l) : s <= r
               here == Of(visible[rank], l)
               several == Cardinality(here) > 1
    <3>1. OfFiles(l) = {Item(l, rank, r.definition, several) : r \in here}
      OBVIOUS
    <3> HIDE DEF OfFiles, rank, here, several
    <3> QED  BY <1>5, <3>1
  <2>2. \A i \in OfPackages(l) : i.label = l
    <3> DEFINE item == Item(l, First(Of(Packaged, l)).module, First(Of(Packaged, l)).definition, FALSE)
    <3>1. item.label = l
      BY <1>5
    <3>2. \A i \in OfPackages(l) : i = item
      OBVIOUS
    <3> HIDE DEF OfPackages, item
    <3> QED  BY <3>1, <3>2
  <2> HIDE DEF OfFiles, OfPackages
  <2> QED  BY <2>1, <2>2
<1>7. {i \in CompleteSymbols(kind, "name", Names) : i.label = label} = Piece(label)
  <2> HIDE DEF Piece
  <2> QED  BY <1>1, <1>6
<1>8. ASSUME Offering(kind, label) # {} PROVE OfFiles(label) = FileItems(kind, label)
  <2> DEFINE rank == Greatest(Offering(kind, label))
  <2>1. OfFiles(label) = {Item(label, Greatest(Having(label)), r.definition,
                               Cardinality(Of(visible[Greatest(Having(label))], label)) > 1) :
                            r \in Of(visible[Greatest(Having(label))], label)}
    BY DEF Greatest
  <2>2. \A r \in Ranks : visible[r] = VisibleRecords(r)
    OBVIOUS
  <2> HIDE DEF Of, visible, Having
  <2>3. rank \in Ranks
    BY <1>8, OfferingGreatest
  <2>4. Of(visible[Greatest(Having(label))], label) = Offers(VisibleRecords(rank), kind, label)
    BY <1>3, <1>4, <2>2, <2>3
  <2> QED  BY <1>4, <2>1, <2>4 DEF FileItems
<1>9. OfPackages(label) = {} <=> Offers(Packaged, kind, label) = {}
  <2>1. Of(Packaged, label) = Offers(Packaged, kind, label)
    BY <1>3
  <2> HIDE DEF Of, First
  <2> QED  BY <2>1
<1> HIDE DEF OfFiles, OfPackages, Having
<1> QED  BY <1>4, <1>7, <1>8, <1>9

LEMMA CompletionAgrees == TypeOK => CompletionMatchesNavigation
<1> SUFFICES ASSUME TypeOK, NEW kind \in Kinds, NEW label \in Names, ~AliasOnly(label)
             PROVE  LET items == CompleteSymbols(kind, "name", Names)
                        chain == Resolve(Named(kind, label))
                        loose == {i \in DOMAIN chain : ~chain[i].packaged}
                        offered == {i \in items : i.label = label}
                    IN  /\ offered = {} <=> chain = <<>>
                        /\ loose # {} => \A item \in offered :
                             /\ item.module = chain[Least(loose)].rank
                             /\ item.ambiguous <=>
                                  \E i \in loose : i # Least(loose) /\ chain[i].rank = item.module
  BY DEF CompletionMatchesNavigation
<1> DEFINE t == Named(kind, label)
           chain == Resolve(t)
           C == Candidates(t)
           offered == {i \in CompleteSymbols(kind, "name", Names) : i.label = label}
           loose == {i \in DOMAIN chain : ~chain[i].packaged}
           high == Greatest(Offering(kind, label))
           here == Offers(VisibleRecords(high), kind, label)
           first == Least(loose)
<1>0. kind # None
  BY TextFacts DEF Kinds
<1>1. Arranges(chain, C, Precedence(C))
  BY ChainArranges DEF Resolve
<1>2. /\ chain \in Seq(C) /\ DOMAIN chain = 1 .. Len(chain) /\ Len(chain) \in Nat
      /\ \A i \in DOMAIN chain : chain[i] \in C
      /\ \A f \in C : \E i \in DOMAIN chain : chain[i] = f
      /\ \A i, j \in DOMAIN chain : i < j => Precedes(chain[i], chain[j])
  <2>1. chain \in Seq(C)
    BY <1>1 DEF Arranges
  <2>2. DOMAIN chain = 1 .. Len(chain) /\ Len(chain) \in Nat /\ \A i \in DOMAIN chain : chain[i] \in C
    BY <2>1
  <2> HIDE DEF chain, C
  <2> QED  BY <1>1, <2>1, <2>2 DEF Arranges, Precedence
<1>3. \A f \in C : f.rank \in Nat /\ f.path \in Nat /\ f.definition.line \in Nat
  BY CandidateNumbers
<1>4. /\ \A f \in C : ~f.packaged =>
           f.rank \in Ranks /\ Declared(f.path, f.definition) \in Offers(VisibleRecords(f.rank), kind, label)
      /\ \A rank \in Ranks : \A r \in Offers(VisibleRecords(rank), kind, label) :
           \E f \in C : ~f.packaged /\ f.rank = rank /\ Declared(f.path, f.definition) = r
      /\ C = {} <=> Offering(kind, label) = {} /\ Offers(Packaged, kind, label) = {}
  BY <1>0, NamedCandidates
<1>5. /\ Offering(kind, label) # {} => offered = FileItems(kind, label)
      /\ Offering(kind, label) = {} => (offered = {} <=> Offers(Packaged, kind, label) = {})
  BY CompletionOffers
<1> HIDE DEF t, chain, C, offered
<1>6. C = {} <=> chain = <<>>
  BY <1>2
<1>7. Offering(kind, label) # {} => high \in Offering(kind, label) /\ \A r \in Offering(kind, label) : r <= high
  BY OfferingGreatest
<1>8. offered = {} <=> chain = <<>>
  <2>1. CASE Offering(kind, label) = {}
    BY <1>4, <1>5, <1>6, <2>1
  <2>2. CASE Offering(kind, label) # {}
    <3>1. here # {}
      BY <1>7, <2>2 DEF Offering
    <3>2. offered # {}
      BY <1>5, <2>2, <3>1 DEF FileItems
    <3> QED  BY <1>4, <1>6, <2>2, <3>2
  <2> QED  BY <2>1, <2>2
<1>9. ASSUME loose # {}, NEW item \in offered
      PROVE  /\ item.module = chain[first].rank
             /\ item.ambiguous <=> \E i \in loose : i # first /\ chain[i].rank = item.module
  <2>1. loose \in SUBSET Nat /\ IsFiniteSet(loose)
    <3>1. loose \in SUBSET (1 .. Len(chain)) /\ 1 \in Nat
      BY <1>2
    <3>2. IsFiniteSet(1 .. Len(chain))
      BY <1>2, FS_Interval
    <3> QED  BY <1>2, <3>1, <3>2, FS_Subset
  <2>2. first \in loose /\ \A i \in loose : first <= i
    BY <1>9, <2>1, LeastOf
  <2>3. \A i \in loose : /\ i \in DOMAIN chain /\ i \in Nat /\ chain[i] \in C /\ ~chain[i].packaged
                         /\ chain[i].rank \in Offering(kind, label)
    BY <1>2, <1>4 DEF Offering
  <2>4. \A i \in loose : chain[i].rank <= chain[first].rank
    <3> TAKE i \in loose
    <3>1. i = first \/ first < i
      BY <2>2, <2>3
    <3>2. i = first \/ Precedes(chain[first], chain[i])
      BY <1>2, <2>2, <2>3, <3>1
    <3>3. chain[i].rank \in Nat /\ chain[first].rank \in Nat
      BY <1>3, <2>2, <2>3
    <3> QED  BY <3>2, <3>3 DEF Precedes
  <2>5. high \in Ranks /\ high \in Nat /\ here # {}
    <3>1. high \in Offering(kind, label)
      BY <1>7, <2>2, <2>3
    <3> QED  BY <3>1, ResolutionAssumption DEF Offering
  <2>6. \A r \in here : \E i \in loose : chain[i].rank = high /\ Declared(chain[i].path, chain[i].definition) = r
    BY <1>2, <1>4, <2>5
  <2>7. chain[first].rank = high
    <3>1. PICK i \in loose : chain[i].rank = high
      BY <2>5, <2>6
    <3>2. high <= chain[first].rank
      BY <2>4, <3>1
    <3>3. chain[first].rank <= high /\ chain[first].rank \in Nat
      BY <1>3, <1>7, <2>2, <2>3
    <3> QED  BY <2>5, <3>2, <3>3
  <2>8. item.module = high /\ item.ambiguous = (Cardinality(here) > 1)
    <3>1. item \in FileItems(kind, label)
      BY <1>5, <1>9, <2>2, <2>3
    <3> QED  BY <3>1 DEF FileItems, Item
  <2>9. IsFiniteSet(here)
    <3>1. here \in SUBSET VisibleRecords(high)
      BY DEF Offers
    <3> QED  BY <2>5, <3>1, VisibleFinite, FS_Subset
  <2> HIDE DEF here, high, first, loose
  <2>10. Cardinality(here) > 1 <=> \E i \in loose : i # first /\ chain[i].rank = high
    <3> DEFINE R(i) == Declared(chain[i].path, chain[i].definition)
    <3>1. \A i \in loose : chain[i].rank = high => R(i) \in here
      BY <1>4, <2>3 DEF here
    <3>2. \A i, j \in loose : i # j /\ chain[i].rank = chain[j].rank => R(i) # R(j)
      <4> SUFFICES ASSUME NEW i \in loose, NEW j \in loose, i # j, chain[i].rank = chain[j].rank, R(i) = R(j)
                   PROVE  FALSE
        OBVIOUS
      <4>1. chain[i].path = chain[j].path /\ chain[i].definition = chain[j].definition
        BY DEF Declared
      <4>2. i < j \/ j < i
        BY <2>3
      <4>3. Precedes(chain[i], chain[j]) \/ Precedes(chain[j], chain[i])
        BY <1>2, <2>3, <4>2
      <4>4. chain[i].rank \in Nat /\ chain[i].path \in Nat /\ chain[i].definition.line \in Nat
        BY <1>3, <2>3
      <4> QED  BY <4>1, <4>3, <4>4 DEF Precedes, Before
    <3> HIDE DEF R
    <3>3. Cardinality(here) > 1 <=> \E r \in here : r # R(first)
      BY <2>2, <2>7, <2>9, <3>1, SeveralOf
    <3>4. \A r \in here : \E i \in loose : chain[i].rank = high /\ R(i) = r
      BY <2>6 DEF R, here, high, loose
    <3> QED  BY <2>2, <2>7, <3>1, <3>2, <3>3, <3>4
  <2> QED  BY <2>7, <2>8, <2>10
<1> QED  BY <1>8, <1>9 DEF t, chain, offered

-----------------------------------------------------------------------------
(* Resolution: inheritance.                                                *)

ValidPlaces == {p \in [chain : Seq(Declarables), index : Nat] : p.index \in 1 .. Len(p.chain)}

LEMMA CandidateType ==
  ASSUME TypeOK, NEW t, NEW f \in Candidates(t)
  PROVE  f \in Declarables
<1> DEFINE definitions == (UNION {text.definitions : text \in Texts}) \cup {c.definition : c \in Packaged}
<1>1. /\ f.rank \in Ranks /\ f.ambiguous = Ambiguous(f.rank, t) /\ f.packaged \in BOOLEAN
      /\ Plain(f) \in AtRank(f.rank, t) /\ f = [Plain(f) EXCEPT !.ambiguous = f.ambiguous]
  BY CandidateFacts
<1>2. f.path \in Nat
  BY CandidateNumbers
<1>3. f.ambiguous \in BOOLEAN
  BY <1>1 DEF Ambiguous
<1>4. f.definition \in definitions
  <2>1. Plain(f).path = f.path /\ Plain(f).definition = f.definition /\ Plain(f).packaged = f.packaged
    BY DEF Plain, Found
  <2>2. CASE f.packaged
    <3>1. IsInstalled(f.rank, Plain(f).path, Plain(f).definition)
      BY <1>1, <2>1, <2>2, AtRankMembers
    <3>2. PICK c \in Packaged : c.definition = f.definition
      BY <2>1, <3>1 DEF IsInstalled
    <3> QED  BY <3>2
  <2>3. CASE ~f.packaged
    <3>1. Declared(f.path, f.definition) \in VisibleRecords(f.rank)
      BY <1>1, <2>1, <2>3, AtRankMembers
    <3>2. Declared(f.path, f.definition).path = f.path /\ Declared(f.path, f.definition).definition = f.definition
      BY DEF Declared
    <3> DEFINE r == Declared(f.path, f.definition)
    <3>5. r \in VisibleRecords(f.rank) /\ r.path = f.path /\ r.definition = f.definition
      BY <3>1, <3>2
    <3> HIDE DEF r
    <3>6. r.path \in Paths /\ r.definition \in Shown(r.path).definitions
      BY <1>1, <3>5, VisibleFacts
    <3>3. f.path \in Paths /\ f.definition \in Shown(f.path).definitions
      BY <3>5, <3>6
    <3>4. Shown(f.path) \in Texts
      BY <3>3, ShownType
    <3> QED  BY <3>3, <3>4
  <2> QED  BY <1>1, <2>2, <2>3
<1> HIDE DEF definitions
<1>5. f = [rank |-> f.rank, path |-> f.path, definition |-> f.definition,
           packaged |-> f.packaged, ambiguous |-> f.ambiguous]
  BY <1>1 DEF Plain, Found
<1>6. f \in [rank : Ranks, path : Nat, packaged : BOOLEAN, ambiguous : BOOLEAN, definition : definitions]
  BY <1>1, <1>2, <1>3, <1>4, <1>5
<1> QED  BY <1>6 DEF Declarables, definitions

LEMMA ChainType ==
  ASSUME TypeOK, NEW t, NEW S \in SUBSET Candidates(t)
  PROVE  Chain(S) \in Seq(Declarables)
<1>1. Chain(S) \in Seq(S)
  BY ChainArranges DEF Arranges
<1>2. S \subseteq Declarables
  BY CandidateType
<1> QED  BY <1>1, <1>2

LEMMA AncestorType ==
  ASSUME TypeOK, NEW p \in ValidPlaces
  PROVE  Ancestor(p) = None \/ Ancestor(p) \in ValidPlaces
<1> DEFINE d == Current(p).definition
           lower == Lower(p.chain, p.index, Current(p).rank)
           parents == Resolve(Named(d.kind, d.parent))
<1>0. p.chain \in Seq(Declarables) /\ p.index \in 1 .. Len(p.chain) /\ Len(p.chain) \in Nat
  BY DEF ValidPlaces
<1>1. ASSUME lower # {} PROVE [chain |-> p.chain, index |-> Least(lower)] \in ValidPlaces
  <2>1. lower \in SUBSET (1 .. Len(p.chain))
    BY <1>0 DEF Lower
  <2>2. IsFiniteSet(lower) /\ lower \in SUBSET Nat
    <3>1. IsFiniteSet(1 .. Len(p.chain))
      BY <1>0, FS_Interval, SMT
    <3> HIDE DEF lower
    <3>2. IsFiniteSet(lower)
      BY <2>1, <3>1, FS_Subset
    <3> QED  BY <1>0, <2>1, <3>2
  <2> HIDE DEF lower
  <2>3. Least(lower) \in 1 .. Len(p.chain)
    BY <1>1, <2>1, <2>2, LeastOf
  <2> QED  BY <1>0, <2>3 DEF ValidPlaces
<1>2. ASSUME parents # <<>> PROVE [chain |-> parents, index |-> 1] \in ValidPlaces
  <2>1. parents \in Seq(Declarables)
    BY ChainType DEF Resolve
  <2> HIDE DEF parents
  <2>2. 1 \in 1 .. Len(parents)
    BY <1>2, <2>1
  <2> QED  BY <2>1, <2>2 DEF ValidPlaces
<1> QED  BY <1>1, <1>2 DEF Ancestor

LEMMA DeclarationsFinite ==
  ASSUME TypeOK
  PROVE  IsFiniteSet(Declarations)
<1> DEFINE Of(rank) == {<<rank, r.path, r.definition.line>> : r \in VisibleRecords(rank)}
           packed == {<<c.module, c.package, c.definition.line>> : c \in Packaged}
<1>0. IsFiniteSet(Ranks) /\ IsFiniteSet(Packaged)
  BY ResolutionAssumption
<1>1. ASSUME NEW rank \in Ranks PROVE IsFiniteSet(Of(rank))
  <2> DEFINE f == [r \in VisibleRecords(rank) |-> <<rank, r.path, r.definition.line>>]
  <2>1. Of(rank) = {f[r] : r \in VisibleRecords(rank)} /\ DOMAIN f = VisibleRecords(rank)
    OBVIOUS
  <2>2. IsFiniteSet(VisibleRecords(rank))
    BY VisibleFinite
  <2> HIDE DEF f
  <2> QED  BY <2>1, <2>2, FiniteImage
<1>2. IsFiniteSet(packed)
  <2> DEFINE f == [c \in Packaged |-> <<c.module, c.package, c.definition.line>>]
  <2>1. packed = {f[c] : c \in Packaged} /\ DOMAIN f = Packaged
    OBVIOUS
  <2> HIDE DEF f, packed
  <2> QED  BY <1>0, <2>1, FiniteImage
<1>3. IsFiniteSet({Of(rank) : rank \in Ranks})
  <2> DEFINE f == [rank \in Ranks |-> Of(rank)]
  <2>1. {Of(rank) : rank \in Ranks} = {f[rank] : rank \in Ranks} /\ DOMAIN f = Ranks
    OBVIOUS
  <2> HIDE DEF f, Of
  <2> QED  BY <1>0, <2>1, FiniteImage
<1> HIDE DEF Of, packed
<1>4. IsFiniteSet(UNION {Of(rank) : rank \in Ranks})
  BY <1>1, <1>3, FS_UNION
<1>5. Declarations = (UNION {Of(rank) : rank \in Ranks}) \cup packed
  BY DEF Declarations, Of, packed
<1> QED  BY <1>2, <1>4, <1>5, FS_Union

Following(n, places) == IF Len(places) < n THEN places ELSE Inherit(places)

LEMMA InheritType ==
  ASSUME TypeOK, NEW places \in Seq(ValidPlaces) \ {<<>>}
  PROVE  Inherit(places) \in Seq(ValidPlaces) \ {<<>>}
<1>1. Last(places) \in ValidPlaces
  BY DEF Last
<1>2. Ancestor(Last(places)) # None => Ancestor(Last(places)) \in ValidPlaces
  BY <1>1, AncestorType
<1> QED  BY <1>2 DEF Inherit

(* The lineage is what following the declarations, as often as there are   *)
(* some, leads to.                                                         *)
LEMMA LineageFollows ==
  ASSUME TypeOK, NEW chain \in Seq(Declarables), chain # <<>>
  PROVE  \E g \in [Nat -> Seq(ValidPlaces) \ {<<>>}] :
           /\ Lineage(chain) = g[Cardinality(Declarations)]
           /\ g[0] = <<[chain |-> chain, index |-> 1]>>
           /\ \A n \in Nat : g[n + 1] = Following(n + 1, g[n])
<1> DEFINE V == Seq(ValidPlaces) \ {<<>>}
           a == <<[chain |-> chain, index |-> 1]>>
           step == [nv \in Nat \X V |-> Following(nv[1] + 1, nv[2])]
           Solves(f) == f = [n \in Nat |-> IF n = 0 THEN a ELSE Following(n, f[n - 1])]
           lineage == CHOOSE f : Solves(f)
<1>1. a \in V
  <2>1. [chain |-> chain, index |-> 1] \in ValidPlaces
    <3>1. 1 \in 1 .. Len(chain)
      OBVIOUS
    <3> QED  BY <3>1 DEF ValidPlaces
  <2> QED  BY <2>1
<1>2. step \in Steps(V)
  <2>1. ASSUME NEW n \in Nat, NEW places \in V PROVE Following(n + 1, places) \in V
    BY InheritType DEF Following
  <2>2. \A nv \in Nat \X V : nv[1] \in Nat /\ nv[2] \in V
    OBVIOUS
  <2> HIDE DEF V
  <2>3. step \in [Nat \X V -> V]
    BY <2>1, <2>2
  <2> QED  BY <2>3 DEF Steps
<1>3. \A n \in Nat, places \in V : step[<<n, places>>] = Following(n + 1, places)
  OBVIOUS
<1> HIDE DEF V, a, step
<1>4. PICK g \in [Nat -> V] : g[0] = a /\ \A n \in Nat : g[n + 1] = step[<<n, g[n]>>]
  <2>1. IsFollowed(V, a, step)
    BY <1>1, <1>2, Recursion
  <2> QED  BY <2>1 DEF IsFollowed
<1>5. ASSUME NEW n \in Nat PROVE g[n + 1] = Following(n + 1, g[n])
  BY <1>3, <1>4
<1>6. Solves(g)
  <2>1. ASSUME NEW n \in Nat, n # 0 PROVE g[n] = Following(n, g[n - 1])
    <3>1. n - 1 \in Nat /\ n - 1 + 1 = n
      BY <2>1
    <3> QED  BY <1>5, <3>1
  <2> QED  BY <1>4, <2>1
<1>7. Solves(lineage)
  <2> HIDE DEF Solves
  <2> QED  BY <1>6
<1>8. \A n \in Nat : lineage[n] = g[n]
  <2> DEFINE S == {n \in Nat : lineage[n] = g[n]}
  <2>1. 0 \in S
    BY <1>4, <1>7
  <2>2. ASSUME NEW n \in Nat, n \in S PROVE n + 1 \in S
    <3>1. lineage[n + 1] = Following(n + 1, lineage[n])
      <4> HIDE DEF lineage
      <4>1. lineage = [k \in Nat |-> IF k = 0 THEN a ELSE Following(k, lineage[k - 1])]
        BY <1>7
      <4>2. n + 1 \in Nat /\ n + 1 # 0 /\ n + 1 - 1 = n
        OBVIOUS
      <4> QED  BY <4>1, <4>2
    <3>2. lineage[n] = g[n]
      BY <2>2
    <3>3. lineage[n + 1] = g[n + 1]
      BY <1>5, <3>1, <3>2
    <3>4. n + 1 \in Nat
      OBVIOUS
    <3> HIDE DEF lineage
    <3> QED  BY <3>3, <3>4
  <2> HIDE DEF S
  <2>3. \A n \in Nat : n \in S
    BY <2>1, <2>2, NaturalInduction
  <2> QED  BY <2>3 DEF S
<1>9. Lineage(chain) = lineage[Cardinality(Declarations)]
  BY DEF Lineage, Following, a
<1>10. Cardinality(Declarations) \in Nat
  BY DeclarationsFinite, FS_CardinalityType
<1> HIDE DEF lineage
<1> QED  BY <1>4, <1>5, <1>8, <1>9, <1>10 DEF V, a

(* What is declared below a module, and what comes first.                  *)
Below(S, rank) == {f \in S : f.rank < rank}
Heads(S, f) == f \in S /\ \A g \in S : g = f \/ Precedes(f, g)

Foremost(t) ==
  {f \in Candidates(t) : \A g \in Candidates(t) : g.rank = f.rank => g = f \/ Before(f, g)}

LEMMA HeadUnique ==
  ASSUME TypeOK, NEW t, NEW S \in SUBSET Candidates(t), NEW f, NEW g, Heads(S, f), Heads(S, g)
  PROVE  f = g
<1>1. f.rank \in Nat /\ f.path \in Nat /\ f.definition.line \in Nat
  BY CandidateNumbers DEF Heads
<1>2. g.rank \in Nat /\ g.path \in Nat /\ g.definition.line \in Nat
  BY CandidateNumbers DEF Heads
<1> QED  BY <1>1, <1>2 DEF Heads, Precedes, Before

LEMMA ChainFacts ==
  ASSUME TypeOK, NEW t, NEW S \in SUBSET Candidates(t)
  PROVE  /\ Chain(S) \in Seq(S)
         /\ \A f \in S : \E i \in 1 .. Len(Chain(S)) : Chain(S)[i] = f
         /\ \A i, j \in 1 .. Len(Chain(S)) : i < j => Precedes(Chain(S)[i], Chain(S)[j])
<1>1. Arranges(Chain(S), S, Precedence(S))
  BY ChainArranges
<1>2. \A f, g : <<f, g>> \in Precedence(S) => Precedes(f, g)
  BY DEF Precedence
<1> HIDE DEF Precedence
<1> QED  BY <1>1, <1>2 DEF Arranges

(* A chain starts with what comes first.                                   *)
LEMMA ChainHeads ==
  ASSUME TypeOK, NEW t, NEW S \in SUBSET Candidates(t), S # {}
  PROVE  1 \in 1 .. Len(Chain(S)) /\ Heads(S, Chain(S)[1])
<1> DEFINE C == Chain(S)
<1>1. /\ C \in Seq(S) /\ \A f \in S : \E i \in 1 .. Len(C) : C[i] = f
      /\ \A i, j \in 1 .. Len(C) : i < j => Precedes(C[i], C[j])
  BY ChainFacts
<1> HIDE DEF C
<1>2. 1 \in 1 .. Len(C)
  BY <1>1
<1>3. ASSUME NEW g \in S PROVE g = C[1] \/ Precedes(C[1], g)
  <2>1. PICK i \in 1 .. Len(C) : C[i] = g
    BY <1>1
  <2>2. i = 1 \/ 1 < i
    BY <1>1
  <2> QED  BY <1>1, <1>2, <2>1, <2>2
<1>4. C[1] \in S
  BY <1>1, <1>2
<1> QED  BY <1>2, <1>3, <1>4 DEF Heads, C

(* From a place in a chain, the next lower one is that of the declaration  *)
(* that comes first below.                                                 *)
LEMMA LowerHeads ==
  ASSUME TypeOK, NEW t, NEW S \in SUBSET Candidates(t), NEW C, C = Chain(S),
         NEW i \in 1 .. Len(C)
  PROVE  /\ Lower(C, i, C[i].rank) = {} <=> Below(S, C[i].rank) = {}
         /\ Lower(C, i, C[i].rank) # {} =>
              /\ Least(Lower(C, i, C[i].rank)) \in 1 .. Len(C)
              /\ Heads(Below(S, C[i].rank), C[Least(Lower(C, i, C[i].rank))])
<1> DEFINE L == Lower(C, i, C[i].rank)
           m == Least(L)
           B == Below(S, C[i].rank)
<1>1. /\ C \in Seq(S) /\ \A f \in S : \E j \in 1 .. Len(C) : C[j] = f
      /\ \A j, k \in 1 .. Len(C) : j < k => Precedes(C[j], C[k])
  BY ChainFacts
<1>2. L \in SUBSET (1 .. Len(C)) /\ \A j : j \in L <=> j \in 1 .. Len(C) /\ i < j /\ C[j].rank < C[i].rank
  BY <1>1 DEF Lower
<1>3. \A f \in S : f.rank \in Nat
  BY CandidateNumbers
<1>4. \A j \in L : C[j] \in B
  BY <1>1, <1>2 DEF Below
<1>5. ASSUME NEW f \in B PROVE \E j \in L : C[j] = f
  <2>1. f \in S /\ f.rank < C[i].rank
    BY DEF Below
  <2>2. PICK j \in 1 .. Len(C) : C[j] = f
    BY <1>1, <2>1
  <2>3. f.rank \in Nat /\ C[i].rank \in Nat
    BY <1>1, <1>3, <2>1
  <2>4. ~(j < i)
    <3>1. j < i => Precedes(f, C[i])
      BY <1>1, <2>2
    <3> QED  BY <2>1, <2>3, <3>1 DEF Precedes
  <2>5. j # i
    BY <2>1, <2>2, <2>3
  <2>6. i < j
    BY <2>4, <2>5
  <2> QED  BY <1>2, <2>1, <2>2, <2>6
<1>6. L = {} <=> B = {}
  BY <1>4, <1>5
<1>7. IsFiniteSet(L) /\ L \in SUBSET Nat
  <2>1. Len(C) \in Nat
    BY <1>1
  <2>2. IsFiniteSet(1 .. Len(C))
    BY <2>1, FS_Interval, SMT
  <2> HIDE DEF L
  <2>3. IsFiniteSet(L)
    BY <1>2, <2>2, FS_Subset
  <2> QED  BY <1>2, <2>1, <2>3
<1> HIDE DEF L, B
<1>8. ASSUME L # {} PROVE m \in 1 .. Len(C) /\ Heads(B, C[m])
  <2>1. m \in L /\ \A j \in L : m <= j
    BY <1>7, <1>8, LeastOf
  <2> HIDE DEF m
  <2>2. ASSUME NEW g \in B PROVE g = C[m] \/ Precedes(C[m], g)
    <3>1. PICK j \in L : C[j] = g
      BY <1>5
    <3>2. j = m \/ m < j
      BY <1>7, <2>1
    <3> QED  BY <1>1, <1>2, <2>1, <3>1, <3>2
  <2> QED  BY <1>2, <1>4, <2>1, <2>2 DEF Heads
<1> QED  BY <1>6, <1>8 DEF L, B, m

(* What comes first is foremost in its module.                             *)
LEMMA HeadIsForemost ==
  ASSUME NEW t, NEW S \in SUBSET Candidates(t), NEW f, Heads(S, f),
         \A g \in Candidates(t) : g.rank = f.rank => g \in S,
         f.rank \in Nat
  PROVE  f \in Foremost(t) /\ Heads(S \cap Foremost(t), f)
<1>1. ASSUME NEW g \in Candidates(t), g.rank = f.rank PROVE g = f \/ Before(f, g)
  BY <1>1 DEF Heads, Precedes
<1>2. f \in Foremost(t)
  BY <1>1 DEF Foremost, Heads
<1> QED  BY <1>2 DEF Heads

LEMMA SomeHead ==
  ASSUME TypeOK, NEW t, NEW S \in SUBSET Candidates(t), S # {}
  PROVE  \E f : Heads(S, f)
  BY ChainHeads

LEMMA ForemostBelow ==
  ASSUME TypeOK, NEW t, NEW rank
  PROVE  /\ Below(Candidates(t), rank) = {} <=> Below(Foremost(t), rank) = {}
         /\ \A f : Heads(Below(Candidates(t), rank), f) => Heads(Below(Foremost(t), rank), f)
<1> DEFINE S == Below(Candidates(t), rank)
           F == Below(Foremost(t), rank)
<1>1. S \in SUBSET Candidates(t) /\ F = S \cap Foremost(t)
  BY DEF Below, Foremost
<1>2. ASSUME NEW f, Heads(S, f) PROVE Heads(F, f)
  <2>1. f \in Candidates(t) /\ f.rank < rank
    BY <1>2 DEF Heads, Below
  <2>2. f.rank \in Nat
    BY <2>1, CandidateNumbers
  <2>3. \A g \in Candidates(t) : g.rank = f.rank => g \in S
    BY <2>1 DEF Below
  <2> HIDE DEF S, F
  <2> QED  BY <1>1, <1>2, <2>2, <2>3, HeadIsForemost
<1> HIDE DEF S, F
<1>3. S # {} => F # {}
  BY <1>1, <1>2, SomeHead DEF Heads
<1> QED  BY <1>1, <1>2, <1>3 DEF S, F

(* Two places are twins if they are one, or stand at the same declaration  *)
(* of the chain of all candidates and of the chain of the foremost.        *)
Twins(t, p, q) ==
  \/ p = q
  \/ /\ p.chain = Chain(Candidates(t)) /\ p.index \in 1 .. Len(p.chain)
     /\ q.chain = Chain(Foremost(t)) /\ q.index \in 1 .. Len(q.chain)
     /\ Current(p) = Current(q)

LEMMA PlaceIsSome ==
  ASSUME NEW p \in ValidPlaces
  PROVE  p # None
  BY ResolutionAssumption DEF ValidPlaces

(* Ancestor, by cases.                                                     *)
LEMMA AncestorOf ==
  ASSUME NEW p, NEW d, d = Current(p).definition,
         NEW lower, lower = Lower(p.chain, p.index, Current(p).rank)
  PROVE  /\ d.parent = None => Ancestor(p) = None
         /\ d.parent # None /\ d.parent = d.name =>
              /\ lower = {} => Ancestor(p) = None
              /\ lower # {} => Ancestor(p) = [chain |-> p.chain, index |-> Least(lower)]
         /\ d.parent # None /\ d.parent # d.name =>
              Ancestor(p) = IF Resolve(Named(d.kind, d.parent)) = <<>> THEN None
                            ELSE [chain |-> Resolve(Named(d.kind, d.parent)), index |-> 1]
  BY DEF Ancestor

LEMMA TwinsAscend ==
  ASSUME TypeOK, NEW t, NEW p \in ValidPlaces, NEW q \in ValidPlaces, Twins(t, p, q)
  PROVE  /\ Ancestor(p) = None <=> Ancestor(q) = None
         /\ Ancestor(p) # None => Twins(t, Ancestor(p), Ancestor(q))
<1>1. CASE p = q
  BY <1>1 DEF Twins
<1>2. CASE p # q
  <2> DEFINE A == Chain(Candidates(t))
             B == Chain(Foremost(t))
             d == Current(p).definition
             rank == Current(p).rank
             lowerA == Lower(A, p.index, rank)
             lowerB == Lower(B, q.index, rank)
  <2>1. /\ p.chain = A /\ p.index \in 1 .. Len(A) /\ q.chain = B /\ q.index \in 1 .. Len(B)
        /\ Current(p) = Current(q) /\ Current(p) = A[p.index] /\ Current(q) = B[q.index]
    BY <1>2 DEF Twins, Current
  <2>2. Foremost(t) \in SUBSET Candidates(t)
    BY DEF Foremost
  <2>3. /\ d.parent = None => Ancestor(p) = None /\ Ancestor(q) = None
        /\ d.parent # None /\ d.parent = d.name =>
             /\ lowerA = {} => Ancestor(p) = None
             /\ lowerA # {} => Ancestor(p) = [chain |-> A, index |-> Least(lowerA)]
             /\ lowerB = {} => Ancestor(q) = None
             /\ lowerB # {} => Ancestor(q) = [chain |-> B, index |-> Least(lowerB)]
        /\ d.parent # None /\ d.parent # d.name => Ancestor(p) = Ancestor(q)
    BY <2>1, AncestorOf
  <2>4. /\ lowerA = {} <=> Below(Candidates(t), rank) = {}
        /\ lowerA # {} => Least(lowerA) \in 1 .. Len(A) /\ Heads(Below(Candidates(t), rank), A[Least(lowerA)])
    BY <2>1, LowerHeads
  <2>5. /\ lowerB = {} <=> Below(Foremost(t), rank) = {}
        /\ lowerB # {} => Least(lowerB) \in 1 .. Len(B) /\ Heads(Below(Foremost(t), rank), B[Least(lowerB)])
    BY <2>1, <2>2, LowerHeads
  <2>6. lowerA = {} <=> lowerB = {}
    BY <2>4, <2>5, ForemostBelow
  <2>7. ASSUME lowerA # {} PROVE A[Least(lowerA)] = B[Least(lowerB)]
    <3>1. Below(Foremost(t), rank) \in SUBSET Candidates(t)
      BY <2>2 DEF Below
    <3>2. Heads(Below(Foremost(t), rank), A[Least(lowerA)])
      BY <2>4, <2>7, ForemostBelow
    <3>3. Heads(Below(Foremost(t), rank), B[Least(lowerB)])
      BY <2>5, <2>6, <2>7
    <3> HIDE DEF A, B, lowerA, lowerB, rank
    <3> QED  BY <3>1, <3>2, <3>3, HeadUnique
  <2>8. ASSUME lowerA # {} PROVE Twins(t, [chain |-> A, index |-> Least(lowerA)], [chain |-> B, index |-> Least(lowerB)])
    <3>1. Least(lowerA) \in 1 .. Len(A) /\ Least(lowerB) \in 1 .. Len(B)
      BY <2>4, <2>5, <2>6, <2>8
    <3> HIDE DEF lowerA, lowerB
    <3> QED  BY <2>7, <2>8, <3>1 DEF Twins, Current
  <2>9. CASE d.parent = None
    BY <2>3, <2>9
  <2>10. CASE d.parent # None /\ d.parent # d.name
    BY <2>3, <2>10 DEF Twins
  <2>11. CASE d.parent # None /\ d.parent = d.name /\ lowerA = {}
    BY <2>3, <2>6, <2>11
  <2>12. CASE d.parent # None /\ d.parent = d.name /\ lowerA # {}
    <3>1. Ancestor(p) = [chain |-> A, index |-> Least(lowerA)] /\ Ancestor(q) = [chain |-> B, index |-> Least(lowerB)]
      BY <2>3, <2>6, <2>12
    <3>2. Ancestor(q) # None
      <4>1. [chain |-> B, index |-> Least(lowerB)] \in ValidPlaces
        <5>1. B \in Seq(Declarables)
          BY <2>2, ChainType
        <5>2. Least(lowerB) \in 1 .. Len(B)
          BY <2>5, <2>6, <2>12
        <5> HIDE DEF B, lowerB
        <5> QED  BY <5>1, <5>2 DEF ValidPlaces
      <4> QED  BY <3>1, <4>1, PlaceIsSome
    <3>3. Ancestor(p) # None
      <4>1. [chain |-> A, index |-> Least(lowerA)] \in ValidPlaces
        <5>1. A \in Seq(Declarables)
          BY ChainType
        <5>2. Least(lowerA) \in 1 .. Len(A)
          BY <2>4, <2>12
        <5> HIDE DEF A, lowerA
        <5> QED  BY <5>1, <5>2 DEF ValidPlaces
      <4> QED  BY <3>1, <4>1, PlaceIsSome
    <3> QED  BY <2>8, <2>12, <3>1, <3>2, <3>3
  <2> QED  BY <2>9, <2>10, <2>11, <2>12
<1> QED  BY <1>1, <1>2

(* Two lineages of as many places, twins one by one.                       *)
Paired(t, a, b) ==
  /\ a \in Seq(ValidPlaces) \ {<<>>} /\ b \in Seq(ValidPlaces) \ {<<>>}
  /\ Len(a) = Len(b) /\ \A i \in 1 .. Len(a) : Twins(t, a[i], b[i])

LEMMA TwinsAreOne ==
  ASSUME NEW t, NEW p, NEW q, Twins(t, p, q)
  PROVE  Current(p) = Current(q) /\ Identity(p) = Identity(q)
  BY DEF Twins, Identity

LEMMA PairedInherit ==
  ASSUME TypeOK, NEW t, NEW a, NEW b, Paired(t, a, b)
  PROVE  Paired(t, Inherit(a), Inherit(b))
<1> DEFINE n == Len(a)
           x == Ancestor(Last(a))
           y == Ancestor(Last(b))
           Seen(places, p) == \E i \in DOMAIN places : Identity(places[i]) = Identity(p)
<1>1. /\ a \in Seq(ValidPlaces) /\ b \in Seq(ValidPlaces) /\ n \in Nat \ {0} /\ Len(b) = n
      /\ DOMAIN a = 1 .. n /\ DOMAIN b = 1 .. n /\ \A i \in 1 .. n : Twins(t, a[i], b[i])
  BY DEF Paired
<1>2. Last(a) \in ValidPlaces /\ Last(b) \in ValidPlaces /\ Twins(t, Last(a), Last(b))
  BY <1>1 DEF Last
<1>3. /\ x = None <=> y = None
      /\ x # None => Twins(t, x, y) /\ x \in ValidPlaces /\ y \in ValidPlaces
  BY <1>2, TwinsAscend, AncestorType
<1> HIDE DEF x, y
<1>4. CASE x = None
  BY <1>3, <1>4 DEF Inherit, x, y
<1>5. ASSUME x # None PROVE Seen(a, x) <=> Seen(b, y)
  <2>1. Identity(x) = Identity(y)
    BY <1>3, <1>5, TwinsAreOne
  <2>2. \A i \in 1 .. n : Identity(a[i]) = Identity(b[i])
    BY <1>1, TwinsAreOne
  <2> QED  BY <1>1, <2>1, <2>2
<1> HIDE DEF Seen
<1>6. CASE x # None /\ Seen(a, x)
  <2>1. Inherit(a) = a /\ Inherit(b) = b
    BY <1>5, <1>6 DEF Inherit, x, y, Seen
  <2> QED  BY <2>1
<1>7. CASE x # None /\ ~Seen(a, x)
  <2>1. Inherit(a) = Append(a, x) /\ Inherit(b) = Append(b, y)
    BY <1>3, <1>5, <1>7 DEF Inherit, x, y, Seen
  <2> HIDE DEF n
  <2>2. \A i \in 1 .. n + 1 : Append(a, x)[i] = (IF i = n + 1 THEN x ELSE a[i])
    BY <1>1 DEF n
  <2>3. \A i \in 1 .. n + 1 : Append(b, y)[i] = (IF i = n + 1 THEN y ELSE b[i])
    BY <1>1 DEF n
  <2>4. /\ Append(a, x) \in Seq(ValidPlaces) /\ Append(b, y) \in Seq(ValidPlaces)
        /\ Len(Append(a, x)) = n + 1 /\ Len(Append(b, y)) = n + 1
    BY <1>1, <1>3, <1>7 DEF n
  <2>5. ASSUME NEW i \in 1 .. n + 1 PROVE Twins(t, Append(a, x)[i], Append(b, y)[i])
    <3>1. CASE i = n + 1
      BY <1>3, <1>7, <2>2, <2>3, <3>1
    <3>2. CASE i # n + 1
      <4>1. i \in 1 .. n
        BY <1>1, <3>2
      <4> QED  BY <1>1, <2>2, <2>3, <3>2, <4>1
    <3> QED  BY <3>1, <3>2
  <2>6. Append(a, x) # <<>> /\ Append(b, y) # <<>>
    BY <1>1, <2>4
  <2> QED  BY <2>1, <2>4, <2>5, <2>6 DEF Paired
<1> QED  BY <1>4, <1>6, <1>7

LEMMA LineagesPaired ==
  ASSUME TypeOK, NEW t, Candidates(t) # {}
  PROVE  Paired(t, Lineage(Chain(Candidates(t))), Lineage(Chain(Foremost(t))))
<1> DEFINE A == Chain(Candidates(t))
           B == Chain(Foremost(t))
<1>1. Foremost(t) \in SUBSET Candidates(t)
  BY DEF Foremost
<1>2. 1 \in 1 .. Len(A) /\ Heads(Candidates(t), A[1])
  BY ChainHeads
<1>3. A[1] \in Foremost(t) /\ Heads(Foremost(t), A[1])
  <2>1. A[1] \in Candidates(t)
    BY <1>2 DEF Heads
  <2>2. A[1].rank \in Nat
    BY <2>1, CandidateNumbers
  <2>3. Candidates(t) \cap Foremost(t) = Foremost(t)
    BY <1>1
  <2>4. A[1] \in Foremost(t) /\ Heads(Candidates(t) \cap Foremost(t), A[1])
    <3>1. Candidates(t) \in SUBSET Candidates(t) /\ \A g \in Candidates(t) : g.rank = A[1].rank => g \in Candidates(t)
      OBVIOUS
    <3> HIDE DEF A
    <3> QED  BY <1>2, <2>2, <3>1, HeadIsForemost
  <2> QED  BY <2>3, <2>4
<1>4. 1 \in 1 .. Len(B) /\ Heads(Foremost(t), B[1])
  BY <1>1, <1>3, ChainHeads
<1>5. A[1] = B[1]
  <2> HIDE DEF A, B
  <2> QED  BY <1>1, <1>3, <1>4, HeadUnique
<1>6. A \in Seq(Declarables) /\ B \in Seq(Declarables)
  BY <1>1, ChainType
<1> HIDE DEF A, B
<1>7. A # <<>> /\ B # <<>>
  BY <1>2, <1>4, <1>6
<1>8. PICK g \in [Nat -> Seq(ValidPlaces) \ {<<>>}] :
        /\ Lineage(A) = g[Cardinality(Declarations)]
        /\ g[0] = <<[chain |-> A, index |-> 1]>>
        /\ \A n \in Nat : g[n + 1] = Following(n + 1, g[n])
  BY <1>6, <1>7, LineageFollows
<1>9. PICK h \in [Nat -> Seq(ValidPlaces) \ {<<>>}] :
        /\ Lineage(B) = h[Cardinality(Declarations)]
        /\ h[0] = <<[chain |-> B, index |-> 1]>>
        /\ \A n \in Nat : h[n + 1] = Following(n + 1, h[n])
  BY <1>6, <1>7, LineageFollows
<1> DEFINE S == {n \in Nat : Paired(t, g[n], h[n])}
<1>10. 0 \in S
  <2>1. Twins(t, [chain |-> A, index |-> 1], [chain |-> B, index |-> 1])
    BY <1>2, <1>4, <1>5 DEF Twins, Current, A, B
  <2>2. Len(g[0]) = 1 /\ Len(h[0]) = 1 /\ g[0][1] = [chain |-> A, index |-> 1] /\ h[0][1] = [chain |-> B, index |-> 1]
    BY <1>8, <1>9
  <2>3. \A i \in 1 .. 1 : i = 1
    OBVIOUS
  <2>4. g[0] \in Seq(ValidPlaces) \ {<<>>} /\ h[0] \in Seq(ValidPlaces) \ {<<>>}
    OBVIOUS
  <2>5. Paired(t, g[0], h[0])
    BY <2>1, <2>2, <2>3, <2>4 DEF Paired
  <2> QED  BY <2>5
<1>11. ASSUME NEW n \in Nat, n \in S PROVE n + 1 \in S
  <2>1. Paired(t, g[n], h[n])
    BY <1>11
  <2>2. Len(g[n]) = Len(h[n])
    BY <2>1 DEF Paired
  <2>3. Paired(t, Inherit(g[n]), Inherit(h[n]))
    BY <2>1, PairedInherit
  <2>4. Paired(t, g[n + 1], h[n + 1])
    BY <1>8, <1>9, <2>1, <2>2, <2>3 DEF Following
  <2> QED  BY <2>4
<1>12. \A n \in Nat : n \in S
  <2> HIDE DEF S
  <2> QED  BY <1>10, <1>11, NaturalInduction
<1>13. Cardinality(Declarations) \in Nat
  BY DeclarationsFinite, FS_CardinalityType
<1> QED  BY <1>8, <1>9, <1>12, <1>13 DEF A, B

LEMMA PairedFields ==
  ASSUME NEW chain, NEW other, NEW t, Paired(t, Lineage(chain), Lineage(other))
  PROVE  InheritedFields(chain) = InheritedFields(other)
<1> DEFINE a == Lineage(chain)
           b == Lineage(other)
           Fields(lineage, i) == Current(lineage[i]).definition.fields
           Having(lineage, k) == {i \in DOMAIN lineage : k \in DOMAIN Fields(lineage, i)}
           Keys(lineage) == UNION {DOMAIN Fields(lineage, i) : i \in DOMAIN lineage}
           Of(lineage) == [k \in Keys(lineage) |-> Fields(lineage, Least(Having(lineage, k)))[k]]
<1>1. DOMAIN a = DOMAIN b /\ \A i \in DOMAIN a : Current(a[i]) = Current(b[i])
  BY TwinsAreOne DEF Paired
<1> HIDE DEF a, b
<1>2. \A i \in DOMAIN a : Fields(a, i) = Fields(b, i)
  BY <1>1
<1> HIDE DEF Fields
<1>3. Keys(a) = Keys(b)
  BY <1>1, <1>2
<1>4. \A k : Having(a, k) = Having(b, k)
  BY <1>1, <1>2
<1>5. ASSUME NEW k \in Keys(a) PROVE Fields(a, Least(Having(a, k)))[k] = Fields(b, Least(Having(b, k)))[k]
  <2>1. Having(a, k) = Having(b, k) /\ Having(a, k) # {} /\ Having(a, k) \subseteq DOMAIN a
    BY <1>4
  <2>2. Len(a) \in Nat /\ DOMAIN a = 1 .. Len(a)
    BY DEF Paired, a
  <2>3. IsFiniteSet(Having(a, k)) /\ Having(a, k) \in SUBSET Nat
    <3>1. IsFiniteSet(DOMAIN a)
      BY <2>2, FS_Interval, SMT
    <3> HIDE DEF Having
    <3> QED  BY <2>1, <2>2, <3>1, FS_Subset
  <2> HIDE DEF Having
  <2>4. Least(Having(a, k)) \in DOMAIN a
    BY <2>1, <2>3, LeastOf
  <2> QED  BY <1>2, <2>1, <2>4
<1>6. Of(a) = Of(b)
  <2> HIDE DEF Keys, Having
  <2> QED  BY <1>3, <1>5
<1>7. InheritedFields(chain) = Of(a) /\ InheritedFields(other) = Of(b)
  BY DEF InheritedFields, Fields, a, b
<1> HIDE DEF Of
<1> QED  BY <1>6, <1>7

LEMMA DuplicatesLend == TypeOK => DuplicatesLendNothing
<1> SUFFICES ASSUME TypeOK, NEW t \in Targets, Candidates(t) # {}
             PROVE  EffectiveFields(t) = InheritedFields(Chain(Foremost(t)))
  BY DEF DuplicatesLendNothing, Foremost
<1>1. EffectiveFields(t) = InheritedFields(Chain(Candidates(t)))
  BY DEF EffectiveFields, Resolve
<1> QED  BY <1>1, LineagesPaired, PairedFields

-----------------------------------------------------------------------------
(* What holds of every reachable state.                                    *)

WorkspaceInv == CacheInv /\ TypeOK

LEMMA HalvesStep ==
  ASSUME [Schemas \/ Answers]_<<half, vars, cached>>
  PROVE  [Cache!Next]_cached /\ [Next]_vars
  BY DEF Schemas, Answers

LEMMA WorkspaceInductive == MCSpec => []WorkspaceInv /\ [][Next]_vars
<1>1. MCInit => WorkspaceInv
  BY CacheInit, NamesInit DEF MCInit, WorkspaceInv
<1>2. WorkspaceInv /\ [Schemas \/ Answers]_<<half, vars, cached>> => WorkspaceInv' /\ [Next]_vars
  <2> SUFFICES ASSUME WorkspaceInv, [Schemas \/ Answers]_<<half, vars, cached>>
               PROVE  WorkspaceInv' /\ [Next]_vars
    OBVIOUS
  <2>1. [Cache!Next]_cached /\ [Next]_vars
    BY HalvesStep
  <2>2. CacheInv' /\ TypeOK'
    BY <2>1, CacheStep, NamesStep DEF WorkspaceInv
  <2> QED  BY <2>1, <2>2 DEF WorkspaceInv
<1> QED  BY <1>1, <1>2, PTL DEF MCSpec

(* Every reachable state of either half is well typed; only a query that   *)
(* reads the overlays has an answer.                                       *)
THEOREM WorkspaceTypes == MCSpec => [](Cache!TypeOK /\ TypeOK)
<1>1. WorkspaceInv => Cache!TypeOK /\ TypeOK
  BY DEF WorkspaceInv, CacheInv
<1> QED  BY <1>1, WorkspaceInductive, PTL

(* What a query has been answered is what its snapshot gives under the     *)
(* documents that are open, whoever filled the cache.                      *)
THEOREM QueriesAreAnswered == MCSpec => []AnswersAreCurrent
<1>1. WorkspaceInv => AnswersAreCurrent
  BY DEF WorkspaceInv, CacheInv, AnswersAreCurrent
<1> QED  BY <1>1, WorkspaceInductive, PTL

(* What is cached is what its generation gives under the open documents.   *)
THEOREM CacheFollowsDocuments == MCSpec => []Cache!CacheIsCurrent
<1>1. WorkspaceInv => Cache!CacheIsCurrent
  BY DEF WorkspaceInv, CacheInv
<1> QED  BY <1>1, WorkspaceInductive, PTL

(* Every place a query answers with holds a declaration or a reference in  *)
(* the text that is visible, and the symbols of the workspace, as long as  *)
(* they fit, are those of its documents.                                   *)
THEOREM AnswersAreLive == MCSpec => []LocationsAreLive
<1>1. WorkspaceInv => LocationsAreLive
  BY LocationsLive DEF WorkspaceInv
<1> QED  BY <1>1, WorkspaceInductive, PTL

(* Completion offers a label exactly if the name resolves, with the module *)
(* navigation reaches first, ambiguous exactly if it declares it twice.    *)
THEOREM CompletionFollowsNavigation == MCSpec => []CompletionMatchesNavigation
<1>1. WorkspaceInv => CompletionMatchesNavigation
  BY CompletionAgrees DEF WorkspaceInv
<1> QED  BY <1>1, WorkspaceInductive, PTL

(* What a declaration inherits through its own name comes from the modules *)
(* below, as if its own module declared the name once.                     *)
THEOREM DuplicatesAreIgnored == MCSpec => []DuplicatesLendNothing
<1>1. WorkspaceInv => DuplicatesLendNothing
  BY DuplicatesLend DEF WorkspaceInv
<1> QED  BY <1>1, WorkspaceInductive, PTL

(* Opening a document as it is on disk changes no resolution, reference,   *)
(* symbol or completion.                                                   *)
THEOREM OpeningChangesNothing == MCSpec => OpeningKeepsAnswers
<1> DEFINE Kept ==
      \A p \in Paths : Opens(p) /\ Cardinality(Indexing(p)) = 1 =>
        /\ \A t \in Targets : ~AliasOnly(t.name) => Resolve(t)' = Resolve(t)
        /\ \A q \in Paths, line \in Lines : References(q, line, FALSE)' = References(q, line, FALSE)
        /\ Len(WorkspaceSymbols(Names)) < MaxSymbols =>
             ToSet(WorkspaceSymbols(Names))' = ToSet(WorkspaceSymbols(Names))
        /\ \A kind \in Kinds : CompleteSymbols(kind, "name", Names)'
                                = CompleteSymbols(kind, "name", Names)
<1>1. WorkspaceInv /\ [Next]_vars => Kept
  BY OpeningKeepsNames, OpeningKeepsReferences, OpeningKeeps DEF WorkspaceInv
<1>2. WorkspaceInv /\ [Next]_vars => [Kept]_vars
  BY <1>1
<1> HIDE DEF Kept
<1>3. MCSpec => [][Kept]_vars
  BY <1>2, WorkspaceInductive, PTL
<1> QED  BY <1>3 DEF OpeningKeepsAnswers, Kept
=============================================================================
