--------------------------- MODULE ReadersProofs ---------------------------
(***************************************************************************)
(* Proofs about Readers: for any package files, any options and any        *)
(* directories; for any installed packages, under any names, what they     *)
(* declare; for any goals, packages and catalogs, the callables that       *)
(* completion, signature help and hover show; for any goal files, the      *)
(* errors in their database columns; and for any rules and goals, what the *)
(* index reads of them.                                                    *)
(***************************************************************************)
EXTENDS Readers, Induction, SequenceTheorems

-----------------------------------------------------------------------------
(* Packages.                                                               *)

IsNumbered(file, e) ==
  /\ file.size \in Nat /\ file.header.listOffset \in Nat /\ file.header.listSize \in Nat
  /\ e.offset \in Nat /\ e.stored \in Nat /\ e.unpacked \in Nat /\ e.lz4 \in Nat

(* A range that is accepted lies in the file, behind its header and apart  *)
(* from its list.                                                          *)
LEMMA AcceptedRange ==
  ASSUME NEW file, NEW e, IsNumbered(file, e), HeaderSize \in Nat, Format!RangeAccepted(e, file),
         NEW byte \in e.offset .. e.offset + e.stored - 1
  PROVE  /\ byte < file.size
         /\ HeaderSize <= byte
         /\ \/ byte < file.header.listOffset
            \/ file.header.listOffset + file.header.listSize <= byte
<1>1. /\ byte \in Nat /\ e.offset <= byte /\ byte < e.offset + e.stored /\ e.stored # 0
  BY DEF IsNumbered
<1>2. /\ e.offset + e.stored <= file.size
      /\ HeaderSize <= e.offset
      /\ ~(e.offset < file.header.listOffset + file.header.listSize
           /\ file.header.listOffset < e.offset + e.stored)
  BY <1>1 DEF Format!RangeAccepted
<1> QED  BY <1>1, <1>2 DEF IsNumbered

(* What is decoded is as long as was announced, and that is in the limit.  *)
LEMMA DecodedLength ==
  ASSUME NEW now, NEW opened, NEW e, NEW limit \in Nat, IsNumbered(opened, e),
         Format!IsOk(Format!ReadEntry(now, opened, e, limit))
  PROVE  /\ Format!ReadEntry(now, opened, e, limit).value <= limit
         /\ e.stored <= limit
         /\ now.size = opened.size /\ Format!RangeAccepted(e, opened)
<1>1. ~Format!IsOk(Format!Error)
  BY DEF Format!IsOk, Format!Error
<1>2. /\ now.size = opened.size /\ Format!RangeAccepted(e, opened)
      /\ ~(e.stored > limit) /\ ~(e.unpacked > limit)
  BY <1>1 DEF Format!ReadEntry
<1>3. e.stored <= limit /\ e.unpacked <= limit
  BY <1>2 DEF IsNumbered
<1>4. CASE e.compression = 0
  <2>1. Format!ReadEntry(now, opened, e, limit) = Format!Ok(e.stored)
    BY <1>2, <1>4 DEF Format!ReadEntry
  <2> QED  BY <1>2, <1>3, <2>1 DEF Format!Ok
<1>5. CASE e.compression = 2 /\ e.unpacked = 0
  <2>1. Format!ReadEntry(now, opened, e, limit) = IF e.stored = 0 THEN Format!Ok(0) ELSE Format!Error
    BY <1>2, <1>5 DEF Format!ReadEntry
  <2>2. Format!ReadEntry(now, opened, e, limit) = Format!Ok(0)
    BY <1>1, <2>1
  <2> QED  BY <1>2, <1>3, <2>2 DEF Format!Ok
<1>6. CASE e.compression = 2 /\ e.unpacked # 0
  <2>1. Format!ReadEntry(now, opened, e, limit)
          = IF e.lz4 = e.unpacked THEN Format!Ok(e.lz4) ELSE Format!Error
    BY <1>2, <1>6 DEF Format!ReadEntry
  <2>2. Format!ReadEntry(now, opened, e, limit) = Format!Ok(e.unpacked)
    BY <1>1, <2>1
  <2> QED  BY <1>2, <1>3, <2>2 DEF Format!Ok
<1>7. CASE e.compression # 0 /\ e.compression # 2
  BY <1>1, <1>2, <1>7 DEF Format!ReadEntry
<1> QED  BY <1>4, <1>5, <1>6, <1>7

(* Whatever numbers a package gives, what is read of it lies inside.       *)
LEMMA ReadsStayInside ==
  ASSUME HeaderSize \in Nat, NEW now, NEW opened, NEW e, NEW limit \in Nat, IsNumbered(opened, e)
  PROVE  Format!ReadInside(now, opened, e, limit)
<1> SUFFICES ASSUME Format!IsOk(Format!ReadEntry(now, opened, e, limit))
             PROVE  /\ Format!ReadEntry(now, opened, e, limit).value <= limit
                    /\ e.stored <= limit
                    /\ \A byte \in e.offset .. e.offset + e.stored - 1 :
                         /\ byte < now.size
                         /\ HeaderSize <= byte
                         /\ \/ byte < opened.header.listOffset
                            \/ opened.header.listOffset + opened.header.listSize <= byte
  BY DEF Format!ReadInside
<1> QED  BY DecodedLength, AcceptedRange

(* Of a package that opens, the first entry of a name is found by it.      *)
LEMMA FirstIsFound ==
  ASSUME NEW file \in PackageFiles, Format!IsOk(Format!Open(file)), NEW i \in DOMAIN file.list.entries,
         \A j \in 1 .. i - 1 : file.list.entries[j].name # file.list.entries[i].name
  PROVE  Format!FindEntry(file, file.list.entries[i].name) = Format!Ok(file.list.entries[i])
<1> DEFINE entries == file.list.entries
           found == {j \in DOMAIN entries : entries[j].name = entries[i].name}
<1>1. /\ Format!HeaderAccepted(file) /\ Format!Layout(file.header) = "supported"
      /\ Format!ListAccepted(file)
      /\ \A j \in DOMAIN entries : Format!EntryAccepted(entries[j]) /\ Format!RangeAccepted(entries[j], file)
  BY DEF Format!Open, Format!IsOk, Format!Error
<1>2. DOMAIN entries \subseteq Nat \ {0}
  BY ReadersAssumption DEF Format!IsFile
<1>3. i \in found /\ \A j \in found : i <= j
  BY <1>2
<1>4. (CHOOSE j \in found : \A k \in found : j <= k) = i
  <2>1. \A j \in found : (\A k \in found : j <= k) => j = i
    BY <1>2, <1>3
  <2> QED  BY <1>3, <2>1
<1> QED  BY <1>1, <1>3, <1>4 DEF Format!FindEntry

LEMMA PackagesInside ==
  ASSUME input.tag = "package" => input.file \in PackageFiles
  PROVE  PackageReadsStayInside
<1> SUFFICES ASSUME input.tag = "package", Format!IsOk(Format!Open(input.file)),
                    NEW i \in DOMAIN input.file.list.entries
             PROVE  /\ Format!ReadInside(input.now, input.file, input.file.list.entries[i], ReadLimit)
                    /\ (\A j \in 1 .. i - 1 :
                          input.file.list.entries[j].name # input.file.list.entries[i].name) =>
                         Format!ReadPackageEntry(input.file, input.file.list.entries[i].name, ReadLimit)
                           = Format!ReadEntry(input.file, input.file, input.file.list.entries[i], ReadLimit)
  BY DEF PackageReadsStayInside
<1>1. Format!IsFile(input.file) /\ HeaderSize \in Nat /\ ReadLimit \in Nat
  BY ReadersAssumption
<1>2. IsNumbered(input.file, input.file.list.entries[i])
  BY <1>1 DEF IsNumbered, Format!IsFile
<1>3. ASSUME \A j \in 1 .. i - 1 : input.file.list.entries[j].name # input.file.list.entries[i].name
      PROVE  Format!ReadPackageEntry(input.file, input.file.list.entries[i].name, ReadLimit)
               = Format!ReadEntry(input.file, input.file, input.file.list.entries[i], ReadLimit)
  <2>1. Format!FindEntry(input.file, input.file.list.entries[i].name)
          = Format!Ok(input.file.list.entries[i])
    BY <1>3, FirstIsFound
  <2> QED  BY <2>1 DEF Format!ReadPackageEntry, Format!IsOk, Format!Ok
<1> QED  BY <1>1, <1>2, <1>3, ReadsStayInside

-----------------------------------------------------------------------------
(* Goal files and their schemas.                                           *)

(* What sorting gives is arranged.                                         *)
Rising(S) == {xy \in S \X S : xy[1] < xy[2]}

LEMMA SortedArranges ==
  ASSUME NEW S \in SUBSET Nat, IsFiniteSet(S)
  PROVE  Arranges(Sorted(S), S, Rising(S))
<1> DEFINE R == Rising(S)
<1>1. \A x, y : <<x, y>> \in R <=> x \in S /\ y \in S /\ x < y
  BY DEF Rising
<1>2. R \subseteq S \X S
  BY DEF Rising
<1> HIDE DEF R
<1>3. \A x \in S : x \in Nat
  OBVIOUS
<1>4. Orders(R, S)
  BY <1>1, <1>2, <1>3 DEF Orders
<1>5. Arranges(Arranged(S, [x \in S |-> Cardinality({y \in S : <<y, x>> \in R})]), S, R)
  BY <1>4, OrderArranges
<1>6. \A x \in S : {y \in S : <<y, x>> \in R} = {y \in S : y < x}
  BY <1>1
<1>7. [x \in S |-> Cardinality({y \in S : <<y, x>> \in R})] = [x \in S |-> Cardinality({y \in S : y < x})]
  BY <1>6
<1> QED  BY <1>5, <1>7 DEF Sorted, R

(* The sources, in order, are the paths.                                   *)
LEMMA SourcesArranged ==
  ASSUME files \in [Paths -> [goal : Goals, occurrences : Seq(Occurrences)]]
  PROVE  Sources(Ascending) \in Seq(Paths)
<1> DEFINE Less(q, p) == \/ files[q].goal < files[p].goal
                         \/ files[q].goal = files[p].goal /\ <<q, p>> \in Ascending
           R == {qp \in Paths \X Paths : Less(qp[1], qp[2])}
<1>1. \A p, q : <<q, p>> \in R <=> q \in Paths /\ p \in Paths /\ Less(q, p)
  OBVIOUS
<1>2. \A p \in Paths : p \in Nat /\ files[p].goal \in Nat
  BY SchemasAssumption
<1>3. \A p, q \in Paths : Less(q, p) <=> \/ files[q].goal < files[p].goal
                                         \/ files[q].goal = files[p].goal /\ q < p
  BY DEF Ascending
<1>4. R \subseteq Paths \X Paths
  OBVIOUS
<1> HIDE DEF R, Less
<1>5. Orders(R, Paths)
  <2>1. \A x \in Paths : <<x, x>> \notin R
    BY <1>1, <1>2, <1>3
  <2>2. ASSUME NEW x \in Paths, NEW y \in Paths, NEW z \in Paths, <<x, y>> \in R, <<y, z>> \in R
        PROVE  <<x, z>> \in R
    <3>1. Less(x, y) /\ Less(y, z)
      BY <1>1, <2>2
    <3> DEFINE a == files[x].goal
               b == files[y].goal
               c == files[z].goal
    <3>2. (a < b \/ (a = b /\ x < y)) /\ (b < c \/ (b = c /\ y < z))
      BY <1>3, <3>1
    <3>3. x \in Nat /\ y \in Nat /\ z \in Nat /\ a \in Nat /\ b \in Nat /\ c \in Nat
      BY <1>2
    <3> HIDE DEF a, b, c
    <3>4. a < c \/ (a = c /\ x < z)
      BY <3>2, <3>3
    <3> QED  BY <1>1, <1>3, <3>4 DEF a, c
  <2>3. ASSUME NEW x \in Paths, NEW y \in Paths PROVE x = y \/ <<x, y>> \in R \/ <<y, x>> \in R
    <3> DEFINE a == files[x].goal
               b == files[y].goal
    <3>1. x \in Nat /\ y \in Nat /\ a \in Nat /\ b \in Nat
      BY <1>2
    <3> HIDE DEF a, b
    <3>2. x = y \/ (a < b \/ (a = b /\ x < y)) \/ (b < a \/ (b = a /\ y < x))
      BY <3>1
    <3> QED  BY <1>1, <1>3, <3>2 DEF a, b
  <2> QED  BY <1>4, <2>1, <2>2, <2>3 DEF Orders
<1>6. Arranges(Arranged(Paths, [p \in Paths |-> Cardinality({q \in Paths : <<q, p>> \in R})]), Paths, R)
  BY <1>5, OrderArranges, SchemasAssumption
<1>7. \A p \in Paths : {q \in Paths : <<q, p>> \in R} = {q \in Paths : Less(q, p)}
  BY <1>1
<1>8. [p \in Paths |-> Cardinality({q \in Paths : <<q, p>> \in R})]
        = [p \in Paths |-> Cardinality({q \in Paths : Less(q, p)})]
  BY <1>7
<1>9. Sources(Ascending) = Arranged(Paths, [p \in Paths |-> Cardinality({q \in Paths : Less(q, p)})])
  BY DEF Sources, Less
<1> QED  BY <1>6, <1>8, <1>9 DEF Arranges

(* A concatenation of sequences is a sequence.                             *)
LEMMA FlattenType ==
  ASSUME NEW T, NEW seqs \in Seq(Seq(T))
  PROVE  FlattenSeq(seqs) \in Seq(T)
<1>1. CASE Len(seqs) = 0
  BY <1>1 DEF FlattenSeq
<1>2. CASE Len(seqs) # 0
  <2> DEFINE N == Len(seqs)
             V == Seq(T)
             step == [nv \in (1 .. N) \X V |-> nv[2] \o seqs[nv[1]]]
             Solves(f) == f = [i \in 1 .. N |-> IF i = 1 THEN seqs[i] ELSE f[i - 1] \o seqs[i]]
             flatten == CHOOSE f : Solves(f)
  <2>1. N \in Nat /\ <<>> \in V /\ \A i \in 1 .. N : seqs[i] \in V
    OBVIOUS
  <2>2. \A v, w \in V : v \o w \in V
    OBVIOUS
  <2>3. \A v \in V : <<>> \o v = v
    OBVIOUS
  <2>4. step \in StepsUpTo(N, V)
    BY <2>1, <2>2 DEF StepsUpTo
  <2>5. \A n \in 1 .. N, v \in V : step[<<n, v>>] = v \o seqs[n]
    OBVIOUS
  <2>11. FlattenSeq(seqs) = flatten[N]
    BY <1>2 DEF FlattenSeq
  <2> HIDE DEF V, step, N
  <2>6. PICK g \in [0 .. N -> V] : g[0] = <<>> /\ \A n \in 1 .. N : g[n] = step[<<n, g[n - 1]>>]
    <3>1. IsFollowedUpTo(N, V, <<>>, step)
      BY <2>1, <2>4, BoundedRecursion
    <3> QED  BY <3>1 DEF IsFollowedUpTo
  <2> DEFINE h == [i \in 1 .. N |-> g[i]]
  <2>7. \A n \in 1 .. N : n - 1 \in 0 .. N /\ g[n - 1] \in V /\ g[n] = g[n - 1] \o seqs[n]
    <3> TAKE n \in 1 .. N
    <3>1. n - 1 \in 0 .. N
      BY <2>1
    <3>2. g[n - 1] \in V
      BY <2>6, <3>1
    <3> QED  BY <2>5, <2>6, <3>1, <3>2
  <2>8. Solves(h)
    <3>1. ASSUME NEW i \in 1 .. N
          PROVE  g[i] = IF i = 1 THEN seqs[i] ELSE h[i - 1] \o seqs[i]
      <4>1. CASE i = 1
        <5>1. g[i] = g[i - 1] \o seqs[i] /\ seqs[i] \in V
          BY <2>1, <2>7
        <5>3. i - 1 = 0
          BY <4>1
        <5>2. <<>> \o seqs[i] = seqs[i]
          BY <2>3, <5>1
        <5> QED  BY <2>6, <4>1, <5>1, <5>2, <5>3
      <4>2. CASE i # 1
        <5>1. i - 1 \in 1 .. N
          BY <4>2, <2>1
        <5> QED  BY <2>7, <4>2, <5>1
      <4> QED  BY <4>1, <4>2
    <3> QED  BY <3>1
  <2>9. Solves(flatten)
    <3> HIDE DEF Solves
    <3> QED  BY <2>8
  <2> HIDE DEF flatten
  <2> DEFINE S == {n \in 0 .. N : n = 0 \/ flatten[n] \in V}
  <2>10. \A n \in 0 .. N : n \in S
    <3>1. 0 \in S
      BY <2>1
    <3>2. ASSUME NEW n \in 1 .. N, n - 1 \in S PROVE n \in S
      <4>1. CASE n = 1
        <5>1. flatten[n] = seqs[n]
          BY <2>9, <4>1
        <5> QED  BY <2>1, <5>1
      <4>2. CASE n # 1
        <5>1. flatten[n] = flatten[n - 1] \o seqs[n]
          BY <2>9, <4>2
        <5>2. n - 1 # 0 /\ n \in 0 .. N
          BY <2>1, <4>2
        <5>3. flatten[n - 1] \in V
          BY <3>2, <5>2
        <5>4. seqs[n] \in V
          BY <2>1
        <5>5. flatten[n - 1] \o seqs[n] \in V
          BY <2>2, <5>3, <5>4
        <5> QED  BY <5>1, <5>2, <5>5
      <4> QED  BY <4>1, <4>2
    <3> HIDE DEF S
    <3> QED  BY <2>1, <3>1, <3>2, BoundedInduction
  <2>12. N \in 0 .. N /\ N # 0
    BY <1>2, <2>1 DEF N
  <2> QED  BY <2>10, <2>11, <2>12 DEF V
<1> QED  BY <1>1, <1>2

-----------------------------------------------------------------------------
LEMMA AppendedSet ==
  ASSUME NEW T, NEW s \in Seq(T), NEW t \in T
  PROVE  Append(s, t) \in Seq(T) /\ ToSet(Append(s, t)) = ToSet(s) \cup {t} /\ Append(s, t) # <<>>
<1> DEFINE u == Append(s, t)
<1>1. /\ u \in Seq(T) /\ DOMAIN u = 1 .. Len(s) + 1 /\ u[Len(s) + 1] = t
      /\ \A i \in 1 .. Len(s) : u[i] = s[i]
  OBVIOUS
<1>2. DOMAIN s = 1 .. Len(s) /\ Len(s) \in Nat
  OBVIOUS
<1> HIDE DEF u
<1>3. ToSet(u) = ToSet(s) \cup {t}
  <2>1. ASSUME NEW x \in ToSet(u) PROVE x \in ToSet(s) \cup {t}
    <3>1. PICK i \in 1 .. Len(s) + 1 : u[i] = x
      BY <1>1 DEF ToSet
    <3>2. i \in 1 .. Len(s) \/ i = Len(s) + 1
      BY <1>2
    <3> QED  BY <1>1, <1>2, <3>1, <3>2 DEF ToSet
  <2>2. ASSUME NEW x \in ToSet(s) PROVE x \in ToSet(u)
    <3>1. PICK i \in 1 .. Len(s) : s[i] = x
      BY <1>2 DEF ToSet
    <3>2. i \in 1 .. Len(s) + 1
      BY <1>2
    <3> QED  BY <1>1, <3>1, <3>2 DEF ToSet
  <2>3. t \in ToSet(u)
    <3>1. Len(s) + 1 \in 1 .. Len(s) + 1
      BY <1>2
    <3> QED  BY <1>1, <3>1 DEF ToSet
  <2> QED  BY <2>1, <2>2, <2>3
<1>4. u # <<>>
  <2>1. t \in ToSet(u)
    BY <1>3
  <2> QED  BY <2>1 DEF ToSet
<1> QED  BY <1>1, <1>3, <1>4 DEF u

LEMMA AddedType ==
  ASSUME NEW T, None \notin T, NEW seen \in Seq(T), NEW t \in T \cup {None}
  PROVE  /\ AddType(seen, t) \in Seq(T)
         /\ ToSet(AddType(seen, t)) = ToSet(seen) \cup ({t} \ {None})
<1>1. CASE t = None \/ t \in ToSet(seen)
  BY <1>1 DEF AddType
<1>2. CASE t # None /\ t \notin ToSet(seen)
  <2>1. AddType(seen, t) = Append(seen, t) /\ t \in T
    BY <1>2 DEF AddType
  <2>2. Append(seen, t) \in Seq(T) /\ ToSet(Append(seen, t)) = ToSet(seen) \cup {t}
    BY <2>1, AppendedSet
  <2> QED  BY <1>2, <2>1, <2>2
<1> QED  BY <1>1, <1>2

(* The types among those that a sequence gives, up to its n-th.            *)
GivenUpTo(types, n) == {types[i] : i \in 1 .. n} \ {None}

LEMMA GivenNext ==
  ASSUME NEW types, NEW N \in Nat, NEW n \in 1 .. N
  PROVE  /\ n - 1 \in 0 .. N
         /\ GivenUpTo(types, n) = GivenUpTo(types, n - 1) \cup ({types[n]} \ {None})
<1>1. \A i : i \in 1 .. n <=> i \in 1 .. n - 1 \/ i = n
  OBVIOUS
<1>2. n - 1 \in 0 .. N
  OBVIOUS
<1>3. {types[i] : i \in 1 .. n} = {types[i] : i \in 1 .. n - 1} \cup {types[n]}
  BY <1>1
<1> QED  BY <1>2, <1>3 DEF GivenUpTo

LEMMA DistinctTypes ==
  ASSUME NEW T, None \notin T, NEW types \in Seq(T \cup {None})
  PROVE  Distinct(types) \in Seq(T) /\ ToSet(Distinct(types)) = ToSet(types) \ {None}
<1> DEFINE N == Len(types)
           V == Seq(T)
           step == [nv \in (1 .. N) \X V |-> AddType(nv[2], types[nv[1]])]
           Solves(f) == f = [n \in 0 .. N |-> IF n = 0 THEN <<>> ELSE AddType(f[n - 1], types[n])]
           distinct == CHOOSE f : Solves(f)
<1>1. N \in Nat /\ <<>> \in V /\ \A n \in 1 .. N : types[n] \in T \cup {None}
  OBVIOUS
<1>2. \A n \in 1 .. N, v \in V : AddType(v, types[n]) \in V
  BY <1>1, AddedType
<1>3. step \in StepsUpTo(N, V) /\ \A n \in 1 .. N, v \in V : step[<<n, v>>] = AddType(v, types[n])
  BY <1>2 DEF StepsUpTo
<1>4. Distinct(types) = distinct[N]
  BY DEF Distinct
<1>5. ToSet(types) \ {None} = GivenUpTo(types, N)
  BY DEF ToSet, GivenUpTo
<1> HIDE DEF V, step, N
<1>6. PICK g \in [0 .. N -> V] : g[0] = <<>> /\ \A n \in 1 .. N : g[n] = step[<<n, g[n - 1]>>]
  <2>1. IsFollowedUpTo(N, V, <<>>, step)
    BY <1>1, <1>3, BoundedRecursion
  <2> QED  BY <2>1 DEF IsFollowedUpTo
<1>7. \A n \in 1 .. N : n - 1 \in 0 .. N
  BY <1>1
<1>8. Solves(g)
  <2>1. ASSUME NEW n \in 0 .. N PROVE g[n] = IF n = 0 THEN <<>> ELSE AddType(g[n - 1], types[n])
    <3>1. CASE n # 0
      <4>1. n \in 1 .. N
        BY <1>1, <3>1
      <4>2. g[n - 1] \in V
        BY <1>6, <1>7, <4>1
      <4> QED  BY <1>3, <1>6, <3>1, <4>1, <4>2
    <3> QED  BY <1>6, <3>1
  <2> QED  BY <2>1
<1>9. Solves(distinct)
  <2> HIDE DEF Solves
  <2> QED  BY <1>8
<1> HIDE DEF distinct
<1> DEFINE S == {n \in 0 .. N : distinct[n] \in V /\ ToSet(distinct[n]) = GivenUpTo(types, n)}
<1>10. 0 \in S
  <2>1. 0 \in 0 .. N
    BY <1>1
  <2>2. distinct[0] = <<>>
    BY <1>9, <2>1
  <2>3. ToSet(<<>>) = {} /\ GivenUpTo(types, 0) = {}
    BY DEF ToSet, GivenUpTo
  <2> QED  BY <1>1, <2>1, <2>2, <2>3
<1>11. ASSUME NEW n \in 1 .. N, n - 1 \in S PROVE n \in S
  <2>1. n \in 0 .. N /\ n # 0
    BY <1>1
  <2>2. distinct[n] = AddType(distinct[n - 1], types[n])
    BY <1>9, <2>1
  <2>3. distinct[n - 1] \in Seq(T) /\ types[n] \in T \cup {None}
    BY <1>1, <1>11 DEF V
  <2>4. /\ AddType(distinct[n - 1], types[n]) \in Seq(T)
        /\ ToSet(AddType(distinct[n - 1], types[n])) = ToSet(distinct[n - 1]) \cup ({types[n]} \ {None})
    BY <2>3, AddedType
  <2>5. GivenUpTo(types, n) = GivenUpTo(types, n - 1) \cup ({types[n]} \ {None})
    BY <1>1, GivenNext
  <2> QED  BY <1>11, <2>1, <2>2, <2>4, <2>5 DEF V
<1>12. N \in 0 .. N
  BY <1>1
<1>13. \A n \in 0 .. N : n \in S
  <2> HIDE DEF S
  <2> QED  BY <1>1, <1>10, <1>11, BoundedInduction
<1> QED  BY <1>4, <1>5, <1>12, <1>13 DEF V

-----------------------------------------------------------------------------
(* What a column may hold: it is established by its first observation.     *)
Held(T) ==
  {column \in [established : T \cup {None}, conflicts : Seq(T), ambiguous : BOOLEAN,
               observations : Seq(T)] :
     ~column.ambiguous => (column.established = None <=> column.observations = <<>>)}

(* It becomes no less ambiguous, and otherwise gains these types.          *)
Gains(column, next, types) ==
  /\ next.ambiguous = column.ambiguous
  /\ ~column.ambiguous => ToSet(next.observations) = ToSet(column.observations) \cup types

LEMMA Observed ==
  ASSUME NEW T, None \notin T, NEW column \in Held(T), NEW t \in T \cup {None}
  PROVE  Observe(column, t) \in Held(T) /\ Gains(column, Observe(column, t), {t} \ {None})
<1>0. /\ column.established \in T \cup {None} /\ column.conflicts \in Seq(T)
      /\ column.ambiguous \in BOOLEAN /\ column.observations \in Seq(T)
      /\ column = [established |-> column.established, conflicts |-> column.conflicts,
                   ambiguous |-> column.ambiguous, observations |-> column.observations]
      /\ ~column.ambiguous => (column.established = None <=> column.observations = <<>>)
  BY DEF Held
<1>1. CASE column.ambiguous \/ t = None
  <2>1. Observe(column, t) = column
    BY <1>1 DEF Observe
  <2> QED  BY <1>1, <2>1 DEF Gains
<1>2. CASE ~column.ambiguous /\ t # None
  <2> DEFINE o == Append(column.observations, t)
             established == IF column.established = None THEN t ELSE column.established
             conflicts == IF \E s \in ToSet(column.observations) : Compatibility(s, t) # "yes"
                            THEN Append(column.conflicts, t) ELSE column.conflicts
             next == Observe(column, t)
  <2>1. t \in T
    BY <1>2
  <2>2. o \in Seq(T) /\ ToSet(o) = ToSet(column.observations) \cup {t} /\ o # <<>>
    BY <1>0, <2>1, AppendedSet
  <2>3. conflicts \in Seq(T)
    <3>1. Append(column.conflicts, t) \in Seq(T)
      BY <1>0, <2>1, AppendedSet
    <3> QED  BY <1>0, <3>1
  <2>4. established \in T \cup {None} /\ established # None
    BY <1>0, <1>2, <2>1
  <2>5. next = [established |-> established, conflicts |-> conflicts,
                ambiguous |-> column.ambiguous, observations |-> o]
    <3>1. next = [column EXCEPT !.established = established, !.conflicts = conflicts, !.observations = o]
      BY <1>2 DEF Observe
    <3> HIDE DEF next, established, conflicts, o
    <3> QED  BY <1>0, <3>1
  <2> HIDE DEF next, established, conflicts, o
  <2>6. next \in Held(T)
    BY <1>0, <2>2, <2>3, <2>4, <2>5 DEF Held
  <2>7. Gains(column, next, {t} \ {None})
    BY <1>2, <2>2, <2>5 DEF Gains
  <2> QED  BY <2>6, <2>7 DEF next
<1> QED  BY <1>0, <1>1, <1>2

LEMMA AllObserved ==
  ASSUME NEW T, None \notin T, NEW column \in Held(T), NEW types \in Seq(T \cup {None})
  PROVE  /\ ObserveAll(column, types) \in Held(T)
         /\ Gains(column, ObserveAll(column, types), ToSet(types) \ {None})
<1> DEFINE N == Len(types)
           V == Held(T)
           step == [nv \in (1 .. N) \X V |-> Observe(nv[2], types[nv[1]])]
           Solves(f) == f = [n \in 0 .. N |-> IF n = 0 THEN column ELSE Observe(f[n - 1], types[n])]
           observed == CHOOSE f : Solves(f)
<1>1. N \in Nat /\ column \in V /\ \A n \in 1 .. N : types[n] \in T \cup {None}
  OBVIOUS
<1>2. \A n \in 1 .. N, v \in V : Observe(v, types[n]) \in V
  BY <1>1, Observed
<1>3. step \in StepsUpTo(N, V) /\ \A n \in 1 .. N, v \in V : step[<<n, v>>] = Observe(v, types[n])
  BY <1>2 DEF StepsUpTo
<1>4. ObserveAll(column, types) = observed[N]
  BY DEF ObserveAll
<1>5. ToSet(types) \ {None} = GivenUpTo(types, N)
  BY DEF ToSet, GivenUpTo
<1> HIDE DEF V, step, N
<1>6. PICK g \in [0 .. N -> V] : g[0] = column /\ \A n \in 1 .. N : g[n] = step[<<n, g[n - 1]>>]
  <2>1. IsFollowedUpTo(N, V, column, step)
    BY <1>1, <1>3, BoundedRecursion
  <2> QED  BY <2>1 DEF IsFollowedUpTo
<1>7. \A n \in 1 .. N : n - 1 \in 0 .. N
  BY <1>1
<1>8. Solves(g)
  <2>1. ASSUME NEW n \in 0 .. N PROVE g[n] = IF n = 0 THEN column ELSE Observe(g[n - 1], types[n])
    <3>1. CASE n # 0
      <4>1. n \in 1 .. N
        BY <1>1, <3>1
      <4>2. g[n - 1] \in V
        BY <1>6, <1>7, <4>1
      <4> QED  BY <1>3, <1>6, <3>1, <4>1, <4>2
    <3> QED  BY <1>6, <3>1
  <2> QED  BY <2>1
<1>9. Solves(observed)
  <2> HIDE DEF Solves
  <2> QED  BY <1>8
<1> HIDE DEF observed
<1> DEFINE S == {n \in 0 .. N : observed[n] \in V /\ Gains(column, observed[n], GivenUpTo(types, n))}
<1>10. 0 \in S
  <2>1. 0 \in 0 .. N
    BY <1>1
  <2>2. observed[0] = column
    BY <1>9, <2>1
  <2>3. GivenUpTo(types, 0) = {}
    BY DEF GivenUpTo
  <2>4. Gains(column, column, {})
    BY DEF Gains
  <2> QED  BY <1>1, <2>1, <2>2, <2>3, <2>4
<1>11. ASSUME NEW n \in 1 .. N, n - 1 \in S PROVE n \in S
  <2>1. n \in 0 .. N /\ n # 0
    BY <1>1
  <2>2. observed[n] = Observe(observed[n - 1], types[n])
    BY <1>9, <2>1
  <2>3. observed[n - 1] \in Held(T) /\ types[n] \in T \cup {None}
    BY <1>1, <1>11 DEF V
  <2>4. /\ Observe(observed[n - 1], types[n]) \in Held(T)
        /\ Gains(observed[n - 1], Observe(observed[n - 1], types[n]), {types[n]} \ {None})
    BY <2>3, Observed
  <2>5. GivenUpTo(types, n) = GivenUpTo(types, n - 1) \cup ({types[n]} \ {None})
    BY <1>1, GivenNext
  <2>6. Gains(column, observed[n - 1], GivenUpTo(types, n - 1))
    BY <1>11
  <2>7. Gains(column, observed[n], GivenUpTo(types, n))
    BY <2>2, <2>4, <2>5, <2>6 DEF Gains
  <2> QED  BY <2>1, <2>2, <2>4, <2>7 DEF V
<1>12. N \in 0 .. N
  BY <1>1
<1>13. \A n \in 0 .. N : n \in S
  <2> HIDE DEF S
  <2> QED  BY <1>1, <1>10, <1>11, BoundedInduction
<1> QED  BY <1>4, <1>5, <1>12, <1>13 DEF V

(* What the records of one goal give to a column.                          *)
GivenBy(records, c, g) ==
  {r.type : r \in {s \in ToSet(records) : s.column = c /\ s.goal = g}} \ {None}

AllGiven(records) == {records[i].type : i \in DOMAIN records} \ {None}

Disputed(records, c, g) == Duplicated(g) /\ Clash(GivenBy(records, c, g), {"no", "unknown"})

LEMMA CompatibilityIs ==
  ASSUME NEW s, NEW t
  PROVE  /\ Compatibility(s, t) \in {"yes", "no", "unknown"}
         /\ Compatibility(s, t) = Compatibility(t, s)
         /\ Compatibility(s, s) = "yes"
BY DEF Compatibility

LEMMA GoalFolded ==
  ASSUME NEW records, NEW n \in Nat, DOMAIN records = 1 .. n, NEW c, NEW g,
         NEW column \in Held(AllGiven(records))
  PROVE  LET next == FoldGoal(column, c, g, records) IN
         /\ next \in Held(AllGiven(records))
         /\ next.ambiguous <=> column.ambiguous \/ Disputed(records, c, g)
         /\ ~next.ambiguous =>
              ToSet(next.observations) = ToSet(column.observations) \cup GivenBy(records, c, g)
<1> DEFINE T == AllGiven(records)
           chosen == {i \in DOMAIN records : records[i].goal = g /\ records[i].column = c}
           here == TypesIn(records, chosen)
           known == Distinct(here)
           next == FoldGoal(column, c, g, records)
           given == GivenBy(records, c, g)
<1>1. None \notin T
  BY DEF AllGiven
<1>2. here \in Seq(T \cup {None}) /\ ToSet(here) \ {None} = given
  <2>1. /\ DOMAIN here = 1 .. n
        /\ \A i \in 1 .. n : here[i] = IF i \in chosen THEN records[i].type ELSE None
    BY DEF TypesIn
  <2>2. \A i \in 1 .. n : here[i] \in T \cup {None}
    BY <2>1 DEF AllGiven
  <2>3. here \in [1 .. n -> T \cup {None}]
    BY <2>1, <2>2 DEF TypesIn
  <2>4. here \in Seq(T \cup {None})
    BY <2>3
  <2>5. \A t : t \in ToSet(here) \ {None} <=> t \in given
    <3>1. ASSUME NEW t, t \in ToSet(here) \ {None} PROVE t \in given
      <4>1. PICK i \in 1 .. n : here[i] = t /\ t # None
        BY <2>1, <3>1 DEF ToSet
      <4>2. i \in chosen /\ records[i].type = t /\ records[i] \in ToSet(records)
        BY <2>1, <4>1 DEF ToSet
      <4> QED  BY <4>1, <4>2 DEF GivenBy
    <3>2. ASSUME NEW t, t \in given PROVE t \in ToSet(here) \ {None}
      <4>1. PICK r \in ToSet(records) : r.column = c /\ r.goal = g /\ r.type = t /\ t # None
        BY <3>2 DEF GivenBy
      <4>2. PICK i \in 1 .. n : records[i] = r
        BY <4>1 DEF ToSet
      <4>3. i \in chosen
        BY <4>1, <4>2
      <4>4. here[i] = t
        BY <2>1, <4>1, <4>2, <4>3
      <4> QED  BY <2>1, <4>1, <4>4 DEF ToSet
    <3> QED  BY <3>1, <3>2
  <2> QED  BY <2>4, <2>5
<1> HIDE DEF T
<1>3. known \in Seq(T) /\ ToSet(known) = given
  BY <1>1, <1>2, DistinctTypes
<1>4. next = IF ~Duplicated(g) THEN ObserveAll(column, here)
             ELSE IF known # <<>> /\ ResolveTypes(known) = None
               THEN [column EXCEPT !.established = None, !.conflicts = <<>>, !.ambiguous = TRUE]
             ELSE ObserveAll(column, known)
  BY DEF FoldGoal
<1> HIDE DEF here, known, next, chosen, given
<1>5. known # <<>> /\ ResolveTypes(known) = None <=> Clash(given, {"no", "unknown"})
  <2>1. DOMAIN known = 1 .. Len(known) /\ Len(known) \in Nat /\ \A i \in DOMAIN known : known[i] \in T
    BY <1>3
  <2>2. known # <<>> => known[1] # None
    BY <1>1, <1>3
  <2>3. known # <<>> /\ ResolveTypes(known) = None
          <=> \E i, j \in DOMAIN known : Compatibility(known[i], known[j]) # "yes"
    <3>1. known = <<>> => DOMAIN known = {}
      OBVIOUS
    <3> QED  BY <2>2, <3>1 DEF ResolveTypes
  <2>4. \A x : x \in given <=> \E i \in DOMAIN known : known[i] = x
    BY <1>3 DEF ToSet
  <2>5. \A x, y : Compatibility(x, y) \in {"no", "unknown"} <=> Compatibility(x, y) # "yes"
    BY CompatibilityIs
  <2> QED  BY <2>3, <2>4, <2>5 DEF Clash
<1>6. column \in Held(T)
  BY DEF T
<1>7. CASE ~Duplicated(g)
  <2>1. next \in Held(T) /\ Gains(column, next, given)
    BY <1>1, <1>2, <1>4, <1>6, <1>7, AllObserved
  <2> QED  BY <1>7, <2>1 DEF Gains, Disputed, given, next, T
<1>8. CASE Duplicated(g) /\ ~Clash(given, {"no", "unknown"})
  <2>0. known \in Seq(T \cup {None})
    BY <1>3
  <2>1. next = ObserveAll(column, known)
    BY <1>4, <1>5, <1>8
  <2>2. next \in Held(T) /\ Gains(column, next, ToSet(known) \ {None})
    BY <1>1, <1>6, <2>0, <2>1, AllObserved
  <2>3. ToSet(known) \ {None} = given
    BY <1>3 DEF given, GivenBy
  <2> QED  BY <1>8, <2>2, <2>3 DEF Gains, Disputed, given, next, T
<1>9. CASE Duplicated(g) /\ Clash(given, {"no", "unknown"})
  <2>1. next = [column EXCEPT !.established = None, !.conflicts = <<>>, !.ambiguous = TRUE]
    BY <1>4, <1>5, <1>9
  <2>2. /\ column \in [established : T \cup {None}, conflicts : Seq(T), ambiguous : BOOLEAN,
                       observations : Seq(T)]
    BY <1>6 DEF Held
  <2>3. next = [established |-> None, conflicts |-> <<>>, ambiguous |-> TRUE,
                observations |-> column.observations]
    BY <2>1, <2>2
  <2>4. <<>> \in Seq(T) /\ column.observations \in Seq(T)
    BY <2>2
  <2>5. next \in Held(T) /\ next.ambiguous
    BY <2>3, <2>4 DEF Held
  <2> QED  BY <1>9, <2>5 DEF Disputed, given, next, T
<1> QED  BY <1>7, <1>8, <1>9

(* What the first goals of the order have made of a column.                *)
FoldedUpTo(column, records, c, goals, n) ==
  /\ column \in Held(AllGiven(records))
  /\ column.ambiguous <=> \E k \in 1 .. n : Disputed(records, c, goals[k])
  /\ ~column.ambiguous =>
       ToSet(column.observations) = UNION {GivenBy(records, c, goals[k]) : k \in 1 .. n}

LEMMA ColumnFolded ==
  ASSUME NEW records, NEW n \in Nat, DOMAIN records = 1 .. n, NEW c
  PROVE  LET column == FoldColumn(c, records) IN
         /\ column \in Held(AllGiven(records))
         /\ column.ambiguous <=> \E g \in Goals : Disputed(records, c, g)
         /\ ~column.ambiguous =>
              ToSet(column.observations) = UNION {GivenBy(records, c, g) : g \in Goals}
<1> DEFINE goals == Sorted(Goals)
           N == Len(goals)
           V == Held(AllGiven(records))
           step == [kv \in (1 .. N) \X V |-> FoldGoal(kv[2], c, goals[kv[1]], records)]
           Solves(f) == f = [k \in 0 .. N |->
                               IF k = 0 THEN NoEvidence ELSE FoldGoal(f[k - 1], c, goals[k], records)]
           folded == CHOOSE f : Solves(f)
<1>1. Arranges(goals, Goals, Rising(Goals))
  BY SortedArranges, SchemasAssumption
<1>2. FoldColumn(c, records) = folded[N]
  BY DEF FoldColumn
<1> HIDE DEF goals
<1>3. N \in Nat /\ \A g : g \in Goals <=> \E k \in 1 .. N : goals[k] = g
  BY <1>1 DEF Arranges
<1>4. NoEvidence \in V /\ ~NoEvidence.ambiguous /\ NoEvidence.observations = <<>>
  BY DEF NoEvidence, Held
<1>5. \A k \in 1 .. N, v \in V : FoldGoal(v, c, goals[k], records) \in V
  BY GoalFolded
<1>6. /\ step \in StepsUpTo(N, V)
      /\ \A k \in 1 .. N, v \in V : step[<<k, v>>] = FoldGoal(v, c, goals[k], records)
  BY <1>5 DEF StepsUpTo
<1> HIDE DEF V, step, N
<1>7. PICK h \in [0 .. N -> V] : h[0] = NoEvidence /\ \A k \in 1 .. N : h[k] = step[<<k, h[k - 1]>>]
  <2>1. IsFollowedUpTo(N, V, NoEvidence, step)
    BY <1>3, <1>4, <1>6, BoundedRecursion
  <2> QED  BY <2>1 DEF IsFollowedUpTo
<1>8. \A k \in 1 .. N : k - 1 \in 0 .. N
  BY <1>3
<1>9. Solves(h)
  <2>1. ASSUME NEW k \in 0 .. N
        PROVE  h[k] = IF k = 0 THEN NoEvidence ELSE FoldGoal(h[k - 1], c, goals[k], records)
    <3>1. CASE k # 0
      <4>1. k \in 1 .. N
        BY <1>3, <3>1
      <4>2. h[k - 1] \in V
        BY <1>7, <1>8, <4>1
      <4> QED  BY <1>6, <1>7, <3>1, <4>1, <4>2
    <3> QED  BY <1>7, <3>1
  <2> QED  BY <2>1
<1>10. Solves(folded)
  <2> HIDE DEF Solves
  <2> QED  BY <1>9
<1> HIDE DEF folded
<1> DEFINE S == {k \in 0 .. N : FoldedUpTo(folded[k], records, c, goals, k)}
<1>11. 0 \in S
  <2>1. 0 \in 0 .. N
    BY <1>3
  <2>2. folded[0] = NoEvidence
    BY <1>10, <2>1
  <2>3. ToSet(<<>>) = {} /\ 1 .. 0 = {}
    BY DEF ToSet
  <2>4. FoldedUpTo(NoEvidence, records, c, goals, 0)
    BY <1>4, <2>3 DEF FoldedUpTo, V
  <2> QED  BY <2>1, <2>2, <2>4
<1>12. ASSUME NEW k \in 1 .. N, k - 1 \in S PROVE k \in S
  <2>1. k \in 0 .. N /\ k # 0
    BY <1>3
  <2> DEFINE column == folded[k - 1]
             next == folded[k]
  <2>2. next = FoldGoal(column, c, goals[k], records)
    BY <1>10, <2>1
  <2>3. FoldedUpTo(column, records, c, goals, k - 1)
    BY <1>12
  <2> HIDE DEF column, next
  <2>4. /\ next \in Held(AllGiven(records))
        /\ next.ambiguous <=> column.ambiguous \/ Disputed(records, c, goals[k])
        /\ ~next.ambiguous =>
             ToSet(next.observations) = ToSet(column.observations) \cup GivenBy(records, c, goals[k])
    BY <2>2, <2>3, GoalFolded DEF FoldedUpTo
  <2>5. \A i : i \in 1 .. k <=> i \in 1 .. k - 1 \/ i = k
    BY <1>3
  <2>6. UNION {GivenBy(records, c, goals[i]) : i \in 1 .. k}
          = (UNION {GivenBy(records, c, goals[i]) : i \in 1 .. k - 1}) \cup GivenBy(records, c, goals[k])
    BY <2>5
  <2>7. FoldedUpTo(next, records, c, goals, k)
    BY <2>3, <2>4, <2>5, <2>6 DEF FoldedUpTo
  <2> QED  BY <2>1, <2>7 DEF next
<1>13. N \in 0 .. N
  BY <1>3
<1>14. \A k \in 0 .. N : k \in S
  <2> HIDE DEF S
  <2> QED  BY <1>3, <1>11, <1>12, BoundedInduction
<1>15. FoldedUpTo(folded[N], records, c, goals, N)
  BY <1>13, <1>14
<1>16. (\E k \in 1 .. N : Disputed(records, c, goals[k])) <=> \E g \in Goals : Disputed(records, c, g)
  BY <1>3
<1>17. UNION {GivenBy(records, c, goals[k]) : k \in 1 .. N} = UNION {GivenBy(records, c, g) : g \in Goals}
  BY <1>3
<1> QED  BY <1>2, <1>15, <1>16, <1>17 DEF FoldedUpTo

(* An error is reported exactly if two observations exclude each other:    *)
(* the later one of the two, where each stands first.                      *)
LEMMA ReportsClashes ==
  ASSUME NEW T, None \notin T, NEW column \in Held(T), ~column.ambiguous
  PROVE  Reported(column) # {} <=> Clash(ToSet(column.observations), {"no"})
<1> DEFINE o == column.observations
           m == Len(o)
<1>1. o \in Seq(T) /\ m \in Nat /\ DOMAIN o = 1 .. m /\ (column.established = None <=> o = <<>>)
  BY DEF Held
<1>2. \A x : x \in ToSet(o) <=> \E i \in 1 .. m : o[i] = x
  BY <1>1 DEF ToSet
<1>3. ASSUME NEW i \in Reported(column) PROVE Clash(ToSet(o), {"no"})
  <2>1. i \in 1 .. m /\ \E j \in 1 .. i - 1 : Compatibility(o[j], o[i]) = "no"
    BY <1>1, <1>3 DEF Reported
  <2>2. PICK j \in 1 .. i - 1 : Compatibility(o[j], o[i]) = "no"
    BY <2>1
  <2>3. j \in 1 .. m
    BY <1>1, <2>1
  <2>4. o[j] \in ToSet(o) /\ o[i] \in ToSet(o)
    BY <1>2, <2>1, <2>3
  <2> QED  BY <2>2, <2>4 DEF Clash
<1>4. ASSUME NEW x \in ToSet(o) PROVE \E i \in 1 .. m : o[i] = x /\ \A j \in 1 .. i - 1 : o[j] # x
  <2> DEFINE P == {i \in 1 .. m : o[i] = x}
  <2>1. P # {}
    BY <1>2
  <2>2. IsFiniteSet(1 .. m)
    BY <1>1, FS_Interval, SMT
  <2>3. P \subseteq 1 .. m /\ P \in SUBSET Nat
    BY <1>1
  <2>4. IsFiniteSet(P)
    <3> HIDE DEF P
    <3> QED  BY <2>2, <2>3, FS_Subset
  <2>5. PICK i \in P : \A j \in P : i <= j
    <3> HIDE DEF P
    <3> QED  BY <2>1, <2>3, <2>4, LeastIn
  <2>6. i \in 1 .. m /\ o[i] = x
    OBVIOUS
  <2>7. ASSUME NEW j \in 1 .. i - 1 PROVE o[j] # x
    <3>1. j \in 1 .. m /\ ~(i <= j)
      BY <1>1, <2>6
    <3> QED  BY <2>5, <3>1
  <2> QED  BY <2>6, <2>7
<1>5. ASSUME NEW i \in 1 .. m, NEW j \in 1 .. m, i < j, Compatibility(o[i], o[j]) = "no",
             \A k \in 1 .. j - 1 : o[k] # o[j]
      PROVE  j \in Reported(column)
  <2>1. i \in 1 .. j - 1
    BY <1>1, <1>5
  <2>2. o # <<>>
    BY <1>1
  <2> QED  BY <1>1, <1>5, <2>1, <2>2 DEF Reported
<1>6. ASSUME Clash(ToSet(o), {"no"}) PROVE Reported(column) # {}
  <2>1. PICK s \in ToSet(o), t \in ToSet(o) : Compatibility(s, t) = "no"
    BY <1>6 DEF Clash
  <2>2. PICK i \in 1 .. m : o[i] = s /\ \A k \in 1 .. i - 1 : o[k] # s
    BY <1>4
  <2>3. PICK j \in 1 .. m : o[j] = t /\ \A k \in 1 .. j - 1 : o[k] # t
    BY <1>4
  <2>4. Compatibility(t, s) = "no" /\ s # t
    BY <2>1, CompatibilityIs
  <2>5. i < j \/ j < i
    <3>1. i # j
      BY <2>2, <2>3, <2>4
    <3> QED  BY <1>1, <3>1
  <2> QED  BY <1>5, <2>1, <2>2, <2>3, <2>4, <2>5
<1> QED  BY <1>3, <1>6

FilesType == files \in [Paths -> [goal : Goals, occurrences : Seq(Occurrences)]]

LEMMA RecordsNumbered ==
  ASSUME FilesType
  PROVE  \E n \in Nat : DOMAIN Records(Ascending) = 1 .. n
<1> DEFINE T == {Record(p, o) : p \in Paths, o \in Occurrences}
           Of(p) == [k \in DOMAIN files[p].occurrences |-> Record(p, files[p].occurrences[k])]
           sources == Sources(Ascending)
           lists == [i \in DOMAIN sources |-> Of(sources[i])]
<1>1. sources \in Seq(Paths)
  BY SourcesArranged DEF FilesType
<1>2. ASSUME NEW p \in Paths PROVE Of(p) \in Seq(T)
  <2> DEFINE s == files[p].occurrences
  <2>1. s \in Seq(Occurrences)
    BY DEF FilesType
  <2>2. DOMAIN s = 1 .. Len(s) /\ Len(s) \in Nat /\ \A k \in 1 .. Len(s) : s[k] \in Occurrences
    BY <2>1
  <2>3. \A o \in Occurrences : Record(p, o) \in T
    OBVIOUS
  <2> HIDE DEF s, T
  <2>4. [k \in DOMAIN s |-> Record(p, s[k])] \in [1 .. Len(s) -> T]
    BY <2>2, <2>3
  <2>5. [k \in DOMAIN s |-> Record(p, s[k])] \in Seq(T)
    BY <2>2, <2>4
  <2> QED  BY <2>5 DEF s
<1> HIDE DEF T, Of
<1>3. lists \in Seq(Seq(T))
  <2>1. DOMAIN sources = 1 .. Len(sources) /\ Len(sources) \in Nat /\ \A i \in 1 .. Len(sources) : sources[i] \in Paths
    BY <1>1
  <2> HIDE DEF sources
  <2>2. lists \in [1 .. Len(sources) -> Seq(T)]
    BY <1>2, <2>1
  <2> QED  BY <2>1, <2>2
<1>4. Records(Ascending) = FlattenSeq(lists)
  BY DEF Records, Of
<1>5. Records(Ascending) \in Seq(T)
  <2> HIDE DEF lists
  <2> QED  BY <1>3, <1>4, FlattenType
<1> QED  BY <1>5

LEMMA MismatchesReported == FilesType => MismatchesAreReported
<1> SUFFICES ASSUME FilesType PROVE MismatchesAreReported
  OBVIOUS
<1> DEFINE records == Propagate(Records(Ascending))
<1>1. PICK n \in Nat : DOMAIN Records(Ascending) = 1 .. n
  BY RecordsNumbered
<1>2. DOMAIN records = 1 .. n
  BY <1>1 DEF Propagate, Fill
<1> HIDE DEF records
<1>3. ASSUME NEW c \in Columns
      PROVE  LET column == Fold(records)[c] IN
             /\ column.ambiguous <=> \E g \in Goals : Duplicated(g) /\ Clash(GivenBy(records, c, g), {"no", "unknown"})
             /\ ~column.ambiguous =>
                  (Reported(column) # {} <=> Clash(UNION {GivenBy(records, c, g) : g \in Goals}, {"no"}))
  <2> DEFINE column == FoldColumn(c, records)
  <2>1. Fold(records)[c] = column
    BY DEF Fold
  <2>2. /\ column \in Held(AllGiven(records))
        /\ column.ambiguous <=> \E g \in Goals : Disputed(records, c, g)
        /\ ~column.ambiguous =>
             ToSet(column.observations) = UNION {GivenBy(records, c, g) : g \in Goals}
    BY <1>2, ColumnFolded
  <2> HIDE DEF column
  <2>3. None \notin AllGiven(records)
    BY DEF AllGiven
  <2>4. ~column.ambiguous => (Reported(column) # {} <=> Clash(ToSet(column.observations), {"no"}))
    BY <2>2, <2>3, ReportsClashes
  <2> QED  BY <2>1, <2>2, <2>4 DEF Disputed
<1>4. ReportedFor(records, Fold(records))
  BY <1>3 DEF ReportedFor, GivenBy
<1> QED  BY <1>4 DEF MismatchesAreReported, ReportedBy, records

-----------------------------------------------------------------------------
(* The inductive invariant: inputs are what they were picked as, and goal  *)
(* files hold occurrences.                                                 *)

PackageInput == input.tag = "package" => input.file \in PackageFiles

InstallationInput ==
  input.tag = "installed" =>
    \E names \in Renamings : /\ input.packages \in Installations
                             /\ input.renamed = Callables!Renamed(input.packages, names)

CallablesInput == input.tag = "callables" => input.w \in GoalWorkspaces

OptionsInput ==
  input.tag = "options" =>
    input.json \in JsonLayers /\ input.inline \in InlineLayers

LocationInput ==
  input.tag = "location" =>
    /\ input.path \in Locations /\ input.modules \in ModuleLists /\ input.language \in Languages
    /\ input.before \in DirectorySets /\ input.now \in DirectorySets

SchemasInput == input.tag = "schemas" => FilesType

RuleInput == input.tag = "rule" => input.rule \in StoryRules
GoalInput == input.tag = "goal" => input.goal \in StoryGoals /\ input.catalog \in StoryCatalogs

ReadersInv ==
  /\ PackageInput /\ InstallationInput /\ CallablesInput
  /\ OptionsInput /\ LocationInput /\ SchemasInput
  /\ RuleInput /\ GoalInput

LEMMA InvInit == ReadersInit => ReadersInv
<1> SUFFICES ASSUME ReadersInit PROVE ReadersInv
  OBVIOUS
<1> USE DEF ReadersInv, PackageInput, InstallationInput, CallablesInput,
            OptionsInput, LocationInput, SchemasInput, RuleInput, GoalInput
<1>1. CASE Init /\ input = [tag |-> "schemas"]
  <2>1. FilesType
    <3>1. <<>> \in Seq(Occurrences)
      OBVIOUS
    <3> QED  BY <1>1, <3>1 DEF Init, FilesType
  <2>2. input.tag = "schemas"
    BY <1>1
  <2> QED  BY <2>1, <2>2
<1>2. CASE input.tag = "none"
  BY <1>2
<1> QED  BY <1>1, <1>2 DEF ReadersInit

(* Goal files grow by occurrences.                                         *)
LEMMA FilesGrow == FilesType /\ PickOccurrence => FilesType'
<1> SUFFICES ASSUME FilesType, PickOccurrence PROVE FilesType'
  OBVIOUS
<1>1. PICK p \in Paths, o \in Occurrences :
        files' = [files EXCEPT ![p].occurrences = Append(@, o)]
  BY DEF PickOccurrence, Extend
<1>2. /\ files \in [Paths -> [goal : Goals, occurrences : Seq(Occurrences)]]
      /\ Append(files[p].occurrences, o) \in Seq(Occurrences)
  BY DEF FilesType
<1> QED  BY <1>1, <1>2 DEF FilesType

LEMMA InvStep == ReadersInv /\ [ReadersNext]_<<files, input>> => ReadersInv'
<1> SUFFICES ASSUME ReadersInv, [ReadersNext]_<<files, input>> PROVE ReadersInv'
  OBVIOUS
<1> USE DEF ReadersInv, PackageInput, InstallationInput, CallablesInput, OptionsInput,
            LocationInput, SchemasInput, RuleInput, GoalInput
<1>1. CASE PickPackage
  BY <1>1 DEF PickPackage
<1>2. CASE PickOptions
  BY <1>2 DEF PickOptions
<1>3. CASE PickLocation
  BY <1>3 DEF PickLocation
<1>4. CASE PickInstallation
  BY <1>4 DEF PickInstallation
<1>5. CASE PickCallables
  BY <1>5 DEF PickCallables
<1>6. CASE PickOccurrence
  <2>1. UNCHANGED input /\ input.tag = "schemas"
    BY <1>6 DEF PickOccurrence
  <2>2. FilesType'
    BY <1>6, <2>1, FilesGrow
  <2> QED  BY <2>1, <2>2
<1>7. CASE PickRule
  BY <1>7 DEF PickRule
<1>8. CASE PickGoal
  BY <1>8 DEF PickGoal
<1>9. CASE UNCHANGED <<files, input>>
  BY <1>9 DEF FilesType
<1> QED  BY <1>1, <1>2, <1>3, <1>4, <1>5, <1>6, <1>7, <1>8, <1>9 DEF ReadersNext

LEMMA Invariant == ReadersSpec => []ReadersInv
BY InvInit, InvStep, PTL DEF ReadersSpec

-----------------------------------------------------------------------------
(* Whatever a package says, what is read of it lies inside the file as it  *)
(* is then, outside header and list, and fits the caller's limit, and an   *)
(* entry reads the same by name as through a reader (package.rs).          *)
THEOREM PackagesStayInside == ReadersSpec => []PackageReadsStayInside
<1>1. ReadersInv => PackageReadsStayInside
  BY PackagesInside DEF ReadersInv, PackageInput
<1> QED  BY <1>1, Invariant, PTL

-----------------------------------------------------------------------------
(* Discovery of a configuration.                                           *)

LEMMA GreatestOf ==
  ASSUME NEW S \in SUBSET Nat, IsFiniteSet(S), S # {}
  PROVE  Options!Max(S) \in S /\ \A y \in S : y <= Options!Max(S)
<1>1. \E x \in S : \A y \in S : y <= x
  BY GreatestIn
<1>2. \A x \in S : x \in Nat
  OBVIOUS
<1>3. \E x \in S : \A y \in S : x >= y
  BY <1>1, <1>2
<1>4. Options!Max(S) \in S /\ \A y \in S : Options!Max(S) >= y
  BY <1>3 DEF Options!Max
<1> QED  BY <1>2, <1>4

(* A prefix of a prefix is a prefix.                                       *)
LEMMA PrefixOfPrefix ==
  ASSUME NEW s \in Seq(STRING), NEW n \in 0 .. Len(s), NEW k \in 0 .. n
  PROVE  /\ Len(SubSeq(s, 1, n)) = n
         /\ SubSeq(SubSeq(s, 1, n), 1, k) = SubSeq(s, 1, k)
<1>1. n \in Int /\ k \in Int /\ k <= n /\ n <= Len(s)
  OBVIOUS
<1>2. \A i \in 1 .. n : s[i] \in STRING
  OBVIOUS
<1>3. /\ SubSeq(s, 1, n) \in Seq(STRING)
      /\ Len(SubSeq(s, 1, n)) = n
      /\ \A i \in 1 .. n : SubSeq(s, 1, n)[i] = s[i]
  BY <1>1, <1>2, SubSeqProperties
<1> DEFINE t == SubSeq(s, 1, n)
<1>4. /\ SubSeq(s, 1, k) \in Seq(STRING)
      /\ Len(SubSeq(s, 1, k)) = k
      /\ \A i \in 1 .. k : SubSeq(s, 1, k)[i] = s[i]
  BY <1>1, <1>2, SubSeqProperties
<1> HIDE DEF t
<1>5. /\ SubSeq(t, 1, k) \in Seq(STRING)
      /\ Len(SubSeq(t, 1, k)) = k
      /\ \A i \in 1 .. k : SubSeq(t, 1, k)[i] = t[i]
  <2>1. \A i \in 1 .. k : t[i] \in STRING
    BY <1>1, <1>2, <1>3 DEF t
  <2> QED  BY <1>1, <2>1, SubSeqProperties
<1>6. SubSeq(t, 1, k) = SubSeq(s, 1, k)
  <2>1. \A i \in 1 .. k : t[i] = s[i]
    BY <1>1, <1>3 DEF t
  <2> QED  BY <1>1, <1>4, <1>5, <2>1, SeqEqual
<1> QED  BY <1>3, <1>6 DEF t

(* Discover finds the nearest of the directories above, from wherever      *)
(* below it that is asked.                                                 *)
LEMMA NearestIsDiscovered ==
  ASSUME NEW start \in Starts, NEW configured
  PROVE  Options!DiscoversTheNearest(start, configured)
<1> DEFINE Found(s) == {n \in 0 .. Len(s) : SubSeq(s, 1, n) \in configured}
           m == Options!Max(Found(start))
           root == Options!Discover(start, configured)
<1>1. start \in Seq(STRING) /\ \A n \in 0 .. Len(start) : SubSeq(start, 1, n) # Unset
  BY ReadersAssumption
<1>2. root = IF Found(start) = {} THEN Unset ELSE SubSeq(start, 1, m)
  BY DEF Options!Discover
<1>3. Len(start) \in Nat
  BY <1>1
<1>4. CASE Found(start) = {}
  <2>1. root = Unset /\ \A n \in 0 .. Len(start) : SubSeq(start, 1, n) \notin configured
    BY <1>2, <1>4
  <2> QED  BY <2>1 DEF Options!DiscoversTheNearest
<1>5. CASE Found(start) # {}
  <2>1. m \in Found(start) /\ \A n \in Found(start) : n <= m
    <3>0. IsFiniteSet(0 .. Len(start))
      BY <1>3, FS_Interval
    <3>1. Found(start) \in SUBSET Nat /\ IsFiniteSet(Found(start))
      BY <1>3, <3>0, FS_Subset
    <3> HIDE DEF Found
    <3> QED  BY <1>5, <3>1, GreatestOf
  <2>2. m \in 0 .. Len(start) /\ SubSeq(start, 1, m) \in configured
    BY <2>1
  <2> HIDE DEF m
  <2>3. root = SubSeq(start, 1, m) /\ root # Unset /\ Len(root) = m
    BY <1>1, <1>2, <1>3, <1>5, <2>2, PrefixOfPrefix
  <2>4. ASSUME NEW n \in m .. Len(start) PROVE Options!Discover(SubSeq(start, 1, n), configured) = root
    <3> DEFINE s == SubSeq(start, 1, n)
    <3>1. n \in 0 .. Len(start) /\ n \in Nat /\ m \in 0 .. n
      BY <1>3, <2>2
    <3>2. Len(s) = n /\ \A k \in 0 .. n : SubSeq(s, 1, k) = SubSeq(start, 1, k)
      BY <1>1, <3>1, PrefixOfPrefix
    <3> HIDE DEF s
    <3>3. Found(s) = Found(start)
      <4>1. m \in Nat /\ n <= Len(start)
        BY <1>3, <2>2
      <4>2. ASSUME NEW k \in Found(start) PROVE k \in Found(s)
        <5>1. k \in 0 .. Len(start) /\ SubSeq(start, 1, k) \in configured /\ k <= m
          BY <2>1
        <5>2. k \in 0 .. n
          BY <1>3, <3>1, <4>1, <5>1
        <5> QED  BY <3>2, <5>1, <5>2
      <4>3. ASSUME NEW k \in Found(s) PROVE k \in Found(start)
        <5>1. k \in 0 .. n /\ SubSeq(s, 1, k) \in configured
          BY <3>2
        <5>2. k \in 0 .. Len(start)
          BY <1>3, <3>1, <4>1, <5>1
        <5> QED  BY <3>2, <5>1, <5>2
      <4> QED  BY <4>2, <4>3
    <3>4. Options!Discover(s, configured) = SubSeq(s, 1, m)
      BY <1>5, <3>3 DEF Options!Discover, m
    <3> QED  BY <2>3, <3>1, <3>2, <3>4 DEF s
  <2> QED  BY <2>2, <2>3, <2>4 DEF Options!DiscoversTheNearest
<1> QED  BY <1>4, <1>5

-----------------------------------------------------------------------------
(* Options.                                                                *)

(* The modules, by index: bases, dependencies, and the project at the end. *)
ModuleAt(o, workspace, i) ==
  LET bases == Len(o.base_modules)
      d == o.dependencies[i - bases]
  IN  IF i <= bases THEN Options!Spec(o.base_modules[i], <<"editor", o.base_modules[i]>>, "base")
      ELSE IF i <= bases + Len(o.dependencies)
        THEN Options!Spec(d.name, IF d.absolute THEN d.path ELSE workspace \o d.path, "dependency")
      ELSE Options!Spec(o.name, workspace, "project")

LEMMA ModulesByIndex ==
  ASSUME NEW o, NEW workspace,
         o.base_modules \in Seq(STRING), o.dependencies \in Options!Dependencies
  PROVE  /\ Len(o.base_modules) \in Nat /\ Len(o.dependencies) \in Nat
         /\ DOMAIN Options!Modules(o, workspace) = 1 .. Len(o.base_modules) + Len(o.dependencies) + 1
         /\ \A i \in DOMAIN Options!Modules(o, workspace) :
              Options!Modules(o, workspace)[i] = ModuleAt(o, workspace, i)
<1> DEFINE n == Len(o.base_modules)
           k == Len(o.dependencies)
           At(i) == ModuleAt(o, workspace, i)
           S == {At(i) : i \in 1 .. n + k + 1}
           bases == [i \in DOMAIN o.base_modules |->
                       Options!Spec(o.base_modules[i], <<"editor", o.base_modules[i]>>, "base")]
           dependencies ==
             [i \in DOMAIN o.dependencies |->
                LET d == o.dependencies[i] IN
                  Options!Spec(d.name, IF d.absolute THEN d.path ELSE workspace \o d.path, "dependency")]
           project == Options!Spec(o.name, workspace, "project")
<1>1. /\ n \in Nat /\ DOMAIN o.base_modules = 1 .. n
      /\ k \in Nat /\ DOMAIN o.dependencies = 1 .. k
  BY LenProperties DEF Options!Dependencies
<1>0. \A i : At(i) = IF i <= n
                     THEN Options!Spec(o.base_modules[i], <<"editor", o.base_modules[i]>>, "base")
                   ELSE IF i <= n + k
                     THEN Options!Spec(o.dependencies[i - n].name,
                                       IF o.dependencies[i - n].absolute THEN o.dependencies[i - n].path
                                       ELSE workspace \o o.dependencies[i - n].path, "dependency")
                   ELSE project
  BY DEF ModuleAt
<1> HIDE DEF n, k, At
<1>2. /\ DOMAIN bases = 1 .. n /\ \A i \in 1 .. n : bases[i] = At(i) /\ bases[i] \in S
  <2>1. ASSUME NEW i \in 1 .. n PROVE bases[i] = At(i) /\ bases[i] \in S
    <3>1. i <= n /\ i \in 1 .. n + k + 1
      BY <1>1
    <3> QED  BY <1>0, <1>1, <3>1
  <2> QED  BY <1>1, <2>1
<1>3. DOMAIN dependencies = 1 .. k /\ \A i \in 1 .. k : dependencies[i] = At(i + n) /\ dependencies[i] \in S
  <2>1. ASSUME NEW i \in 1 .. k PROVE dependencies[i] = At(i + n) /\ dependencies[i] \in S
    <3>1. ~(i + n <= n) /\ i + n <= n + k /\ (i + n) - n = i /\ i + n \in 1 .. n + k + 1
      BY <1>1
    <3> QED  BY <1>0, <1>1, <3>1
  <2> QED  BY <1>1, <2>1
<1>4. project = At(n + k + 1) /\ project \in S
  <2>1. ~(n + k + 1 <= n) /\ ~(n + k + 1 <= n + k) /\ n + k + 1 \in 1 .. n + k + 1
    BY <1>1
  <2> QED  BY <1>0, <2>1
<1>5. Options!Modules(o, workspace) = (bases \o dependencies) \o <<project>>
  BY DEF Options!Modules
<1> HIDE DEF S, bases, dependencies, project
<1>6. /\ bases \in Seq(S) /\ Len(bases) = n
      /\ dependencies \in Seq(S) /\ Len(dependencies) = k
      /\ <<project>> \in Seq(S) /\ Len(<<project>>) = 1 /\ <<project>>[1] = project
  <2>1. bases \in [1 .. n -> S] /\ dependencies \in [1 .. k -> S]
    BY <1>2, <1>3 DEF bases, dependencies
  <2>2. bases \in Seq(S) /\ dependencies \in Seq(S)
    BY <1>1, <2>1, SeqDef
  <2> QED  BY <1>1, <1>2, <1>3, <1>4, <2>2, LenProperties
<1> DEFINE first == bases \o dependencies
           all == first \o <<project>>
<1>7. /\ first \in Seq(S) /\ Len(first) = n + k
      /\ \A i \in 1 .. n + k : first[i] = IF i <= n THEN bases[i] ELSE dependencies[i - n]
  BY <1>6, ConcatProperties
<1> HIDE DEF first
<1>8. /\ all \in Seq(S) /\ Len(all) = n + k + 1
      /\ \A i \in 1 .. n + k + 1 : all[i] = IF i <= n + k THEN first[i] ELSE <<project>>[i - (n + k)]
  BY <1>6, <1>7, ConcatProperties
<1> HIDE DEF all
<1>9. DOMAIN all = 1 .. n + k + 1
  BY <1>8, LenProperties
<1>10. ASSUME NEW i \in 1 .. n + k + 1 PROVE all[i] = At(i)
  <2>1. CASE i <= n
    BY <1>1, <1>2, <1>7, <1>8, <2>1
  <2>2. CASE ~(i <= n) /\ i <= n + k
    <3>1. i - n \in 1 .. k /\ (i - n) + n = i /\ i \in 1 .. n + k
      BY <1>1, <2>2
    <3> QED  BY <1>3, <1>7, <1>8, <2>2, <3>1
  <2>3. CASE ~(i <= n + k)
    <3>1. i = n + k + 1 /\ i - (n + k) = 1
      BY <1>1, <2>3
    <3> QED  BY <1>4, <1>6, <1>8, <2>3, <3>1
  <2> QED  BY <1>1, <2>1, <2>2, <2>3
<1>11. Options!Modules(o, workspace) = all
  BY <1>5 DEF all, first
<1> QED  BY <1>1, <1>9, <1>10, <1>11 DEF n, k, At

(* What a complete layer holds, field by field.                            *)
Given(json, inline, f) ==
  IF f \in DOMAIN inline THEN inline[f]
  ELSE IF f \in DOMAIN json THEN json[f]
  ELSE IF f \in DOMAIN Options!Defaults THEN Options!Defaults[f] ELSE Unset

(* A field is that of the inline options, or of the file, or the default.  *)
LEMMA CompleteByField ==
  ASSUME NEW json \in JsonLayers, NEW inline \in InlineLayers,
         Options!Parses(json), Options!Parses(inline),
         Options!Complete(Options!Merge(json, inline)) # Unset
  PROVE  LET o == Options!Complete(Options!Merge(json, inline)) IN
         /\ o.base_modules \in Seq(STRING) /\ o.dependencies \in Options!Dependencies
         /\ \A f \in {"base_modules", "dependencies", "name", "language", "symbols", "items", "severity"} :
              o[f] = Given(json, inline, f)
<1> DEFINE merged == Options!Merge(json, inline)
           o == Options!Complete(merged)
           D == Options!Defaults
<1>1. merged = [f \in DOMAIN inline \cup DOMAIN json |-> IF f \in DOMAIN inline THEN inline[f] ELSE json[f]]
  BY DEF Options!Merge, Options!Over
<1>2. /\ {"game_data", "base_modules", "name"} \subseteq DOMAIN merged
      /\ o = [f \in DOMAIN merged \cup DOMAIN D |-> IF f \in DOMAIN merged THEN merged[f] ELSE D[f]]
  <2> HIDE DEF merged, D
  <2> QED  BY DEF Options!Complete, Options!Over, D, merged
<1>3. DOMAIN D = {"dependencies", "severity", "language", "symbols", "items"} /\ D.dependencies = <<>>
  BY DEF Options!Defaults
<1> HIDE DEF D
<1>4. DOMAIN merged = DOMAIN inline \cup DOMAIN json
  BY <1>1
<1>5. ASSUME NEW f \in {"base_modules", "dependencies", "name", "language", "symbols", "items", "severity"}
      PROVE  o[f] = Given(json, inline, f)
  <2>1. f \in DOMAIN merged \cup DOMAIN D
    BY <1>2, <1>3
  <2>2. o[f] = IF f \in DOMAIN merged THEN merged[f] ELSE D[f]
    <3> HIDE DEF o, merged
    <3> QED  BY <1>2, <2>1
  <2>3. CASE f \in DOMAIN merged
    <3>1. merged[f] = IF f \in DOMAIN inline THEN inline[f] ELSE json[f]
      BY <1>1, <2>3
    <3>2. f \in DOMAIN inline \/ f \in DOMAIN json
      BY <1>4, <2>3
    <3> HIDE DEF o, merged
    <3> QED  BY <2>2, <2>3, <3>1, <3>2 DEF Given
  <2>4. CASE f \notin DOMAIN merged
    <3>1. f \notin DOMAIN inline /\ f \notin DOMAIN json /\ f \in DOMAIN D
      BY <1>4, <2>1, <2>4
    <3> HIDE DEF o, merged
    <3> QED  BY <2>2, <2>4, <3>1 DEF Given, D
  <2> QED  BY <2>3, <2>4
<1>6. Options!IsLayer(json) /\ Options!IsLayer(inline)
  BY ReadersAssumption
<1>7. \A f : /\ f \in DOMAIN json => json[f] # Unset
             /\ f \in DOMAIN inline => inline[f] # Unset
  BY DEF Options!Parses
<1>8. Given(json, inline, "base_modules") \in Seq(STRING)
  <2>1. "base_modules" \in DOMAIN inline \/ "base_modules" \in DOMAIN json
    BY <1>2, <1>4
  <2> QED  BY <1>6, <1>7, <2>1 DEF Given, Options!IsLayer
<1>9. Given(json, inline, "dependencies") \in Options!Dependencies
  <2>1. D.dependencies \in Options!Dependencies
    BY <1>3 DEF Options!Dependencies
  <2> QED  BY <1>3, <1>6, <1>7, <2>1 DEF Given, Options!IsLayer, D
<1> HIDE DEF o
<1>10. o.base_modules = Given(json, inline, "base_modules") /\ o.dependencies = Given(json, inline, "dependencies")
  BY <1>5
<1> QED  BY <1>5, <1>8, <1>9, <1>10 DEF o

(* What a configuration that loads has passed.                             *)
LEMMA WhatLoads ==
  ASSUME NEW json, NEW inline, NEW workspace, NEW disk,
         Options!Load(json, inline, workspace, disk) # Unset
  PROVE  LET o == Options!Complete(Options!Merge(json, inline)) IN
         /\ Options!Parses(json) /\ Options!Parses(inline) /\ o # Unset
         /\ Options!Accepted(o, workspace, disk)
         /\ Options!Load(json, inline, workspace, disk)
              = [modules |-> Options!Modules(o, workspace), language |-> o.language,
                 symbols |-> o.symbols, items |-> o.items,
                 severity |-> Options!Severity(o.severity)]
BY DEF Options!Load

LEMMA FieldsAreLoaded ==
  ASSUME NEW json \in JsonLayers, NEW inline \in InlineLayers, NEW workspace, NEW disk
  PROVE  Options!LoadsByField(json, inline, workspace, disk)
<1> DEFINE config == Options!Load(json, inline, workspace, disk)
           o == Options!Complete(Options!Merge(json, inline))
           modules == Options!Modules(o, workspace)
           G(f) == Given(json, inline, f)
           Rank(role) == CASE role = "base" -> 1 [] role = "dependency" -> 2 [] role = "project" -> 3
           Names == [i \in DOMAIN G("dependencies") |-> G("dependencies")[i].name]
           listed == G("base_modules") \o Names \o <<G("name")>>
<1> SUFFICES ASSUME config # Unset
             PROVE  /\ config.language = G("language")
                    /\ config.symbols = G("symbols") /\ config.items = G("items")
                    /\ config.severity = (IF G("severity") = "off" THEN Unset ELSE G("severity"))
                    /\ [i \in DOMAIN config.modules |-> config.modules[i].name] = listed
                    /\ \A i, j \in DOMAIN config.modules :
                         i < j => /\ config.modules[i].name # config.modules[j].name
                                  /\ Rank(config.modules[i].role) <= Rank(config.modules[j].role)
                                  /\ config.modules[i].role # "project"
  BY DEF Options!LoadsByField, Given
<1>1. /\ Options!Parses(json) /\ Options!Parses(inline) /\ o # Unset
      /\ Options!Accepted(o, workspace, disk)
      /\ config = [modules |-> modules, language |-> o.language,
                   symbols |-> o.symbols, items |-> o.items,
                   severity |-> Options!Severity(o.severity)]
  BY WhatLoads
<1>2. /\ o.base_modules \in Seq(STRING) /\ o.dependencies \in Options!Dependencies
      /\ \A f \in {"base_modules", "dependencies", "name", "language", "symbols", "items", "severity"} :
           o[f] = G(f)
  BY <1>1, CompleteByField
<1> HIDE DEF config, o, G
<1>3. /\ o.base_modules = G("base_modules") /\ o.dependencies = G("dependencies") /\ o.name = G("name")
      /\ o.language = G("language") /\ o.symbols = G("symbols") /\ o.items = G("items")
      /\ o.severity = G("severity")
  BY <1>2
<1> DEFINE n == Len(o.base_modules)
           k == Len(o.dependencies)
<1>4. /\ n \in Nat /\ k \in Nat /\ DOMAIN modules = 1 .. n + k + 1
      /\ \A i \in DOMAIN modules : modules[i] = ModuleAt(o, workspace, i)
  BY <1>2, ModulesByIndex
<1>5. \A i, j \in DOMAIN modules : i < j => modules[i].name # modules[j].name
  <2> SUFFICES ASSUME NEW i \in DOMAIN modules, NEW j \in DOMAIN modules, i < j
               PROVE  modules[i].name # modules[j].name
    OBVIOUS
  <2>1. i \in 1 .. j - 1
    BY <1>4
  <2> QED  BY <1>1, <2>1 DEF Options!Accepted
<1> HIDE DEF modules
<1>6. ASSUME NEW i \in DOMAIN modules
      PROVE  /\ i <= n => modules[i].role = "base" /\ modules[i].name = o.base_modules[i]
             /\ ~(i <= n) /\ i <= n + k =>
                  modules[i].role = "dependency" /\ modules[i].name = o.dependencies[i - n].name
             /\ ~(i <= n) /\ ~(i <= n + k) => modules[i].role = "project" /\ modules[i].name = o.name
  <2> DEFINE d == o.dependencies[i - n]
  <2>1. modules[i] = IF i <= n THEN Options!Spec(o.base_modules[i], <<"editor", o.base_modules[i]>>, "base")
                     ELSE IF i <= n + k
                       THEN Options!Spec(d.name, IF d.absolute THEN d.path ELSE workspace \o d.path,
                                         "dependency")
                     ELSE Options!Spec(o.name, workspace, "project")
    BY <1>4 DEF ModuleAt
  <2>2. \A name, root, role : /\ Options!Spec(name, root, role).name = name
                             /\ Options!Spec(name, root, role).role = role
    BY DEF Options!Spec
  <2> HIDE DEF n, k, d
  <2> QED  BY <2>1, <2>2 DEF d
<1> HIDE DEF n, k
<1>7. /\ Rank("base") = 1 /\ Rank("dependency") = 2 /\ Rank("project") = 3
  OBVIOUS
<1> HIDE DEF Rank
<1>8. ASSUME NEW i \in DOMAIN modules, NEW j \in DOMAIN modules, i < j
      PROVE  Rank(modules[i].role) <= Rank(modules[j].role) /\ modules[i].role # "project"
  <2>1. i \in Nat /\ j \in Nat /\ i < j /\ j <= n + k + 1
    BY <1>4, <1>8
  <2>2. CASE i <= n
    <3>1. modules[i].role = "base"
      BY <1>6, <2>2
    <3>2. modules[j].role \in {"base", "dependency", "project"}
      BY <1>6
    <3> QED  BY <1>7, <3>1, <3>2
  <2>3. CASE ~(i <= n)
    <3>1. ~(j <= n) /\ i <= n + k
      BY <1>4, <2>1, <2>3
    <3>2. modules[i].role = "dependency"
      BY <1>6, <2>3, <3>1
    <3>3. modules[j].role \in {"dependency", "project"}
      BY <1>6, <3>1
    <3> QED  BY <1>7, <3>2, <3>3
  <2> QED  BY <2>2, <2>3
<1>9. [i \in DOMAIN modules |-> modules[i].name] = listed
  <2> DEFINE T == STRING \cup {o.name}
             bases == o.base_modules
             first == bases \o Names
  <2>1. /\ DOMAIN Names = 1 .. k /\ Len(Names) = k /\ Names \in Seq(T)
        /\ \A i \in 1 .. k : Names[i] = o.dependencies[i].name
    <3>1. /\ DOMAIN o.dependencies = 1 .. k
          /\ \A i \in 1 .. k : o.dependencies[i].name \in STRING
      <4>1. /\ DOMAIN o.dependencies = 1 .. k
            /\ \A i \in 1 .. k : o.dependencies[i] \in [name : STRING, absolute : BOOLEAN, path : Seq(STRING)]
        BY <1>2, LenProperties, ElementOfSeq DEF Options!Dependencies, k
      <4> QED  BY <4>1
    <3>2. Names \in [1 .. k -> T] /\ \A i \in 1 .. k : Names[i] = o.dependencies[i].name
      BY <1>3, <3>1
    <3>3. Names \in Seq(T)
      BY <1>4, <3>2, SeqDef
    <3> HIDE DEF Names
    <3> QED  BY <1>4, <3>2, <3>3, LenProperties
  <2>2. bases \in Seq(T) /\ Len(bases) = n
    BY <1>2, SeqMonotonic DEF n
  <2>3. <<o.name>> \in Seq(T) /\ Len(<<o.name>>) = 1 /\ <<o.name>>[1] = o.name
    OBVIOUS
  <2> HIDE DEF Names, T, bases
  <2>4. /\ first \in Seq(T) /\ Len(first) = n + k
        /\ \A i \in 1 .. n + k : first[i] = IF i <= n THEN bases[i] ELSE Names[i - n]
    BY <2>1, <2>2, ConcatProperties
  <2> HIDE DEF first
  <2> DEFINE all == first \o <<o.name>>
  <2>5. /\ all \in Seq(T) /\ Len(all) = n + k + 1
        /\ \A i \in 1 .. n + k + 1 : all[i] = IF i <= n + k THEN first[i] ELSE <<o.name>>[i - (n + k)]
    BY <2>3, <2>4, ConcatProperties
  <2>6. all = listed
    BY <1>3 DEF bases, first
  <2> HIDE DEF all
  <2>7. ASSUME NEW i \in 1 .. n + k + 1 PROVE all[i] = modules[i].name
    <3>1. i \in DOMAIN modules
      BY <1>4
    <3>2. CASE i <= n
      <4>1. i <= n + k /\ i \in 1 .. n + k
        BY <1>4, <3>2
      <4> QED  BY <1>6, <2>4, <2>5, <3>1, <3>2, <4>1 DEF bases
    <3>3. CASE ~(i <= n) /\ i <= n + k
      <4>1. i - n \in 1 .. k /\ i \in 1 .. n + k
        BY <1>4, <3>3
      <4> QED  BY <1>6, <2>1, <2>4, <2>5, <3>1, <3>3, <4>1
    <3>4. CASE ~(i <= n + k)
      <4>1. i - (n + k) = 1 /\ ~(i <= n)
        BY <1>4, <3>4
      <4> QED  BY <1>6, <2>3, <2>5, <3>1, <3>4, <4>1
    <3> QED  BY <3>2, <3>3, <3>4
  <2>8. DOMAIN all = 1 .. n + k + 1 /\ all = [i \in DOMAIN all |-> all[i]]
    BY <2>5, LenProperties
  <2> QED  BY <1>4, <2>6, <2>7, <2>8
<1>10. config.modules = modules /\ config.severity = (IF G("severity") = "off" THEN Unset ELSE G("severity"))
  BY <1>1, <1>3 DEF Options!Severity
<1>11. config.language = G("language") /\ config.symbols = G("symbols") /\ config.items = G("items")
  BY <1>1, <1>3
<1> QED  BY <1>5, <1>8, <1>9, <1>10, <1>11

LEMMA BenchmarkReadsAlike ==
  ASSUME NEW json \in JsonLayers, NEW inline \in InlineLayers, NEW workspace, NEW disk,
         Options!Load(json, inline, workspace, disk) # Unset
  PROVE  Options!BenchmarkModules(Options!Complete(Options!Merge(json, inline)), workspace, disk)
           = Options!Load(json, inline, workspace, disk).modules
<1> DEFINE o == Options!Complete(Options!Merge(json, inline))
           modules == Options!Modules(o, workspace)
<1>1. /\ Options!Parses(json) /\ Options!Parses(inline) /\ o # Unset
      /\ Options!Accepted(o, workspace, disk)
      /\ Options!Load(json, inline, workspace, disk).modules = modules
  BY WhatLoads
<1>2. o.base_modules \in Seq(STRING) /\ o.dependencies \in Options!Dependencies
  BY <1>1, CompleteByField
<1> HIDE DEF o
<1>3. \A i \in DOMAIN modules : i \in Nat \ {0}
  <2> DEFINE n == Len(o.base_modules)
             k == Len(o.dependencies)
  <2>1. n \in Nat /\ k \in Nat /\ DOMAIN modules = 1 .. n + k + 1
    BY <1>2, ModulesByIndex
  <2> HIDE DEF n, k, modules
  <2> QED  BY <2>1
<1>4. \A i, j \in DOMAIN modules : i # j => modules[i].name # modules[j].name
  <2>1. ASSUME NEW i \in DOMAIN modules, NEW j \in DOMAIN modules, i < j
        PROVE  modules[i].name # modules[j].name
    <3>1. i \in 1 .. j - 1
      <4> HIDE DEF modules
      <4> QED  BY <1>3, <2>1
    <3> QED  BY <1>1, <3>1 DEF Options!Accepted
  <2>2. \A i, j \in DOMAIN modules : i # j => i < j \/ j < i
    BY <1>3
  <2> HIDE DEF modules
  <2> QED  BY <2>1, <2>2
<1>5. \A i \in DOMAIN modules : modules[i].root \in disk.directories
  BY <1>1 DEF Options!Accepted
<1>6. Options!BenchmarkModules(o, workspace, disk) = modules
  BY <1>4, <1>5 DEF Options!BenchmarkModules
<1> QED  BY <1>1, <1>6 DEF o

LEMMA ThresholdsOrdered ==
  ASSUME NEW config, NEW severities \in SUBSET Options!Severities
  PROVE  Options!ThresholdsAreOrdered(config, severities)
<1> DEFINE order == <<"never", "error", "warning", "information", "hint">>
           E(t) == Options!ExitCode(config, severities, t)
           F(t) == \E s \in severities : Options!FailsOn(t, s)
<1>1. \A s \in severities : s \in {"error", "warning", "information", "hint"}
  BY DEF Options!Severities
<1>2. \A s \in severities : /\ ~Options!FailsOn("never", s)
                            /\ Options!FailsOn("error", s) => Options!FailsOn("warning", s)
                            /\ Options!FailsOn("warning", s) => Options!FailsOn("information", s)
                            /\ Options!FailsOn("information", s) => Options!FailsOn("hint", s)
  BY <1>1 DEF Options!FailsOn
<1>3. /\ F("never") => F("error")
      /\ F("error") => F("warning")
      /\ F("warning") => F("information")
      /\ F("information") => F("hint")
  BY <1>2
<1>4. \A t : E(t) = IF config = Unset THEN 2 ELSE IF F(t) THEN 1 ELSE 0
  BY DEF Options!ExitCode
<1> HIDE DEF E, F
<1>5. \A s, t : (F(s) => F(t)) => E(s) <= E(t)
  BY <1>4
<1>6. DOMAIN order = 1 .. 5 /\ order[1] = "never" /\ order[2] = "error" /\ order[3] = "warning"
      /\ order[4] = "information" /\ order[5] = "hint"
  OBVIOUS
<1> HIDE DEF order
<1>7. ASSUME NEW i \in DOMAIN order, NEW j \in DOMAIN order, i < j
      PROVE  E(order[i]) <= E(order[j])
  <2>1. /\ i \in {1, 2, 3, 4} /\ j \in {2, 3, 4, 5}
    BY <1>6, <1>7
  <2>2. F(order[i]) => F(order[j])
    BY <1>3, <1>6, <1>7, <2>1
  <2> QED  BY <1>5, <2>2
<1> QED  BY <1>7 DEF Options!ThresholdsAreOrdered, E, order

LEMMA IncompleteAreDiagnosable ==
  ASSUME NEW config, NEW packages
  PROVE  Options!IncompleteKinds(config, packages) \subseteq Toolkit!Diagnosable
BY DEF Options!IncompleteKinds, Toolkit!Diagnosable

(* For any layers of options: an inline option overrides the configuration *)
(* file and that the defaults, field by field; the modules stand in        *)
(* ascending precedence, the project last; benchmark and check order       *)
(* modules and thresholds alike; and of the directories above, the nearest *)
(* with a configuration is found (config.rs, main.rs).                     *)
THEOREM OptionsLayOut == ReadersSpec => []OptionsApplyByField
<1>1. ReadersInv => OptionsApplyByField
  BY FieldsAreLoaded, BenchmarkReadsAlike, ThresholdsOrdered, IncompleteAreDiagnosable,
     NearestIsDiscovered
     DEF ReadersInv, OptionsInput, OptionsApplyByField
<1> QED  BY <1>1, Invariant, PTL

-----------------------------------------------------------------------------
(* Directories.                                                            *)

(* Paths, directory by directory.                                          *)
LEMMA BelowByIndex ==
  ASSUME NEW T, NEW path, path.dirs \in Seq(T), NEW root \in Seq(T)
  PROVE  Places!Below(root, path) <=>
           Len(root) <= Len(path.dirs) /\ \A i \in 1 .. Len(root) : path.dirs[i] = root[i]
<1> DEFINE n == Len(root)
<1>1. n \in Nat /\ Len(path.dirs) \in Nat /\ \A i \in 1 .. n : root[i] \in T
  OBVIOUS
<1>2. Places!Below(root, path) <=> n <= Len(path.dirs) /\ SubSeq(root, 1, n) = SubSeq(path.dirs, 1, n)
  BY DEF Places!Below, Places!IsPrefix
<1>3. ASSUME n <= Len(path.dirs)
      PROVE  SubSeq(root, 1, n) = SubSeq(path.dirs, 1, n) <=> \A i \in 1 .. n : path.dirs[i] = root[i]
  <2>1. \A i \in 1 .. n : path.dirs[i] \in T
    BY <1>1, <1>3
  <2>2. /\ SubSeq(root, 1, n) \in Seq(T) /\ Len(SubSeq(root, 1, n)) = n
        /\ \A i \in 1 .. n : SubSeq(root, 1, n)[i] = root[i]
    BY <1>1, SubSeqProperties
  <2>3. /\ SubSeq(path.dirs, 1, n) \in Seq(T) /\ Len(SubSeq(path.dirs, 1, n)) = n
        /\ \A i \in 1 .. n : SubSeq(path.dirs, 1, n)[i] = path.dirs[i]
    BY <1>1, <2>1, SubSeqProperties
  <2> QED  BY <2>2, <2>3, SeqEqual
<1> QED  BY <1>2, <1>3

LEMMA HoldsAt ==
  ASSUME NEW T, NEW path, path.dirs \in Seq(T), NEW k \in 1 .. Len(path.dirs)
  PROVE  Places!Holds(path, <<path.dirs[k]>>)
<1>1. k \in Int /\ path.dirs[k] \in T /\ k - 1 \in 0 .. Len(path.dirs) - 1
  OBVIOUS
<1>2. SubSeq(path.dirs, k, k) = <<path.dirs[k]>>
  <2>1. /\ SubSeq(path.dirs, k, k) \in Seq(T) /\ Len(SubSeq(path.dirs, k, k)) = 1
        /\ SubSeq(path.dirs, k, k)[1] = path.dirs[k]
    BY <1>1, SubSeqProperties
  <2>2. /\ <<path.dirs[k]>> \in Seq(T) /\ Len(<<path.dirs[k]>>) = 1
        /\ <<path.dirs[k]>>[1] = path.dirs[k]
    BY <1>1
  <2>3. \A i \in 1 .. 1 : i = 1
    OBVIOUS
  <2> QED  BY <2>1, <2>2, <2>3, SeqEqual
<1>3. Len(<<path.dirs[k]>>) = 1 /\ (k - 1) + 1 = k
  BY <1>1
<1> QED  BY <1>1, <1>2, <1>3 DEF Places!Holds

LEMMA HoldsFirst ==
  ASSUME NEW T, NEW path, path.dirs \in Seq(T), NEW first \in T, NEW second \in T,
         Places!Holds(path, <<first, second>>)
  PROVE  Places!Holds(path, <<first>>)
<1> DEFINE n == Len(path.dirs)
<1>1. n \in Nat /\ Len(<<first, second>>) = 2
  OBVIOUS
<1>2. PICK i \in 0 .. n - 2 : SubSeq(path.dirs, i + 1, i + 2) = <<first, second>>
  BY <1>1 DEF Places!Holds
<1>3. i + 1 \in Int /\ i + 2 \in Int /\ i + 1 <= i + 2 /\ i + 1 \in 1 .. n /\ i + 2 \in 1 .. n
  BY <1>1
<1>4. \A j \in i + 1 .. i + 2 : path.dirs[j] \in T
  BY <1>3
<1>5. \A j \in 1 .. (i + 2) - (i + 1) + 1 : SubSeq(path.dirs, i + 1, i + 2)[j] = path.dirs[(i + 1) + j - 1]
  BY <1>3, <1>4, SubSeqProperties
<1>6. SubSeq(path.dirs, i + 1, i + 2)[1] = path.dirs[i + 1]
  <2>1. 1 \in 1 .. (i + 2) - (i + 1) + 1 /\ (i + 1) + 1 - 1 = i + 1
    BY <1>1
  <2> QED  BY <1>5, <2>1
<1>7. path.dirs[i + 1] = first
  <2>1. <<first, second>>[1] = first
    OBVIOUS
  <2> QED  BY <1>2, <1>6, <2>1
<1> QED  BY <1>3, <1>7, HoldsAt

(* What stands below the directories of the game's data.                   *)
LEMMA BelowData ==
  ASSUME NEW T, NEW path, path.dirs \in Seq(T), "data" \in T, NEW top \in T, NEW name \in T,
         Places!Below(Places!Data \o <<top, name>>, path)
  PROVE  Places!Holds(path, <<top>>) /\ Places!Below(Places!Data \o <<top>>, path)
<1> DEFINE root == Places!Data \o <<top, name>>
           above == Places!Data \o <<top>>
<1>0. \A r \in Seq(T) : Places!Below(r, path) <=>
        Len(r) <= Len(path.dirs) /\ \A i \in 1 .. Len(r) : path.dirs[i] = r[i]
  BY BelowByIndex
<1>1. /\ root \in Seq(T) /\ Len(root) = 3 /\ root[1] = "data" /\ root[2] = top
      /\ above \in Seq(T) /\ Len(above) = 2 /\ above[1] = "data" /\ above[2] = top
  <2> DEFINE two == <<top, name>>
             one == <<top>>
             d == Places!Data
  <2>1. d = <<"data">>
    BY DEF Places!Data
  <2>2. /\ two \in Seq(T) /\ Len(two) = 2 /\ two[1] = top
        /\ one \in Seq(T) /\ Len(one) = 1 /\ one[1] = top
    OBVIOUS
  <2> HIDE DEF two, one, d
  <2>3. d \in Seq(T) /\ Len(d) = 1 /\ d[1] = "data"
    <3>1. ASSUME NEW x \in T PROVE <<x>> \in Seq(T) /\ Len(<<x>>) = 1 /\ <<x>>[1] = x
      OBVIOUS
    <3> QED  BY <2>1, <3>1
  <2>4. /\ d \o two \in Seq(T) /\ Len(d \o two) = Len(d) + Len(two)
        /\ \A i \in 1 .. Len(d) + Len(two) : (d \o two)[i] = IF i <= Len(d) THEN d[i] ELSE two[i - Len(d)]
    BY <2>2, <2>3, ConcatProperties
  <2>5. /\ d \o one \in Seq(T) /\ Len(d \o one) = Len(d) + Len(one)
        /\ \A i \in 1 .. Len(d) + Len(one) : (d \o one)[i] = IF i <= Len(d) THEN d[i] ELSE one[i - Len(d)]
    BY <2>2, <2>3, ConcatProperties
  <2>6. /\ d \o two \in Seq(T) /\ Len(d \o two) = 1 + 2
        /\ \A i \in 1 .. 1 + 2 : (d \o two)[i] = IF i <= 1 THEN d[i] ELSE two[i - 1]
    BY <2>2, <2>3, <2>4
  <2>7. /\ d \o one \in Seq(T) /\ Len(d \o one) = 1 + 1
        /\ \A i \in 1 .. 1 + 1 : (d \o one)[i] = IF i <= 1 THEN d[i] ELSE one[i - 1]
    BY <2>2, <2>3, <2>5
  <2>8. /\ (d \o two)[1] = "data" /\ (d \o two)[2] = top
        /\ (d \o one)[1] = "data" /\ (d \o one)[2] = top
    BY <2>2, <2>3, <2>6, <2>7
  <2> QED  BY <2>6, <2>7, <2>8 DEF one, two, d
<1> HIDE DEF root, above
<1>2. 3 <= Len(path.dirs) /\ path.dirs[1] = "data" /\ path.dirs[2] = top
  <2>1. Len(root) <= Len(path.dirs) /\ \A i \in 1 .. Len(root) : path.dirs[i] = root[i]
    BY <1>0, <1>1 DEF root
  <2> QED  BY <1>1, <2>1
<1>3. 2 \in 1 .. Len(path.dirs)
  BY <1>2
<1>4. Places!Holds(path, <<top>>)
  BY <1>2, <1>3, HoldsAt
<1>5. \A i \in 1 .. 2 : i = 1 \/ i = 2
  OBVIOUS
<1>6. Places!Below(above, path)
  BY <1>0, <1>1, <1>2, <1>5
<1> QED  BY <1>4, <1>6 DEF above

Directories == STRING \cup {"data", "mods", "public", "localization"}

(* What a file stands below of a module, its path says.                    *)
LEMMA Placed ==
  ASSUME NEW path \in Locations, NEW module, module.name \in STRING, NEW language \in STRING
  PROVE  /\ Places!Below(Places!ModsOf(module), path) => Places!InMods(path)
         /\ Places!Below(Places!Localizations \o <<language>>, path) =>
              Places!Holds(path, <<"localization">>) /\ Places!Below(Places!Localizations, path)
         /\ Places!Holds(path, <<"localization", language>>) => Places!Holds(path, <<"localization">>)
         /\ Places!Below(Places!Public(module), path) => Places!Holds(path, <<"public">>)
<1> DEFINE T == Directories
<1>1. /\ "data" \in T /\ "mods" \in T /\ "public" \in T /\ "localization" \in T
      /\ STRING \subseteq T
  BY DEF Directories
<1>2. path.dirs \in Seq(T)
  <2>1. path.dirs \in Seq(STRING)
    BY ReadersAssumption
  <2> HIDE DEF T
  <2> QED  BY <1>1, <2>1, SeqMonotonic
<1> HIDE DEF T
<1>3. module.name \in T /\ language \in T
  BY <1>1
<1>4. ASSUME NEW top \in T, NEW name \in T, Places!Below(Places!Data \o <<top, name>>, path)
      PROVE  Places!Holds(path, <<top>>) /\ Places!Below(Places!Data \o <<top>>, path)
  BY <1>1, <1>2, <1>4, BelowData
<1>5. Places!Localizations \o <<language>> = Places!Data \o <<"localization", language>>
  <2> DEFINE two == <<"localization", language>>
             one == <<"localization">>
             rest == <<language>>
             d == Places!Data
  <2>1. d = <<"data">> /\ Places!Localizations = d \o one
    BY DEF Places!Data, Places!Localizations
  <2>2. \A x \in T : <<x>> \in Seq(T) /\ Len(<<x>>) = 1 /\ <<x>>[1] = x
    OBVIOUS
  <2>3. two \in Seq(T) /\ Len(two) = 2 /\ two[1] = "localization" /\ two[2] = language
    BY <1>1, <1>3
  <2> HIDE DEF two, one, rest, d
  <2>4. d \in Seq(T) /\ one \in Seq(T) /\ Len(one) = 1 /\ one[1] = "localization"
        /\ rest \in Seq(T) /\ Len(rest) = 1 /\ rest[1] = language
    BY <1>1, <1>3, <2>1, <2>2 DEF one, rest
  <2>5. /\ one \o rest \in Seq(T) /\ Len(one \o rest) = Len(one) + Len(rest)
        /\ \A i \in 1 .. Len(one) + Len(rest) : (one \o rest)[i] = IF i <= Len(one) THEN one[i] ELSE rest[i - Len(one)]
    BY <2>4, ConcatProperties
  <2>6. /\ one \o rest \in Seq(T) /\ Len(one \o rest) = 2
        /\ \A i \in 1 .. 2 : (one \o rest)[i] = two[i]
    BY <2>3, <2>4, <2>5
  <2>7. one \o rest = two
    BY <2>3, <2>6, SeqEqual
  <2>8. (d \o one) \o rest = d \o (one \o rest)
    BY <2>4, ConcatAssociative
  <2>9. Places!Localizations \o rest = d \o two
    BY <2>1, <2>7, <2>8
  <2> QED  BY <2>9 DEF two, rest, d
<1>6. Places!ModsOf(module) = Places!Data \o <<"mods", module.name>>
      /\ Places!Public(module) = Places!Data \o <<"public", module.name>>
      /\ Places!Localizations = Places!Data \o <<"localization">>
  BY DEF Places!ModsOf, Places!Public, Places!Localizations
<1>7. Places!Below(Places!ModsOf(module), path) => Places!InMods(path)
  BY <1>1, <1>3, <1>4, <1>6 DEF Places!InMods
<1>8. Places!Below(Places!Public(module), path) => Places!Holds(path, <<"public">>)
  BY <1>1, <1>3, <1>4, <1>6
<1>9. Places!Below(Places!Localizations \o <<language>>, path) =>
        Places!Holds(path, <<"localization">>) /\ Places!Below(Places!Localizations, path)
  BY <1>1, <1>3, <1>4, <1>5, <1>6
<1>10. Places!Holds(path, <<"localization", language>>) => Places!Holds(path, <<"localization">>)
  BY <1>1, <1>2, <1>3, HoldsFirst
<1> QED  BY <1>7, <1>8, <1>9, <1>10

-----------------------------------------------------------------------------
(* Kinds.                                                                  *)

Modules == [name : STRING, role : {"base", "dependency", "project"}, root : Seq(STRING)]

LEMMA ModulesAreModules ==
  ASSUME NEW modules \in ModuleLists
  PROVE  /\ \A i \in DOMAIN modules : modules[i] \in Modules
         /\ Len(modules) \in DOMAIN modules /\ modules[Len(modules)].role = "project"
<1>1. modules \in Seq(Modules) /\ modules # <<>> /\ modules[Len(modules)].role = "project"
  BY ReadersAssumption DEF Places!AreModules, Modules
<1>2. Len(modules) \in Nat \ {0} /\ DOMAIN modules = 1 .. Len(modules)
  BY <1>1, EmptySeq, LenProperties
<1>3. \A i \in DOMAIN modules : modules[i] \in Modules
  BY <1>1, <1>2, ElementOfSeq
<1> QED  BY <1>1, <1>2, <1>3

(* A loose module has one directory and one mode.                          *)
LEMMA LooseKind ==
  ASSUME NEW module, module.role # "base", NEW path, NEW language, NEW first
  PROVE  Places!KindIn(module, path, language, first)
           = IF Places!Below(module.root, path) THEN Places!Classify(path, "LooseModule", language) ELSE Unset
<1> DEFINE K == Places!Classify(path, "LooseModule", language)
           here == {r \in Places!Roots(module, language, first) : Places!Below(r[1], path)}
           kinds == {Places!Classify(path, r[2], language) : r \in here} \ {Unset}
<1>1. Places!Roots(module, language, first) = {<<module.root, "LooseModule">>}
  BY DEF Places!Roots
<1>2. here = IF Places!Below(module.root, path) THEN {<<module.root, "LooseModule">>} ELSE {}
  BY <1>1
<1>3. Places!KindIn(module, path, language, first) = IF kinds = {} THEN Unset ELSE CHOOSE k \in kinds : TRUE
  BY DEF Places!KindIn
<1> HIDE DEF here
<1>4. CASE Places!Below(module.root, path)
  <2>1. kinds = {K} \ {Unset}
    BY <1>2, <1>4
  <2> HIDE DEF kinds, K
  <2>2. CASE K = Unset
    BY <1>3, <1>4, <2>1, <2>2 DEF K
  <2>3. CASE K # Unset
    <3>1. kinds = {K} /\ kinds # {}
      BY <2>1, <2>3
    <3>2. (CHOOSE k \in kinds : TRUE) = K
      BY <3>1
    <3> QED  BY <1>3, <1>4, <3>1, <3>2 DEF K
  <2> QED  BY <2>2, <2>3
<1>5. CASE ~Places!Below(module.root, path)
  BY <1>2, <1>3, <1>5
<1> QED  BY <1>4, <1>5

(* What a base module has in one of its three directories, or as the first *)
(* of them in the game's texts.                                            *)
BaseKind(kind, module, path, language) ==
  \/ kind = Places!ClassifyStats(path)
  \/ /\ kind = Places!ClassifyModuleResource(path)
     /\ Places!Below(Places!Public(module), path) \/ Places!Below(Places!ModsOf(module), path)
  \/ /\ kind = "Localization" /\ path.ext = "xml"
     /\ Places!Below(Places!Localizations \o <<language>>, path)

LEMMA KindsOfBase ==
  ASSUME NEW module, module.role = "base", NEW path, NEW language, NEW first,
         Places!KindIn(module, path, language, first) # Unset
  PROVE  BaseKind(Places!KindIn(module, path, language, first), module, path, language)
<1> DEFINE here == {r \in Places!Roots(module, language, first) : Places!Below(r[1], path)}
           kinds == {Places!Classify(path, r[2], language) : r \in here} \ {Unset}
           kind == Places!KindIn(module, path, language, first)
<1>1. kind = IF kinds = {} THEN Unset ELSE CHOOSE k \in kinds : TRUE
  BY DEF Places!KindIn
<1>2. kind \in kinds
  <2> HIDE DEF kinds, kind
  <2>1. kinds # {}
    BY <1>1 DEF kind
  <2> QED  BY <1>1, <2>1
<1>3. PICK r \in here : kind = Places!Classify(path, r[2], language) /\ kind # Unset
  BY <1>2
<1>4. Places!Below(r[1], path) /\ r \in Places!Roots(module, language, first)
  BY <1>3
<1> HIDE DEF here, kinds, kind
<1>5. \/ r = <<module.root, "StatsOnly">>
      \/ r = <<Places!Public(module), "ModuleResources">>
      \/ r = <<Places!ModsOf(module), "ModuleResources">>
      \/ r = <<Places!Localizations \o <<language>>, "LocalizationOnly">>
  BY <1>4 DEF Places!Roots
<1>6. CASE r = <<module.root, "StatsOnly">>
  <2>1. r[2] = "StatsOnly"
    BY <1>6
  <2>2. kind = Places!ClassifyStats(path)
    BY <1>3, <2>1 DEF Places!Classify
  <2> QED  BY <2>2 DEF BaseKind, kind
<1>7. CASE r = <<Places!Public(module), "ModuleResources">> \/ r = <<Places!ModsOf(module), "ModuleResources">>
  <2>1. r[2] = "ModuleResources" /\ (r[1] = Places!Public(module) \/ r[1] = Places!ModsOf(module))
    BY <1>7
  <2>2. kind = Places!ClassifyModuleResource(path)
    BY <1>3, <2>1 DEF Places!Classify
  <2> QED  BY <1>4, <2>1, <2>2 DEF BaseKind, kind
<1>8. CASE r = <<Places!Localizations \o <<language>>, "LocalizationOnly">>
  <2>1. r[2] = "LocalizationOnly" /\ r[1] = Places!Localizations \o <<language>>
    BY <1>8
  <2>2. kind = IF path.ext = "xml" THEN "Localization" ELSE Unset
    BY <1>3, <2>1 DEF Places!Classify
  <2> QED  BY <1>3, <1>4, <2>1, <2>2 DEF BaseKind, kind
<1> QED  BY <1>5, <1>6, <1>7, <1>8

LEMMA IndexedOpens ==
  ASSUME NEW path \in Locations, NEW modules \in ModuleLists, NEW language \in Languages
  PROVE  Places!OpensAsIndexed(modules, path, language)
<1> DEFINE Kind(i) == Places!KindIn(modules[i], path, language, i = 1)
           open == Places!OpensAs(modules, path, language)
           document == Places!SourceKindForDocument(path)
           loose == Places!ClassifyLoose(path)
<1> SUFFICES ASSUME NEW i \in DOMAIN modules, Kind(i) # Unset
             PROVE  \/ open = Kind(i)
                    \/ modules[i].role = "base" /\ open = Unset
                    \/ /\ modules[i].role = "base" /\ Places!ClassifyStats(path) = "PlainStats"
                       /\ Places!IsOsirisGoal(path)
  BY DEF Places!OpensAsIndexed
<1> DEFINE module == modules[i]
           kind == Kind(i)
<1>1. module \in Modules /\ language \in STRING
  BY ModulesAreModules, ReadersAssumption
<1>2. open = document
  BY DEF Places!OpensAs
<1>3. document = IF loose # Unset THEN loose ELSE Places!Localized(path, <<"localization">>)
  BY DEF Places!SourceKindForDocument
<1>4. module.name \in STRING
  BY <1>1 DEF Modules
<1>5. /\ Places!Below(Places!ModsOf(module), path) => Places!InMods(path)
      /\ Places!Below(Places!Localizations \o <<language>>, path) => Places!Holds(path, <<"localization">>)
      /\ Places!Holds(path, <<"localization", language>>) => Places!Holds(path, <<"localization">>)
      /\ Places!Below(Places!Public(module), path) => Places!Holds(path, <<"public">>)
  BY <1>1, <1>4, Placed
<1> HIDE DEF open, document
<1>6. CASE module.role # "base"
  <2>1. kind = IF Places!Below(module.root, path) THEN Places!Classify(path, "LooseModule", language) ELSE Unset
    BY <1>6, LooseKind
  <2>2. kind = IF loose # Unset THEN loose ELSE Places!Localized(path, <<"localization", language>>)
    BY <2>1 DEF Places!Classify
  <2>3. CASE loose # Unset
    BY <1>2, <1>3, <2>2, <2>3
  <2>4. CASE loose = Unset
    <3>1. path.ext = "xml" /\ Places!Holds(path, <<"localization", language>>) /\ kind = "Localization"
      BY <2>2, <2>4 DEF Places!Localized
    <3>2. document = "Localization"
      BY <1>3, <1>5, <2>4, <3>1 DEF Places!Localized
    <3> QED  BY <1>2, <3>1, <3>2
  <2> QED  BY <2>3, <2>4
<1>7. CASE module.role = "base"
  <2>1. BaseKind(kind, module, path, language)
    BY <1>7, KindsOfBase
  <2> HIDE DEF kind, module
  <2>2. CASE kind = Places!ClassifyStats(path)
    <3>1. CASE Places!IsOsirisGoal(path)
      <4>1. path.ext = "txt"
        BY <3>1 DEF Places!IsOsirisGoal
      <4>2. kind = "PlainStats"
        BY <2>2, <4>1 DEF Places!ClassifyStats, kind
      <4> QED  BY <1>7, <2>2, <3>1, <4>2 DEF module
    <3>2. CASE ~Places!IsOsirisGoal(path)
      <4>1. loose = kind /\ kind # Unset
        BY <2>2, <3>2 DEF Places!ClassifyLoose, kind
      <4> QED  BY <1>2, <1>3, <4>1 DEF kind
    <3> QED  BY <3>1, <3>2
  <2>3. CASE /\ kind = Places!ClassifyModuleResource(path)
             /\ Places!Below(Places!Public(module), path) \/ Places!Below(Places!ModsOf(module), path)
    <3>1. CASE Places!IsOsirisGoal(path)
      <4>1. path.ext = "txt" /\ kind = "Osiris"
        BY <2>3, <3>1 DEF Places!ClassifyModuleResource, Places!IsOsirisGoal
      <4>2. CASE Places!InMods(path)
        <5>1. loose = "Osiris" /\ kind # Unset
          BY <3>1, <4>2 DEF Places!ClassifyLoose, kind
        <5> QED  BY <1>2, <1>3, <4>1, <5>1 DEF kind
      <4>3. CASE ~Places!InMods(path) /\ Places!ClassifyStats(path) # Unset
        <5>1. Places!ClassifyStats(path) = "PlainStats"
          BY <4>1, <4>3 DEF Places!ClassifyStats
        <5> QED  BY <1>7, <3>1, <5>1 DEF module
      <4>4. CASE ~Places!InMods(path) /\ Places!ClassifyStats(path) = Unset
        <5>1. loose = Unset
          BY <4>1, <4>4 DEF Places!ClassifyLoose
        <5>2. document = Unset
          BY <1>3, <4>1, <5>1 DEF Places!Localized
        <5> QED  BY <1>2, <1>7, <5>2 DEF module
      <4> QED  BY <4>2, <4>3, <4>4
    <3>2. CASE ~Places!IsOsirisGoal(path) /\ path.ext = "lsx"
      <4>1. kind = "Lsx" /\ Places!ClassifyStats(path) = Unset
        BY <2>3, <3>2 DEF Places!ClassifyModuleResource, Places!ClassifyStats
      <4>2. loose = "Lsx"
        BY <1>5, <2>3, <3>2, <4>1 DEF Places!ClassifyLoose, module
      <4> QED  BY <1>2, <1>3, <4>1, <4>2 DEF kind
    <3>3. CASE ~Places!IsOsirisGoal(path) /\ path.ext # "lsx"
      <4>1. path.ext = "khn" /\ Places!Holds(path, <<"scripts", "thoth">>) /\ kind = "Thoth"
        BY <2>3, <3>3 DEF Places!ClassifyModuleResource, kind
      <4>2. Places!ClassifyStats(path) = Unset
        BY <4>1 DEF Places!ClassifyStats
      <4>3. loose = IF Places!InMods(path) THEN "Thoth" ELSE Unset
        BY <3>3, <4>1, <4>2 DEF Places!ClassifyLoose
      <4>4. CASE Places!InMods(path)
        BY <1>2, <1>3, <4>1, <4>3, <4>4 DEF kind
      <4>5. CASE ~Places!InMods(path)
        <5>1. document = Unset
          BY <1>3, <4>1, <4>3, <4>5 DEF Places!Localized
        <5> QED  BY <1>2, <1>7, <5>1 DEF module
      <4> QED  BY <4>4, <4>5
    <3> QED  BY <3>1, <3>2, <3>3
  <2>4. CASE /\ kind = "Localization" /\ path.ext = "xml"
             /\ Places!Below(Places!Localizations \o <<language>>, path)
    <3>1. ~Places!IsOsirisGoal(path) /\ Places!ClassifyStats(path) = Unset
      BY <2>4 DEF Places!IsOsirisGoal, Places!ClassifyStats
    <3>2. loose = Unset
      BY <2>4, <3>1 DEF Places!ClassifyLoose
    <3>3. document = "Localization"
      BY <1>3, <1>5, <2>4, <3>2 DEF Places!Localized
    <3> QED  BY <1>2, <2>4, <3>3 DEF kind
  <2> QED  BY <2>1, <2>2, <2>3, <2>4 DEF BaseKind
<1> QED  BY <1>6, <1>7

(* No source is a package.                                                 *)
LEMMA PackagesAreNoSources ==
  ASSUME NEW path, NEW mode \in {"StatsOnly", "ModuleResources", "LocalizationOnly", "LooseModule"},
         NEW language, Places!Classify(path, mode, language) # Unset
  PROVE  path.ext # "pak"
<1> SUFFICES ASSUME path.ext = "pak" PROVE FALSE
  OBVIOUS
<1>1. ~Places!IsOsirisGoal(path) /\ Places!ClassifyStats(path) = Unset
  BY DEF Places!IsOsirisGoal, Places!ClassifyStats
<1>2. /\ Places!ClassifyLoose(path) = Unset /\ Places!ClassifyModuleResource(path) = Unset
      /\ \A d : Places!Localized(path, d) = Unset
  BY <1>1 DEF Places!ClassifyLoose, Places!ClassifyModuleResource, Places!Localized
<1> QED  BY <1>1, <1>2 DEF Places!Classify

LEMMA ChangesSeen ==
  ASSUME NEW path \in Locations, NEW modules \in ModuleLists, NEW language \in Languages,
         NEW before \in DirectorySets, NEW now \in DirectorySets
  PROVE  Places!ChangesAreSeen(modules, before, now, path, language)
<1> SUFFICES ASSUME NEW i \in DOMAIN modules, NEW r \in Places!Roots(modules[i], language, i = 1),
                    Places!Below(r[1], path), Places!Classify(path, r[2], language) # Unset,
                    r[1] \in before, r[1] \in now
             PROVE  /\ \E root \in Places!Watched(modules, before) : Places!Below(root, path)
                    /\ modules[i].name \in Places!Rebuilt(modules, now, path)
  BY DEF Places!ChangesAreSeen
<1> DEFINE module == modules[i]
           Texts == Places!Localizations \o <<language>>
<1>1. module \in Modules /\ language \in STRING
  BY ModulesAreModules, ReadersAssumption
<1>2. module.name \in STRING
  BY <1>1 DEF Modules
<1>3. Places!Below(Texts, path) => Places!Below(Places!Localizations, path)
  BY <1>1, <1>2, Placed
<1>4. Texts \in before => Places!Localizations \in before
  BY ReadersAssumption
<1>5. r[2] \in {"StatsOnly", "ModuleResources", "LocalizationOnly", "LooseModule"}
      /\ \/ r[1] = Texts
         \/ module.role # "base" /\ r[1] = module.root
         \/ module.role = "base" /\ r[1] \in {module.root, Places!Public(module), Places!ModsOf(module)}
  BY DEF Places!Roots
<1>6. path.ext # "pak"
  BY <1>5, PackagesAreNoSources
<1>7. ~Places!IsPackagedBasePackage(modules, path) /\ ~Places!IsTooltipPackage(path)
  BY <1>6 DEF Places!IsPackagedBasePackage, Places!IsTooltipPackage
<1> HIDE DEF Texts
<1>8. CASE r[1] = Texts
  <2>1. Places!Localizations \in before /\ Places!Below(Places!Localizations, path)
    BY <1>3, <1>4, <1>8
  <2>2. Places!Localizations \in Places!Watched(modules, before)
    <3> DEFINE roots == UNION {Places!ModuleWatchRoots(modules[j], before) : j \in DOMAIN modules}
               schemas == {Places!Data \o <<"editor", "config", "stats">>,
                           Places!Data \o <<"editor", "config", "uuidobjects">>}
    <3>1. Places!Watched(modules, before) = roots \cup schemas \cup (before \cap {Places!Localizations})
      BY DEF Places!Watched
    <3> HIDE DEF roots, schemas
    <3> QED  BY <2>1, <3>1
  <2>3. Places!Rebuilt(modules, now, path) = Places!Everything \cup {modules[j].name : j \in DOMAIN modules}
    BY <1>7, <2>1 DEF Places!Rebuilt
  <2> QED  BY <2>1, <2>2, <2>3
<1>9. CASE \/ module.role # "base" /\ r[1] = module.root
           \/ module.role = "base" /\ r[1] \in {module.root, Places!Public(module), Places!ModsOf(module)}
  <2>1. r[1] \in Places!ModuleWatchRoots(module, before) /\ r[1] \in Places!ModuleWatchRoots(module, now)
    BY <1>9 DEF Places!ModuleWatchRoots
  <2>2. r[1] \in Places!Watched(modules, before)
    BY <2>1 DEF Places!Watched
  <2>3. \E root \in Places!ModuleWatchRoots(modules[i], now) : Places!Below(root, path)
    BY <2>1
  <2>4. \/ Places!Rebuilt(modules, now, path) = Places!Everything \cup {modules[j].name : j \in DOMAIN modules}
        \/ Places!Rebuilt(modules, now, path) =
             {modules[j].name : j \in {k \in DOMAIN modules :
                \E root \in Places!ModuleWatchRoots(modules[k], now) : Places!Below(root, path)}}
    BY <1>7 DEF Places!Rebuilt
  <2>5. modules[i].name \in Places!Rebuilt(modules, now, path)
    BY <2>3, <2>4
  <2> QED  BY <2>2, <2>5
<1> QED  BY <1>5, <1>8, <1>9

LEMMA CheckReads ==
  ASSUME NEW path \in Locations, NEW modules \in ModuleLists, NEW language \in Languages
  PROVE  Places!CheckReadsTheProject(modules, {path}, language)
<1> DEFINE n == Len(modules)
           project == modules[n]
           root == project.root
           Kind(i) == Places!KindIn(modules[i], path, language, i = 1)
           S(k) == Places!SupportsDiagnostics(k)
           loose == Places!ClassifyLoose(path)
           byDefault == Places!SelectDefault(modules, {path}, language)
           named == Places!SelectNamed(modules, {path}, language, {root}, {})
           apart == \A i \in DOMAIN modules :
                      modules[i].role = "base" =>
                        ~(\E p \in {path} : Places!Below(root, p) /\ Places!Below(Places!Public(modules[i]), p))
<1> SUFFICES ASSUME apart
             PROVE  IF byDefault = {} THEN named = Unset ELSE named = [paths |-> byDefault]
  BY DEF Places!CheckReadsTheProject
<1>1. n \in DOMAIN modules /\ project.role = "project" /\ \A i \in DOMAIN modules : modules[i] \in Modules
  BY ModulesAreModules
<1>2. ~S(Unset)
  BY ReadersAssumption DEF Places!SupportsDiagnostics, Places!Kinds
<1>3. Kind(n) = IF Places!Below(root, path) THEN Places!Classify(path, "LooseModule", language) ELSE Unset
  BY <1>1, LooseKind
<1>4. S(Places!Classify(path, "LooseModule", language)) <=> S(loose)
  <2>1. ~S("Localization")
    BY DEF Places!SupportsDiagnostics
  <2> QED  BY <1>2, <2>1 DEF Places!Classify, Places!Localized
<1>5. S(Kind(n)) <=> Places!Below(root, path) /\ S(loose)
  BY <1>2, <1>3, <1>4
<1>6. ASSUME NEW i \in DOMAIN modules, S(Kind(i)), Places!Below(root, path)
      PROVE  S(loose)
  <2> DEFINE module == modules[i]
             kind == Kind(i)
  <2>1. kind # Unset
    BY <1>2, <1>6
  <2>2. CASE module.role # "base"
    <3>1. kind = IF Places!Below(module.root, path) THEN Places!Classify(path, "LooseModule", language) ELSE Unset
      BY <2>2, LooseKind
    <3> QED  BY <1>4, <1>6, <2>1, <3>1
  <2>3. CASE module.role = "base"
    <3>1. BaseKind(kind, module, path, language)
      BY <2>1, <2>3, KindsOfBase
    <3>2. ~Places!Below(Places!Public(module), path)
      BY <1>6, <2>3
    <3>3. module.name \in STRING /\ language \in STRING
      BY <1>1, ReadersAssumption DEF Modules
    <3>4. Places!Below(Places!ModsOf(module), path) => Places!InMods(path)
      BY <3>3, Placed
    <3>5. S(kind) /\ S("Osiris") /\ S("Thoth") /\ ~S("Localization") /\ ~S("Lsx")
      BY <1>6 DEF Places!SupportsDiagnostics
    <3> HIDE DEF kind, module
    <3>6. CASE kind = Places!ClassifyStats(path)
      <4>1. loose = "Osiris" \/ loose = kind
        BY <2>1, <3>6 DEF Places!ClassifyLoose, kind
      <4> QED  BY <3>5, <4>1
    <3>7. CASE /\ kind = Places!ClassifyModuleResource(path)
               /\ Places!Below(Places!ModsOf(module), path)
      <4>1. Places!InMods(path)
        BY <3>4, <3>7
      <4>2. CASE Places!IsOsirisGoal(path)
        <5>1. loose = "Osiris"
          BY <4>1, <4>2 DEF Places!ClassifyLoose
        <5> QED  BY <3>5, <5>1
      <4>3. CASE ~Places!IsOsirisGoal(path)
        <5>1. path.ext = "khn" /\ Places!Holds(path, <<"scripts", "thoth">>)
          BY <2>1, <3>5, <3>7, <4>3 DEF Places!ClassifyModuleResource, kind
        <5>2. Places!ClassifyStats(path) = Unset
          BY <5>1 DEF Places!ClassifyStats
        <5>3. loose = "Thoth"
          BY <4>1, <4>3, <5>1, <5>2 DEF Places!ClassifyLoose
        <5> QED  BY <3>5, <5>3
      <4> QED  BY <4>2, <4>3
    <3>8. CASE kind = "Localization"
      BY <3>5, <3>8
    <3> QED  BY <3>1, <3>2, <3>6, <3>7, <3>8 DEF BaseKind
  <2> QED  BY <2>2, <2>3
<1>7. byDefault = {p \in {path} : Places!Below(root, path) /\ S(loose)}
  <2>1. byDefault = {p \in {path} : S(Places!KindIn(project, p, language, n = 1))}
    BY DEF Places!SelectDefault
  <2>2. byDefault = {p \in {path} : S(Kind(n))}
    <3> HIDE DEF project, S
    <3> QED  BY <2>1 DEF project
  <2> HIDE DEF byDefault, Kind, S, root, loose
  <2> QED  BY <1>5, <2>2
<1> DEFINE chosen == {p \in {path} : (\E d \in {root} : Places!Below(d, p)) \/ p \in {}}
           sources == {p \in chosen : Places!IsIndexedDiagnosticSource(modules, p, language)}
<1>8. named = IF ~({} \subseteq sources) \/ sources = {} THEN Unset ELSE [paths |-> sources]
  BY DEF Places!SelectNamed
<1>9. Places!IsIndexedDiagnosticSource(modules, path, language) <=> \E i \in DOMAIN modules : S(Kind(i))
  BY DEF Places!IsIndexedDiagnosticSource
<1> HIDE DEF Kind, S, root, loose, byDefault, named
<1>10. chosen = {p \in {path} : Places!Below(root, path)}
  OBVIOUS
<1>11. sources = {p \in {path} : Places!Below(root, path) /\ \E i \in DOMAIN modules : S(Kind(i))}
  BY <1>9, <1>10
<1>12. Places!Below(root, path) => (S(loose) <=> \E i \in DOMAIN modules : S(Kind(i)))
  BY <1>1, <1>5, <1>6
<1> HIDE DEF sources
<1>13. sources = byDefault
  BY <1>7, <1>11, <1>12
<1> QED  BY <1>8, <1>13

(* Wherever the modules of a workspace and the game's directories lie:     *)
(* a file that is indexed opens as what it is indexed as, its changes are  *)
(* seen and rebuild its module, and check reads of the project's directory *)
(* what it reads of the project (discovery.rs, coordinator.rs, main.rs).   *)
THEOREM IndexedFilesServed == ReadersSpec => []IndexedFilesAreServed
<1>1. ReadersInv => IndexedFilesAreServed
  BY IndexedOpens, ChangesSeen, CheckReads DEF ReadersInv, LocationInput, IndexedFilesAreServed
<1> QED  BY <1>1, Invariant, PTL

-----------------------------------------------------------------------------
(* Finite sets.                                                            *)

LEMMA FiniteImage ==
  ASSUME NEW f, IsFiniteSet(DOMAIN f)
  PROVE  IsFiniteSet({f[x] : x \in DOMAIN f})
<1> DEFINE T == {f[x] : x \in DOMAIN f}
           g == [x \in DOMAIN f |-> f[x]]
<1>1. g \in Surjection(DOMAIN f, T)
  BY DEF Surjection
<1> QED  BY <1>1, FS_Surjection

LEMMA SameSize ==
  ASSUME NEW f, IsFiniteSet(DOMAIN f), \A x, y \in DOMAIN f : f[x] = f[y] => x = y
  PROVE  /\ IsFiniteSet({f[x] : x \in DOMAIN f})
         /\ Cardinality({f[x] : x \in DOMAIN f}) = Cardinality(DOMAIN f)
<1> DEFINE T == {f[x] : x \in DOMAIN f}
           g == [x \in DOMAIN f |-> f[x]]
<1>1. g \in Bijection(DOMAIN f, T)
  BY DEF Surjection, Injection, Bijection, IsInjective
<1>2. ExistsBijection(DOMAIN f, T)
  BY <1>1 DEF ExistsBijection
<1> QED  BY <1>2, FS_Bijection

LEMMA SameNotions ==
  ASSUME NEW S
  PROVE  /\ Callables!IsFiniteSet(S) <=> IsFiniteSet(S)
         /\ Callables!Cardinality(S) = Cardinality(S)
<1>1. Callables!IsFiniteSet(S) <=> IsFiniteSet(S)
  BY DEF Callables!IsFiniteSet, IsFiniteSet
<1>2. Callables!Cardinality(S) = Cardinality(S)
  BY Zenon DEF Callables!Cardinality, Cardinality
<1> QED  BY <1>1, <1>2

-----------------------------------------------------------------------------
(* What is foremost, and what a resolution makes of it.                    *)

Verdict(top) ==
  [tag |-> IF top = {} THEN "missing" ELSE IF Cardinality(top) = 1 THEN "unique" ELSE "ambiguous",
   candidates |-> top]

LEMMA SingleIsChosen ==
  ASSUME NEW S, IsFiniteSet(S), Cardinality(S) = 1
  PROVE  S = {CHOOSE x \in S : TRUE} /\ S # {}
<1>1. PICK x : S = {x}
  BY FS_Singleton
<1> QED  BY <1>1

LEMMA ForemostFinite ==
  ASSUME NEW S, IsFiniteSet(S)
  PROVE  Callables!Foremost(S) \subseteq S /\ IsFiniteSet(Callables!Foremost(S))
<1>1. Callables!Foremost(S) \subseteq S
  BY DEF Callables!Foremost
<1> QED  BY <1>1, FS_Subset

LEMMA ForemostExists ==
  ASSUME NEW S, IsFiniteSet(S), S # {}, \A s \in S : s.priority \in Nat
  PROVE  Callables!Foremost(S) # {}
<1> DEFINE f == [s \in S |-> s.priority]
           P == {f[s] : s \in DOMAIN f}
<1>1. IsFiniteSet(P)
  BY FiniteImage
<1>2. P \subseteq Nat /\ P # {}
  OBVIOUS
<1>3. PICK x \in P : \A y \in P : y <= x
  <2> HIDE DEF P
  <2> QED  BY <1>1, <1>2, GreatestIn
<1>4. PICK s \in S : x = s.priority
  OBVIOUS
<1>5. \A t \in S : t.priority <= s.priority
  BY <1>3, <1>4
<1> QED  BY <1>5 DEF Callables!Foremost

LEMMA SourceResolved ==
  ASSUME NEW catalog, IsFiniteSet(catalog), NEW module, NEW entry
  PROVE  Callables!ResolveSource(catalog, module, entry)
           = Verdict(Callables!Foremost(Callables!SourcesFor(catalog, module, entry)))
<1> DEFINE top == Callables!Foremost(Callables!SourcesFor(catalog, module, entry))
<1>1. IsFiniteSet(top)
  <2>1. IsFiniteSet(Callables!SourcesFor(catalog, module, entry))
    BY FS_Subset DEF Callables!SourcesFor
  <2> QED  BY <2>1, ForemostFinite
<1>2. top = {} => Cardinality(top) # 1
  BY FS_EmptySet
<1>3. Cardinality(top) = 1 => top = {CHOOSE s \in top : TRUE}
  BY <1>1, SingleIsChosen
<1> QED  BY <1>2, <1>3, SameNotions
         DEF Callables!ResolveSource, Callables!Missing, Callables!Unique, Callables!Ambiguous, Verdict

LEMMA EffectiveIsForemost ==
  ASSUME NEW catalog, IsFiniteSet(catalog), NEW s
  PROVE  Callables!IsEffective(catalog, s)
           <=> Callables!Foremost(Callables!SourcesFor(catalog, s.module, s.entry)) = {s}
<1> DEFINE top == Callables!Foremost(Callables!SourcesFor(catalog, s.module, s.entry))
<1>1. Callables!ResolveSource(catalog, s.module, s.entry) = Verdict(top)
  BY SourceResolved
<1>2. top = {s} => Cardinality(top) = 1
  BY FS_Singleton
<1> QED  BY <1>1, <1>2 DEF Callables!IsEffective, Callables!Unique, Verdict

LEMMA DeclaredFacts ==
  ASSUME NEW catalog, NEW kinds, NEW d
  PROVE  d \in Callables!Declared(catalog, kinds) <=>
           \E s \in catalog : /\ s.text.parses /\ Callables!IsEffective(catalog, s)
                              /\ \E symbol \in s.text.symbols :
                                   symbol.kind \in kinds /\ d = Callables!Declaration(s, symbol)
<1>1. \A s : s \in Callables!ParseFacts(catalog).records <=> s \in catalog /\ s.text.parses
  BY DEF Callables!ParseFacts
<1>2. d \in Callables!Declared(catalog, kinds) <=>
        \E s : /\ s \in Callables!ParseFacts(catalog).records /\ Callables!IsEffective(catalog, s)
               /\ \E symbol \in s.text.symbols :
                    symbol.kind \in kinds /\ d = Callables!Declaration(s, symbol)
  BY DEF Callables!Declared
<1> QED  BY <1>1, <1>2

(* An effective source has no other at or above its priority.              *)
LEMMA EffectiveIsAbove ==
  ASSUME NEW catalog, Callables!IsCatalog(catalog), NEW s \in catalog,
         Callables!IsEffective(catalog, s),
         NEW t \in catalog, t.module = s.module, t.entry = s.entry, t # s
  PROVE  t.priority < s.priority
<1> DEFINE here == Callables!SourcesFor(catalog, s.module, s.entry)
<1>1. IsFiniteSet(catalog) /\ \A u \in catalog : u.priority \in Nat
  BY SameNotions DEF Callables!IsCatalog
<1>2. Callables!Foremost(here) = {s}
  BY <1>1, EffectiveIsForemost
<1>3. t \in here /\ s \in here /\ \A u \in here : u \in catalog
  BY DEF Callables!SourcesFor
<1> HIDE DEF here
<1>4. \A u \in here : u.priority <= s.priority
  BY <1>2 DEF Callables!Foremost
<1>5. PICK u \in here : ~(u.priority <= t.priority)
  BY <1>2, <1>3 DEF Callables!Foremost
<1>6. u.priority \in Nat /\ t.priority \in Nat /\ s.priority \in Nat /\ u.priority <= s.priority
  BY <1>1, <1>3, <1>4
<1> QED  BY <1>5, <1>6

LEMMA NothingAbove ==
  ASSUME NEW packages, NEW bases, NEW family, NEW kinds,
         Callables!IsCatalog(Callables!ReadSources(packages, bases, family).sources)
  PROVE  Callables!NothingStandsAbove(packages, bases, family, kinds)
<1> DEFINE catalog == Callables!ReadSources(packages, bases, family).sources
<1> SUFFICES ASSUME NEW d \in Callables!Declared(catalog, kinds),
                    NEW t \in Callables!SourcesFor(catalog, d.module, d.entry)
             PROVE  t.package = d.package \/ t.priority < d.priority
  BY DEF Callables!NothingStandsAbove
<1> HIDE DEF catalog
<1>0. Callables!IsCatalog(catalog)
  BY DEF catalog
<1>1. PICK s \in catalog : /\ s.text.parses /\ Callables!IsEffective(catalog, s)
                           /\ \E symbol \in s.text.symbols :
                                symbol.kind \in kinds /\ d = Callables!Declaration(s, symbol)
  BY DeclaredFacts
<1>2. d.module = s.module /\ d.entry = s.entry /\ d.package = s.package /\ d.priority = s.priority
  BY <1>1 DEF Callables!Declaration
<1>3. t \in catalog /\ t.module = s.module /\ t.entry = s.entry
  BY <1>2 DEF Callables!SourcesFor
<1> QED  BY <1>0, <1>1, <1>2, <1>3, EffectiveIsAbove

-----------------------------------------------------------------------------
(* What is read of an installation.                                        *)

LEMMA EntriesFacts ==
  ASSUME NEW packages, NEW family, NEW pe
  PROVE  pe \in Callables!EntriesOf(packages, family) <=>
           \E p \in packages : \E e \in p.entries : e.family = family /\ pe = <<p, e>>
BY DEF Callables!EntriesOf

LEMMA BytesFacts ==
  ASSUME NEW entries, NEW b
  PROVE  b \in Callables!Bytes(entries) <=>
           \E pe \in entries : \E n \in 1 .. pe[2].size : b = <<pe, n>>
BY DEF Callables!Bytes

LEMMA EntriesFinite ==
  ASSUME NEW packages, IsFiniteSet(packages), \A p \in packages : IsFiniteSet(p.entries), NEW family
  PROVE  IsFiniteSet(Callables!EntriesOf(packages, family))
<1> DEFINE In(p) == {e \in p.entries : e.family = family}
           Of(p) == {<<p, e>> : e \in In(p)}
           f == [p \in packages |-> Of(p)]
<1>1. ASSUME NEW p \in packages PROVE IsFiniteSet(Of(p))
  <2> DEFINE g == [e \in In(p) |-> <<p, e>>]
  <2>1. IsFiniteSet(DOMAIN g)
    BY FS_Subset
  <2>2. IsFiniteSet({g[e] : e \in DOMAIN g})
    BY <2>1, FiniteImage
  <2> QED  BY <2>2
<1>2. IsFiniteSet({f[p] : p \in DOMAIN f})
  BY FiniteImage
<1>3. IsFiniteSet(UNION {f[p] : p \in DOMAIN f})
  <2>1. \A T \in {f[p] : p \in DOMAIN f} : IsFiniteSet(T)
    BY <1>1
  <2> HIDE DEF f
  <2> QED  BY <1>2, <2>1, FS_UNION
<1>4. Callables!EntriesOf(packages, family) = UNION {f[p] : p \in DOMAIN f}
  BY DEF Callables!EntriesOf
<1> QED  BY <1>3, <1>4

LEMMA BytesFinite ==
  ASSUME NEW entries, IsFiniteSet(entries), \A pe \in entries : pe[2].size \in Nat
  PROVE  IsFiniteSet(Callables!Bytes(entries))
<1> DEFINE Of(pe) == {<<pe, n>> : n \in 1 .. pe[2].size}
           f == [pe \in entries |-> Of(pe)]
<1>1. ASSUME NEW pe \in entries PROVE IsFiniteSet(Of(pe))
  <2> DEFINE g == [n \in 1 .. pe[2].size |-> <<pe, n>>]
  <2>1. IsFiniteSet(DOMAIN g)
    BY FS_Interval
  <2>2. IsFiniteSet({g[n] : n \in DOMAIN g})
    BY <2>1, FiniteImage
  <2> QED  BY <2>2
<1>2. IsFiniteSet({f[pe] : pe \in DOMAIN f})
  BY FiniteImage
<1>3. IsFiniteSet(UNION {f[pe] : pe \in DOMAIN f})
  <2>1. \A T \in {f[pe] : pe \in DOMAIN f} : IsFiniteSet(T)
    BY <1>1
  <2> HIDE DEF f
  <2> QED  BY <1>2, <2>1, FS_UNION
<1>4. Callables!Bytes(entries) = UNION {f[pe] : pe \in DOMAIN f}
  BY DEF Callables!Bytes
<1> QED  BY <1>3, <1>4

(* The entries that a catalog of these base modules reads.                 *)
Chosen(packages, bases, family) ==
  {pe \in Callables!EntriesOf(Callables!Candidates(packages, bases), family) : pe[2].module \in bases}

LEMMA ChosenFacts ==
  ASSUME NEW packages, NEW bases, NEW family, NEW pe
  PROVE  pe \in Chosen(packages, bases, family) <=>
           \E p \in packages : /\ p.patch \/ p.owner \in bases
                               /\ \E e \in p.entries : /\ e.family = family /\ e.module \in bases
                                                       /\ pe = <<p, e>>
<1>1. \A p : p \in Callables!Candidates(packages, bases) <=> p \in packages /\ (p.patch \/ p.owner \in bases)
  BY DEF Callables!Candidates
<1> QED  BY <1>1, EntriesFacts DEF Chosen

LEMMA InstallationFacts ==
  ASSUME NEW packages, Callables!IsInstallation(packages)
  PROVE  /\ IsFiniteSet(packages)
         /\ \A p \in packages : /\ p.name \in Nat /\ p.priority \in Nat /\ IsFiniteSet(p.entries)
                                /\ \A e \in p.entries :
                                     /\ e.index \in Nat /\ e.path \in Nat /\ e.size \in Nat
                                     /\ IsFiniteSet(e.text.symbols)
                                     /\ \A symbol \in e.text.symbols : symbol.line \in Nat
BY SameNotions DEF Callables!IsInstallation, Callables!IsPackage

LEMMA ChosenFinite ==
  ASSUME NEW packages, Callables!IsInstallation(packages), NEW bases, NEW family
  PROVE  /\ IsFiniteSet(Chosen(packages, bases, family))
         /\ IsFiniteSet(Callables!Bytes(Chosen(packages, bases, family)))
<1>1. IsFiniteSet(Callables!Candidates(packages, bases)) /\ Callables!Candidates(packages, bases) \subseteq packages
  BY InstallationFacts, FS_Subset DEF Callables!Candidates
<1>2. IsFiniteSet(Callables!EntriesOf(Callables!Candidates(packages, bases), family))
  BY <1>1, InstallationFacts, EntriesFinite
<1>3. IsFiniteSet(Chosen(packages, bases, family))
  BY <1>2, FS_Subset DEF Chosen
<1>4. \A pe \in Chosen(packages, bases, family) : pe[2].size \in Nat
  BY ChosenFacts, InstallationFacts
<1> QED  BY <1>3, <1>4, BytesFinite

LEMMA SourcesAre ==
  ASSUME NEW packages, NEW bases, NEW family
  PROVE  LET selected == Callables!Candidates(packages, bases)
             chosen == Chosen(packages, bases, family)
         IN  Callables!ReadSources(packages, bases, family).sources
               = IF Callables!Readable(selected, chosen)
                 THEN {Callables!Source(pe[1], pe[2], pe[2].module) : pe \in chosen} ELSE {}
BY DEF Callables!ReadSources, Callables!Read, Callables!Failed, Chosen

LEMMA SourcesAreCatalog ==
  ASSUME NEW packages, Callables!IsInstallation(packages), NEW bases, NEW family
  PROVE  Callables!IsCatalog(Callables!ReadSources(packages, bases, family).sources)
<1> DEFINE chosen == Chosen(packages, bases, family)
           f == [pe \in chosen |-> Callables!Source(pe[1], pe[2], pe[2].module)]
           S == {f[pe] : pe \in DOMAIN f}
           catalog == Callables!ReadSources(packages, bases, family).sources
<1>1. catalog \in {S, {}}
  BY SourcesAre
<1>2. IsFiniteSet(S)
  BY ChosenFinite, FiniteImage
<1>3. ASSUME NEW s \in S
      PROVE  /\ s.package \in Nat /\ s.entry \in Nat /\ s.priority \in Nat /\ IsFiniteSet(s.text.symbols)
             /\ \A symbol \in s.text.symbols : symbol.line \in Nat
  <2>1. PICK pe \in chosen : s = Callables!Source(pe[1], pe[2], pe[2].module)
    OBVIOUS
  <2>2. PICK p \in packages : \E e \in p.entries : pe = <<p, e>>
    BY <2>1, ChosenFacts
  <2>3. PICK e \in p.entries : pe = <<p, e>>
    BY <2>2
  <2>4. s.package = p.name /\ s.entry = e.path /\ s.priority = p.priority /\ s.text = e.text
    BY <2>1, <2>3 DEF Callables!Source
  <2> QED  BY <2>4, InstallationFacts
<1> HIDE DEF S, catalog
<1>4. IsFiniteSet(catalog) /\ catalog \subseteq S
  BY <1>1, <1>2, FS_EmptySet
<1> QED  BY <1>3, <1>4, SameNotions DEF Callables!IsCatalog, catalog

-----------------------------------------------------------------------------
(* Other names.                                                            *)

Moved(p, names) ==
  [name |-> names[p.name], owner |-> p.owner, patch |-> p.patch, layout |-> p.layout,
   opens |-> p.opens, priority |-> p.priority, parts |-> p.parts, entries |-> p.entries]

MovedSource(s, names) ==
  [module |-> s.module, package |-> names[s.package], entry |-> s.entry, priority |-> s.priority,
   index |-> s.index, text |-> s.text]

AreNames(packages, names) ==
  \A p, q \in packages : names[p.name] \in Nat /\ (names[p.name] = names[q.name] => p.name = q.name)

LEMMA RenamedAre ==
  ASSUME NEW packages, Callables!IsInstallation(packages), NEW names, NEW q
  PROVE  q \in Callables!Renamed(packages, names) <=> \E p \in packages : q = Moved(p, names)
<1>1. ASSUME NEW p \in packages PROVE [p EXCEPT !.name = names[@]] = Moved(p, names)
  <2>1. p = [name |-> p.name, owner |-> p.owner, patch |-> p.patch, layout |-> p.layout,
             opens |-> p.opens, priority |-> p.priority, parts |-> p.parts, entries |-> p.entries]
    BY DEF Callables!IsInstallation, Callables!IsPackage
  <2> QED  BY <2>1 DEF Moved
<1> QED  BY <1>1 DEF Callables!Renamed

LEMMA MovedApart ==
  ASSUME NEW packages, Callables!IsInstallation(packages), NEW names, AreNames(packages, names),
         NEW p \in packages, NEW q \in packages, Moved(p, names).name = Moved(q, names).name
  PROVE  p = q
BY DEF Moved, AreNames, Callables!IsInstallation

LEMMA RenamedIsInstallation ==
  ASSUME NEW packages, Callables!IsInstallation(packages), NEW names, AreNames(packages, names)
  PROVE  Callables!IsInstallation(Callables!Renamed(packages, names))
<1> DEFINE renamed == Callables!Renamed(packages, names)
           f == [p \in packages |-> Moved(p, names)]
<1>1. \A q : q \in renamed <=> \E p \in packages : q = Moved(p, names)
  BY RenamedAre
<1> HIDE DEF renamed
<1>2. IsFiniteSet(renamed)
  <2>1. IsFiniteSet({f[p] : p \in DOMAIN f})
    BY InstallationFacts, FiniteImage
  <2>2. renamed = {f[p] : p \in DOMAIN f}
    BY <1>1
  <2> QED  BY <2>1, <2>2
<1>3. ASSUME NEW q \in renamed PROVE Callables!IsPackage(q)
  <2>1. PICK p \in packages : q = Moved(p, names)
    BY <1>1
  <2>2. Callables!IsPackage(p) /\ names[p.name] \in Nat
    BY DEF Callables!IsInstallation, AreNames
  <2>3. q = [name |-> q.name, owner |-> q.owner, patch |-> q.patch, layout |-> q.layout,
             opens |-> q.opens, priority |-> q.priority, parts |-> q.parts, entries |-> q.entries]
    BY <2>1 DEF Moved
  <2>4. q.name \in Nat /\ q.priority = p.priority /\ q.entries = p.entries
    BY <2>1, <2>2 DEF Moved
  <2> QED  BY <2>2, <2>3, <2>4 DEF Callables!IsPackage
<1>4. ASSUME NEW q \in renamed, NEW r \in renamed, q.name = r.name PROVE q = r
  <2>1. PICK p \in packages : q = Moved(p, names)
    BY <1>1
  <2>2. PICK o \in packages : r = Moved(o, names)
    BY <1>1
  <2> QED  BY <1>4, <2>1, <2>2, MovedApart
<1> QED  BY <1>2, <1>3, <1>4, SameNotions DEF Callables!IsInstallation, renamed

LEMMA ChosenMove ==
  ASSUME NEW packages, Callables!IsInstallation(packages), NEW names, NEW bases, NEW family, NEW qe
  PROVE  qe \in Chosen(Callables!Renamed(packages, names), bases, family) <=>
           \E pe \in Chosen(packages, bases, family) : qe = <<Moved(pe[1], names), pe[2]>>
<1> DEFINE renamed == Callables!Renamed(packages, names)
<1>1. \A q : q \in renamed <=> \E p \in packages : q = Moved(p, names)
  BY RenamedAre
<1>2. \A p : /\ Moved(p, names).patch = p.patch /\ Moved(p, names).owner = p.owner
             /\ Moved(p, names).entries = p.entries
  BY DEF Moved
<1>3. qe \in Chosen(renamed, bases, family) <=>
        \E q \in renamed : /\ q.patch \/ q.owner \in bases
                           /\ \E e \in q.entries : /\ e.family = family /\ e.module \in bases
                                                   /\ qe = <<q, e>>
  BY ChosenFacts
<1>4. \A pe : pe \in Chosen(packages, bases, family) <=>
        \E p \in packages : /\ p.patch \/ p.owner \in bases
                            /\ \E e \in p.entries : /\ e.family = family /\ e.module \in bases
                                                    /\ pe = <<p, e>>
  BY ChosenFacts
<1> HIDE DEF renamed
<1>5. ASSUME qe \in Chosen(renamed, bases, family)
      PROVE  \E pe \in Chosen(packages, bases, family) : qe = <<Moved(pe[1], names), pe[2]>>
  <2>1. PICK q \in renamed : /\ q.patch \/ q.owner \in bases
                             /\ \E e \in q.entries : /\ e.family = family /\ e.module \in bases
                                                     /\ qe = <<q, e>>
    BY <1>3, <1>5
  <2>2. PICK e \in q.entries : e.family = family /\ e.module \in bases /\ qe = <<q, e>>
    BY <2>1
  <2>3. PICK p \in packages : q = Moved(p, names)
    BY <1>1
  <2>4. <<p, e>> \in Chosen(packages, bases, family)
    BY <1>2, <1>4, <2>1, <2>2, <2>3
  <2> QED  BY <2>2, <2>3, <2>4
<1>6. ASSUME NEW pe \in Chosen(packages, bases, family), qe = <<Moved(pe[1], names), pe[2]>>
      PROVE  qe \in Chosen(renamed, bases, family)
  <2>1. PICK p \in packages : /\ p.patch \/ p.owner \in bases
                              /\ \E e \in p.entries : /\ e.family = family /\ e.module \in bases
                                                      /\ pe = <<p, e>>
    BY <1>4
  <2>2. PICK e \in p.entries : e.family = family /\ e.module \in bases /\ pe = <<p, e>>
    BY <2>1
  <2>3. qe = <<Moved(p, names), e>> /\ Moved(p, names) \in renamed
    BY <1>1, <1>6, <2>2
  <2> QED  BY <1>2, <1>3, <2>1, <2>2, <2>3
<1> QED  BY <1>5, <1>6 DEF renamed

(* As many bytes, and so readable alike.                                   *)
LEMMA BytesMove ==
  ASSUME NEW packages, Callables!IsInstallation(packages), NEW names, AreNames(packages, names),
         NEW bases, NEW family
  PROVE  Cardinality(Callables!Bytes(Chosen(Callables!Renamed(packages, names), bases, family)))
           = Cardinality(Callables!Bytes(Chosen(packages, bases, family)))
<1> DEFINE chosen == Chosen(packages, bases, family)
           moved == Chosen(Callables!Renamed(packages, names), bases, family)
           f == [b \in Callables!Bytes(chosen) |-> <<<<Moved(b[1][1], names), b[1][2]>>, b[2]>>]
<1>1. \A b : b \in Callables!Bytes(chosen) <=> \E pe \in chosen : \E n \in 1 .. pe[2].size : b = <<pe, n>>
  BY BytesFacts
<1>2. \A b : b \in Callables!Bytes(moved) <=> \E pe \in moved : \E n \in 1 .. pe[2].size : b = <<pe, n>>
  BY BytesFacts
<1>3. \A qe : qe \in moved <=> \E pe \in chosen : qe = <<Moved(pe[1], names), pe[2]>>
  BY ChosenMove
<1>4. \A pe \in chosen : pe = <<pe[1], pe[2]>> /\ pe[1] \in packages
  BY ChosenFacts
<1>5. IsFiniteSet(Callables!Bytes(chosen))
  BY ChosenFinite
<1> HIDE DEF chosen, moved
<1>6. ASSUME NEW b \in Callables!Bytes(chosen), NEW c \in Callables!Bytes(chosen), f[b] = f[c]
      PROVE  b = c
  <2>1. PICK pe \in chosen : \E n \in 1 .. pe[2].size : b = <<pe, n>>
    BY <1>1
  <2>2. PICK qe \in chosen : \E n \in 1 .. qe[2].size : c = <<qe, n>>
    BY <1>1
  <2>3. PICK n : b = <<pe, n>>
    BY <2>1
  <2>4. PICK m : c = <<qe, m>>
    BY <2>2
  <2>5. f[b] = <<<<Moved(pe[1], names), pe[2]>>, n>> /\ f[c] = <<<<Moved(qe[1], names), qe[2]>>, m>>
    BY <2>3, <2>4
  <2>6. Moved(pe[1], names) = Moved(qe[1], names) /\ pe[2] = qe[2] /\ n = m
    BY <1>6, <2>5
  <2>7. pe[1] = qe[1]
    BY <1>4, <2>6, MovedApart
  <2> QED  BY <1>4, <2>3, <2>4, <2>6, <2>7
<1>7. Callables!Bytes(moved) = {f[b] : b \in DOMAIN f}
  <2>1. ASSUME NEW c \in Callables!Bytes(moved) PROVE \E b \in DOMAIN f : c = f[b]
    <3>1. PICK qe \in moved : \E n \in 1 .. qe[2].size : c = <<qe, n>>
      BY <1>2
    <3>2. PICK n \in 1 .. qe[2].size : c = <<qe, n>>
      BY <3>1
    <3>3. PICK pe \in chosen : qe = <<Moved(pe[1], names), pe[2]>>
      BY <1>3
    <3>4. n \in 1 .. pe[2].size
      BY <3>2, <3>3
    <3>5. <<pe, n>> \in Callables!Bytes(chosen)
      BY <1>1, <3>4
    <3>6. f[<<pe, n>>] = c
      BY <3>2, <3>3, <3>5
    <3> QED  BY <3>5, <3>6
  <2>2. ASSUME NEW b \in DOMAIN f PROVE f[b] \in Callables!Bytes(moved)
    <3>1. PICK pe \in chosen : \E n \in 1 .. pe[2].size : b = <<pe, n>>
      BY <1>1
    <3>2. PICK n \in 1 .. pe[2].size : b = <<pe, n>>
      BY <3>1
    <3> DEFINE qe == <<Moved(pe[1], names), pe[2]>>
    <3>3. qe \in moved /\ n \in 1 .. qe[2].size /\ f[b] = <<qe, n>>
      BY <1>3, <3>2
    <3> QED  BY <1>2, <3>3
  <2> QED  BY <2>1, <2>2
<1>8. Cardinality({f[b] : b \in DOMAIN f}) = Cardinality(DOMAIN f)
  <2>1. IsFiniteSet(DOMAIN f) /\ \A b, c \in DOMAIN f : f[b] = f[c] => b = c
    BY <1>5, <1>6
  <2> HIDE DEF f
  <2> QED  BY <2>1, SameSize
<1> QED  BY <1>7, <1>8 DEF chosen, moved

LEMMA SourcesMove ==
  ASSUME NEW packages, Callables!IsInstallation(packages), NEW names, AreNames(packages, names),
         NEW bases, NEW family
  PROVE  Callables!ReadSources(Callables!Renamed(packages, names), bases, family).sources
           = {MovedSource(s, names) : s \in Callables!ReadSources(packages, bases, family).sources}
<1> DEFINE renamed == Callables!Renamed(packages, names)
           chosen == Chosen(packages, bases, family)
           moved == Chosen(renamed, bases, family)
           before == Callables!Candidates(packages, bases)
           after == Callables!Candidates(renamed, bases)
           Of(pe) == Callables!Source(pe[1], pe[2], pe[2].module)
<1>1. \A q : q \in renamed <=> \E p \in packages : q = Moved(p, names)
  BY RenamedAre
<1>2. \A qe : qe \in moved <=> \E pe \in chosen : qe = <<Moved(pe[1], names), pe[2]>>
  BY ChosenMove
<1>3. Cardinality(Callables!Bytes(moved)) = Cardinality(Callables!Bytes(chosen))
  BY BytesMove
<1>4. \A q : q \in after <=> \E p \in before : q = Moved(p, names)
  <2>1. /\ \A q : q \in after <=> q \in renamed /\ (q.patch \/ q.owner \in bases)
        /\ \A p : p \in before <=> p \in packages /\ (p.patch \/ p.owner \in bases)
    BY DEF Callables!Candidates
  <2>2. \A p : Moved(p, names).patch = p.patch /\ Moved(p, names).owner = p.owner
    BY DEF Moved
  <2> HIDE DEF after, before, renamed
  <2>3. ASSUME NEW q \in after PROVE \E p \in before : q = Moved(p, names)
    <3>1. q \in renamed /\ (q.patch \/ q.owner \in bases)
      BY <2>1
    <3>2. PICK p \in packages : q = Moved(p, names)
      BY <1>1, <3>1
    <3> QED  BY <2>1, <2>2, <3>1, <3>2
  <2>4. ASSUME NEW p \in before PROVE Moved(p, names) \in after
    <3>1. p \in packages /\ (p.patch \/ p.owner \in bases)
      BY <2>1
    <3>2. Moved(p, names) \in renamed
      BY <1>1, <3>1
    <3> QED  BY <2>1, <2>2, <3>1, <3>2
  <2> QED  BY <2>3, <2>4
<1> HIDE DEF renamed, chosen, moved, before, after
<1>5. Callables!Readable(after, moved) <=> Callables!Readable(before, chosen)
  <2>1. (\A q \in after : q.layout = "supported" /\ q.opens)
          <=> \A p \in before : p.layout = "supported" /\ p.opens
    <3>1. \A p : Moved(p, names).layout = p.layout /\ Moved(p, names).opens = p.opens
      BY DEF Moved
    <3>2. ASSUME \A q \in after : q.layout = "supported" /\ q.opens, NEW p \in before
          PROVE  p.layout = "supported" /\ p.opens
      <4>1. Moved(p, names) \in after
        BY <1>4
      <4>2. Moved(p, names).layout = "supported" /\ Moved(p, names).opens
        BY <3>2, <4>1
      <4> QED  BY <3>1, <4>2
    <3>3. ASSUME \A p \in before : p.layout = "supported" /\ p.opens, NEW q \in after
          PROVE  q.layout = "supported" /\ q.opens
      <4>1. PICK p \in before : q = Moved(p, names)
        BY <1>4
      <4> QED  BY <3>1, <3>3, <4>1
    <3> QED  BY <3>2, <3>3
  <2>2. (\A qe \in moved : qe[2].size <= MaxEntry /\ qe[2].utf8)
          <=> \A pe \in chosen : pe[2].size <= MaxEntry /\ pe[2].utf8
    <3>1. ASSUME \A qe \in moved : qe[2].size <= MaxEntry /\ qe[2].utf8, NEW pe \in chosen
          PROVE  pe[2].size <= MaxEntry /\ pe[2].utf8
      <4> DEFINE qe == <<Moved(pe[1], names), pe[2]>>
      <4>1. qe \in moved /\ qe[2] = pe[2]
        BY <1>2
      <4> HIDE DEF qe
      <4>2. qe[2].size <= MaxEntry /\ qe[2].utf8
        BY <3>1, <4>1
      <4> QED  BY <4>1, <4>2
    <3>2. ASSUME \A pe \in chosen : pe[2].size <= MaxEntry /\ pe[2].utf8, NEW qe \in moved
          PROVE  qe[2].size <= MaxEntry /\ qe[2].utf8
      <4>1. PICK pe \in chosen : qe = <<Moved(pe[1], names), pe[2]>>
        BY <1>2
      <4>2. qe[2] = pe[2]
        BY <4>1
      <4> QED  BY <3>2, <4>2
    <3> QED  BY <3>1, <3>2
  <2> QED  BY <1>3, <2>1, <2>2, SameNotions DEF Callables!Readable
<1>6. {Of(qe) : qe \in moved} = {MovedSource(s, names) : s \in {Of(pe) : pe \in chosen}}
  <2>1. ASSUME NEW pe PROVE Of(<<Moved(pe[1], names), pe[2]>>) = MovedSource(Of(pe), names)
    BY DEF Callables!Source, Moved, MovedSource
  <2> HIDE DEF Of
  <2>2. ASSUME NEW qe \in moved PROVE \E pe \in chosen : Of(qe) = MovedSource(Of(pe), names)
    <3>1. PICK pe \in chosen : qe = <<Moved(pe[1], names), pe[2]>>
      BY <1>2
    <3> QED  BY <2>1, <3>1
  <2>3. ASSUME NEW pe \in chosen PROVE \E qe \in moved : MovedSource(Of(pe), names) = Of(qe)
    <3>1. <<Moved(pe[1], names), pe[2]>> \in moved
      BY <1>2
    <3> QED  BY <2>1, <3>1
  <2> QED  BY <2>2, <2>3
<1>7. /\ Callables!ReadSources(renamed, bases, family).sources
           = IF Callables!Readable(after, moved) THEN {Of(qe) : qe \in moved} ELSE {}
      /\ Callables!ReadSources(packages, bases, family).sources
           = IF Callables!Readable(before, chosen) THEN {Of(pe) : pe \in chosen} ELSE {}
  BY SourcesAre DEF renamed, chosen, moved, before, after
<1> HIDE DEF Of
<1> QED  BY <1>5, <1>6, <1>7 DEF renamed

(* Two sources of a catalog do not move to one.                            *)
LEMMA SourcesApart ==
  ASSUME NEW packages, Callables!IsInstallation(packages), NEW names, AreNames(packages, names),
         NEW bases, NEW family,
         NEW s \in Callables!ReadSources(packages, bases, family).sources,
         NEW t \in Callables!ReadSources(packages, bases, family).sources,
         MovedSource(s, names) = MovedSource(t, names)
  PROVE  s = t
<1> DEFINE chosen == Chosen(packages, bases, family)
<1>1. \A u \in {s, t} : \E pe \in chosen : u = Callables!Source(pe[1], pe[2], pe[2].module)
  BY SourcesAre
<1>2. \A u \in {s, t} : \E p \in packages :
        /\ u.package = p.name
        /\ u = [module |-> u.module, package |-> u.package, entry |-> u.entry,
                priority |-> u.priority, index |-> u.index, text |-> u.text]
  BY <1>1, ChosenFacts DEF Callables!Source
<1>3. s.package = t.package
  BY <1>2 DEF MovedSource, AreNames
<1> QED  BY <1>2, <1>3 DEF MovedSource

LEMMA ForemostImage ==
  ASSUME NEW f, \A x \in DOMAIN f : f[x].priority = x.priority
  PROVE  Callables!Foremost({f[x] : x \in DOMAIN f}) = {f[x] : x \in Callables!Foremost(DOMAIN f)}
BY DEF Callables!Foremost

LEMMA EffectiveMoves ==
  ASSUME NEW catalog, IsFiniteSet(catalog), NEW names,
         \A s, t \in catalog : MovedSource(s, names) = MovedSource(t, names) => s = t,
         NEW s \in catalog
  PROVE  Callables!IsEffective({MovedSource(t, names) : t \in catalog}, MovedSource(s, names))
           <=> Callables!IsEffective(catalog, s)
<1> DEFINE after == {MovedSource(t, names) : t \in catalog}
           r == MovedSource(s, names)
           here == Callables!SourcesFor(catalog, s.module, s.entry)
           there == Callables!SourcesFor(after, r.module, r.entry)
           f == [t \in here |-> MovedSource(t, names)]
<1>1. \A t : /\ MovedSource(t, names).module = t.module /\ MovedSource(t, names).entry = t.entry
             /\ MovedSource(t, names).priority = t.priority
  BY DEF MovedSource
<1>2. IsFiniteSet(after)
  <2> DEFINE g == [t \in catalog |-> MovedSource(t, names)]
  <2>1. IsFiniteSet({g[t] : t \in DOMAIN g})
    BY FiniteImage
  <2> QED  BY <2>1
<1>3. there = {f[t] : t \in DOMAIN f}
  BY <1>1 DEF Callables!SourcesFor
<1>4. Callables!Foremost(there) = {f[t] : t \in Callables!Foremost(DOMAIN f)}
  <2>1. \A t \in DOMAIN f : f[t].priority = t.priority
    BY <1>1
  <2> HIDE DEF f
  <2> QED  BY <1>3, <2>1, ForemostImage
<1>5. Callables!Foremost(there) = {MovedSource(t, names) : t \in Callables!Foremost(here)}
  <2>1. Callables!Foremost(here) \subseteq here
    BY DEF Callables!Foremost
  <2> QED  BY <1>4, <2>1
<1>6. Callables!Foremost(here) \subseteq catalog
  BY DEF Callables!Foremost, Callables!SourcesFor
<1>7. Callables!IsEffective(catalog, s) <=> Callables!Foremost(here) = {s}
  BY EffectiveIsForemost
<1>8. Callables!IsEffective(after, r) <=> Callables!Foremost(there) = {r}
  BY <1>2, EffectiveIsForemost
<1> HIDE DEF here, there, after
<1>9. Callables!Foremost(there) = {r} <=> Callables!Foremost(here) = {s}
  BY <1>5, <1>6
<1> QED  BY <1>7, <1>8, <1>9 DEF after

MovedDeclaration(d, names) ==
  [module |-> d.module, priority |-> d.priority, package |-> names[d.package], entry |-> d.entry,
   kind |-> d.kind, name |-> d.name, arity |-> d.arity,
   role |-> d.role, parameters |-> d.parameters, line |-> d.line]

LEMMA DeclaredMove ==
  ASSUME NEW catalog, IsFiniteSet(catalog), NEW names,
         \A s, t \in catalog : MovedSource(s, names) = MovedSource(t, names) => s = t,
         NEW kinds
  PROVE  Callables!Declared({MovedSource(t, names) : t \in catalog}, kinds)
           = {MovedDeclaration(d, names) : d \in Callables!Declared(catalog, kinds)}
<1> DEFINE after == {MovedSource(t, names) : t \in catalog}
<1>1. \A s \in catalog : /\ Callables!IsEffective(after, MovedSource(s, names)) <=> Callables!IsEffective(catalog, s)
                         /\ MovedSource(s, names).text = s.text
  BY EffectiveMoves DEF MovedSource
<1>2. \A s, symbol : Callables!Declaration(MovedSource(s, names), symbol)
                       = MovedDeclaration(Callables!Declaration(s, symbol), names)
  BY DEF Callables!Declaration, MovedSource, MovedDeclaration
<1>3. \A d : d \in Callables!Declared(catalog, kinds) <=>
        \E s \in catalog : /\ s.text.parses /\ Callables!IsEffective(catalog, s)
                           /\ \E symbol \in s.text.symbols :
                                symbol.kind \in kinds /\ d = Callables!Declaration(s, symbol)
  BY DeclaredFacts
<1>4. \A d : d \in Callables!Declared(after, kinds) <=>
        \E r \in after : /\ r.text.parses /\ Callables!IsEffective(after, r)
                         /\ \E symbol \in r.text.symbols :
                              symbol.kind \in kinds /\ d = Callables!Declaration(r, symbol)
  <2> HIDE DEF after
  <2> QED  BY DeclaredFacts
<1>5. \A r : r \in after <=> \E s \in catalog : r = MovedSource(s, names)
  OBVIOUS
<1> HIDE DEF after
<1>6. ASSUME NEW d \in Callables!Declared(after, kinds)
      PROVE  \E b \in Callables!Declared(catalog, kinds) : d = MovedDeclaration(b, names)
  <2>1. PICK r \in after : /\ r.text.parses /\ Callables!IsEffective(after, r)
                           /\ \E symbol \in r.text.symbols :
                                symbol.kind \in kinds /\ d = Callables!Declaration(r, symbol)
    BY <1>4
  <2>2. PICK s \in catalog : r = MovedSource(s, names)
    BY <1>5
  <2>3. PICK symbol \in s.text.symbols : symbol.kind \in kinds /\ d = Callables!Declaration(r, symbol)
    BY <1>1, <2>1, <2>2
  <2>4. Callables!Declaration(s, symbol) \in Callables!Declared(catalog, kinds)
    BY <1>1, <1>3, <2>1, <2>2, <2>3
  <2> QED  BY <1>2, <2>2, <2>3, <2>4
<1>7. ASSUME NEW b \in Callables!Declared(catalog, kinds)
      PROVE  MovedDeclaration(b, names) \in Callables!Declared(after, kinds)
  <2>1. PICK s \in catalog : /\ s.text.parses /\ Callables!IsEffective(catalog, s)
                             /\ \E symbol \in s.text.symbols :
                                  symbol.kind \in kinds /\ b = Callables!Declaration(s, symbol)
    BY <1>3
  <2>2. PICK symbol \in s.text.symbols : symbol.kind \in kinds /\ b = Callables!Declaration(s, symbol)
    BY <2>1
  <2> DEFINE r == MovedSource(s, names)
  <2>3. r \in after /\ r.text.parses /\ Callables!IsEffective(after, r) /\ symbol \in r.text.symbols
    BY <1>1, <1>5, <2>1, <2>2
  <2>4. MovedDeclaration(b, names) = Callables!Declaration(r, symbol)
    BY <1>2, <2>2
  <2> HIDE DEF r
  <2> QED  BY <1>4, <2>2, <2>3, <2>4
<1> QED  BY <1>6, <1>7 DEF after

LEMMA DeclaredFinite ==
  ASSUME NEW catalog, Callables!IsCatalog(catalog), NEW kinds
  PROVE  /\ IsFiniteSet(Callables!Declared(catalog, kinds))
         /\ \A d \in Callables!Declared(catalog, kinds) :
              {d.package, d.entry, d.line, d.priority} \subseteq Nat
<1> DEFINE Of(s) == {Callables!Declaration(s, symbol) : symbol \in s.text.symbols}
           f == [s \in catalog |-> Of(s)]
           all == UNION {f[s] : s \in DOMAIN f}
<1>0. /\ IsFiniteSet(catalog)
      /\ \A s \in catalog : /\ {s.package, s.entry, s.priority} \subseteq Nat
                            /\ IsFiniteSet(s.text.symbols)
                            /\ \A symbol \in s.text.symbols : symbol.line \in Nat
  BY SameNotions DEF Callables!IsCatalog
<1>1. ASSUME NEW s \in catalog PROVE IsFiniteSet(Of(s))
  <2> DEFINE g == [symbol \in s.text.symbols |-> Callables!Declaration(s, symbol)]
  <2>1. IsFiniteSet({g[symbol] : symbol \in DOMAIN g})
    BY <1>0, FiniteImage
  <2> QED  BY <2>1
<1>2. IsFiniteSet({f[s] : s \in DOMAIN f})
  BY <1>0, FiniteImage
<1>3. IsFiniteSet(all)
  <2>1. \A T \in {f[s] : s \in DOMAIN f} : IsFiniteSet(T)
    BY <1>1
  <2> HIDE DEF f
  <2> QED  BY <1>2, <2>1, FS_UNION
<1>4. \A d : d \in Callables!Declared(catalog, kinds) <=>
        \E s \in catalog : /\ s.text.parses /\ Callables!IsEffective(catalog, s)
                           /\ \E symbol \in s.text.symbols :
                                symbol.kind \in kinds /\ d = Callables!Declaration(s, symbol)
  BY DeclaredFacts
<1>5. ASSUME NEW d \in Callables!Declared(catalog, kinds)
      PROVE  d \in all /\ {d.package, d.entry, d.line, d.priority} \subseteq Nat
  <2>1. PICK s \in catalog : \E symbol \in s.text.symbols : d = Callables!Declaration(s, symbol)
    BY <1>4
  <2>2. PICK symbol \in s.text.symbols : d = Callables!Declaration(s, symbol)
    BY <2>1
  <2>3. d \in f[s] /\ f[s] \in {f[t] : t \in DOMAIN f}
    BY <2>2
  <2>4. d.package = s.package /\ d.entry = s.entry /\ d.line = symbol.line /\ d.priority = s.priority
    BY <2>2 DEF Callables!Declaration
  <2> QED  BY <1>0, <2>3, <2>4
<1> HIDE DEF all
<1> QED  BY <1>3, <1>5, FS_Subset

-----------------------------------------------------------------------------
(* What a symbol and a callable resolve to.                                *)

LEMMA FirstIn ==
  ASSUME NEW top, IsFiniteSet(top), top # {},
         \A d \in top : {d.package, d.entry, d.line} \subseteq Nat
  PROVE  Callables!First(top) \in top
<1> DEFINE Less(d, e) == \/ d.package < e.package
                         \/ d.package = e.package /\ d.entry < e.entry
                         \/ d.package = e.package /\ d.entry = e.entry /\ d.line < e.line
           R == {de \in top \X top : Less(de[1], de[2])}
<1>1. \A d, e : <<d, e>> \in R <=> d \in top /\ e \in top /\ Less(d, e)
  OBVIOUS
<1> HIDE DEF R
<1>2. \A d \in top : <<d, d>> \notin R
  BY <1>1
<1>3. \A d, e, g \in top : <<d, e>> \in R /\ <<e, g>> \in R => <<d, g>> \in R
  BY <1>1
<1>4. PICK d \in top : \A e \in top : <<e, d>> \notin R
  BY <1>2, <1>3, MinimalOf
<1>5. \A e \in top : ~Less(e, d)
  BY <1>1, <1>4
<1>6. \A e \in top : \/ d.package < e.package
                     \/ d.package = e.package /\ d.entry < e.entry
                     \/ d.package = e.package /\ d.entry = e.entry /\ d.line <= e.line
  BY <1>5
<1> QED  BY <1>6 DEF Callables!First

LEMMA ApiResolved ==
  ASSUME NEW catalog, Callables!IsCatalog(catalog), NEW module, NEW kind, NEW name
  PROVE  Callables!ResolveApi(catalog, module, kind, name)
           = Verdict(Callables!Foremost({d \in Callables!Declared(catalog, {kind}) :
                                           d.module = module /\ d.name = name}))
<1> DEFINE here == {d \in Callables!Declared(catalog, {kind}) : d.module = module /\ d.name = name}
           top == Callables!Foremost(here)
<1>1. IsFiniteSet(top)
  <2>1. IsFiniteSet(here)
    BY DeclaredFinite, FS_Subset
  <2> QED  BY <2>1, ForemostFinite
<1>2. top = {} => Cardinality(top) # 1
  BY FS_EmptySet
<1>3. Cardinality(top) = 1 => top = {CHOOSE s \in top : TRUE}
  BY <1>1, SingleIsChosen
<1> QED  BY <1>2, <1>3, SameNotions
         DEF Callables!ResolveApi, Callables!Missing, Callables!Unique, Callables!Ambiguous, Verdict

(* The declarations of a callable that no other outranks, and what the     *)
(* callable is by them: one signature if they share it, none if not.       *)
Ranked(catalog, module, name, arity) ==
  Callables!Foremost({d \in Callables!Callables(catalog, module) : d.name = name /\ d.arity = arity})

Signatures(top) == {<<d.role, d.parameters>> : d \in top}

LEMMA CallableResolved ==
  ASSUME NEW catalog, Callables!IsCatalog(catalog), NEW module, NEW name, NEW arity
  PROVE  LET top == Ranked(catalog, module, name, arity)
             found == Callables!ResolveCallable(catalog, module, name, arity)
         IN  /\ found.tag = IF top = {} THEN "missing"
                            ELSE IF Cardinality({<<d.parameters, d.role>> : d \in top}) = 1
                                 THEN "unique" ELSE "ambiguous"
             /\ Signatures(found.candidates) = Signatures(top)
             /\ found.candidates \subseteq top
             /\ found.tag = "unique" => found.candidates = {Callables!First(top)}
             /\ found.tag # "unique" => found.candidates = top
<1> DEFINE here == {d \in Callables!Callables(catalog, module) : d.name = name /\ d.arity = arity}
           top == Callables!Foremost(here)
           pairs == {<<d.parameters, d.role>> : d \in top}
           found == Callables!ResolveCallable(catalog, module, name, arity)
<1>0. top = Ranked(catalog, module, name, arity)
  BY DEF Ranked
<1>1. here \subseteq Callables!Declared(catalog, {"callable"})
  BY DEF Callables!Callables
<1>2. /\ IsFiniteSet(top) /\ top \subseteq here
      /\ \A d \in top : {d.package, d.entry, d.line} \subseteq Nat
  <2>1. IsFiniteSet(here)
    BY <1>1, DeclaredFinite, FS_Subset
  <2>2. IsFiniteSet(top) /\ top \subseteq here
    BY <2>1, ForemostFinite
  <2>3. \A d \in Callables!Declared(catalog, {"callable"}) : {d.package, d.entry, d.line} \subseteq Nat
    BY DeclaredFinite
  <2> QED  BY <1>1, <2>2, <2>3
<1>3. found = CASE top = {} -> Callables!Missing
                [] top # {} /\ Cardinality(pairs) = 1 -> Callables!Unique(Callables!First(top))
                [] OTHER -> Callables!Ambiguous(top)
  BY SameNotions DEF Callables!ResolveCallable
<1> HIDE DEF top, found, pairs
<1>4. CASE top = {}
  <2>1. found = [tag |-> "missing", candidates |-> {}]
    BY <1>3, <1>4 DEF Callables!Missing
  <2> QED  BY <1>0, <1>4, <2>1 DEF found
<1>5. CASE top # {} /\ Cardinality(pairs) = 1
  <2>1. found = [tag |-> "unique", candidates |-> {Callables!First(top)}]
    BY <1>3, <1>5 DEF Callables!Unique
  <2>2. Callables!First(top) \in top
    BY <1>2, <1>5, FirstIn
  <2>3. PICK p : pairs = {p}
    <3>1. IsFiniteSet(pairs)
      <4> DEFINE g == [d \in top |-> <<d.parameters, d.role>>]
      <4>1. IsFiniteSet({g[d] : d \in DOMAIN g})
        BY <1>2, FiniteImage
      <4> QED  BY <4>1 DEF pairs
    <3> QED  BY <1>5, <3>1, FS_Singleton
  <2>4. \A d \in top : <<d.parameters, d.role>> = p
    BY <2>3 DEF pairs
  <2>5. \A d \in top : d.parameters = Callables!First(top).parameters /\ d.role = Callables!First(top).role
    BY <2>2, <2>4
  <2>6. Signatures({Callables!First(top)}) = Signatures(top)
    BY <2>2, <2>5 DEF Signatures
  <2> QED  BY <1>0, <1>5, <2>1, <2>2, <2>6 DEF found, pairs
<1>6. CASE top # {} /\ Cardinality(pairs) # 1
  <2>1. found = [tag |-> "ambiguous", candidates |-> top]
    BY <1>3, <1>6 DEF Callables!Ambiguous
  <2> QED  BY <1>0, <1>6, <2>1 DEF found, pairs
<1> QED  BY <1>4, <1>5, <1>6

LEMMA DeclaredAre ==
  ASSUME NEW catalog, NEW kinds, NEW d \in Callables!Declared(catalog, kinds)
  PROVE  /\ d = [module |-> d.module, priority |-> d.priority, package |-> d.package, entry |-> d.entry,
                 kind |-> d.kind, name |-> d.name, arity |-> d.arity,
                 role |-> d.role, parameters |-> d.parameters, line |-> d.line]
         /\ \E s \in catalog : d.package = s.package
<1>1. PICK s \in catalog : \E symbol \in s.text.symbols : d = Callables!Declaration(s, symbol)
  BY DeclaredFacts
<1>2. PICK symbol \in s.text.symbols : d = Callables!Declaration(s, symbol)
  BY <1>1
<1> QED  BY <1>2 DEF Callables!Declaration

(* What stands foremost does not depend on names.                          *)
LEMMA ForemostMove ==
  ASSUME NEW names, NEW here, NEW there,
         \A d : d \in there <=> \E b \in here : d = MovedDeclaration(b, names)
  PROVE  Callables!Foremost(there) = {MovedDeclaration(d, names) : d \in Callables!Foremost(here)}
<1> DEFINE f == [d \in here |-> MovedDeclaration(d, names)]
<1>1. \A d \in DOMAIN f : f[d].priority = d.priority
  BY DEF MovedDeclaration
<1>2. there = {f[d] : d \in DOMAIN f}
  OBVIOUS
<1>3. DOMAIN f = here /\ \A d \in here : f[d] = MovedDeclaration(d, names)
  OBVIOUS
<1> HIDE DEF f
<1>4. Callables!Foremost(there) = {f[d] : d \in Callables!Foremost(here)}
  BY <1>1, <1>2, <1>3, ForemostImage
<1>5. Callables!Foremost(here) \subseteq here
  BY DEF Callables!Foremost
<1> QED  BY <1>3, <1>4, <1>5

LEMMA NamesDecideNothing ==
  ASSUME NEW packages, Callables!IsInstallation(packages), NEW names, AreNames(packages, names),
         NEW bases, NEW family, NEW kinds
  PROVE  Callables!NamesDoNotDecide(packages, Callables!Renamed(packages, names), bases, family, kinds)
<1> DEFINE before == Callables!ReadSources(packages, bases, family).sources
           after == Callables!ReadSources(Callables!Renamed(packages, names), bases, family).sources
           Nameless(r) == [tag |-> r.tag, candidates |-> {[d EXCEPT !.package = 0] : d \in r.candidates}]
           Meaning(r) == [tag |-> r.tag, signatures |-> {<<d.role, d.parameters>> : d \in r.candidates}]
<1>1. /\ Callables!IsCatalog(before) /\ IsFiniteSet(before)
      /\ Callables!IsCatalog(after) /\ IsFiniteSet(after)
  BY SourcesAreCatalog, RenamedIsInstallation, SameNotions DEF Callables!IsCatalog
<1>2. after = {MovedSource(s, names) : s \in before}
  BY SourcesMove
<1>3. \A s, t \in before : /\ MovedSource(s, names) = MovedSource(t, names) => s = t
                           /\ names[s.package] = names[t.package] => s.package = t.package
  <2>1. \A s, t \in before : MovedSource(s, names) = MovedSource(t, names) => s = t
    BY SourcesApart
  <2>2. ASSUME NEW s \in before PROVE \E p \in packages : s.package = p.name
    <3>1. PICK pe \in Chosen(packages, bases, family) : s = Callables!Source(pe[1], pe[2], pe[2].module)
      BY SourcesAre
    <3>2. pe[1] \in packages
      BY ChosenFacts
    <3> QED  BY <3>1, <3>2 DEF Callables!Source
  <2> HIDE DEF before
  <2> QED  BY <2>1, <2>2 DEF AreNames
<1> HIDE DEF before, after
<1>4. ASSUME NEW some
      PROVE  Callables!Declared(after, some) = {MovedDeclaration(d, names) : d \in Callables!Declared(before, some)}
  BY <1>1, <1>2, <1>3, DeclaredMove
<1>5. ASSUME NEW some, NEW d \in Callables!Declared(before, some), NEW e \in Callables!Declared(before, some),
             MovedDeclaration(d, names) = MovedDeclaration(e, names)
      PROVE  d = e
  <2>1. \A b \in {d, e} :
          /\ b = [module |-> b.module, priority |-> b.priority, package |-> b.package, entry |-> b.entry,
                  kind |-> b.kind, name |-> b.name, arity |-> b.arity,
                  role |-> b.role, parameters |-> b.parameters, line |-> b.line]
          /\ \E s \in before : b.package = s.package
    BY DeclaredAre
  <2>2. names[d.package] = names[e.package]
    BY <1>5 DEF MovedDeclaration
  <2>3. d.package = e.package
    BY <1>3, <2>1, <2>2
  <2> QED  BY <1>5, <2>1, <2>3 DEF MovedDeclaration
<1>6. ASSUME NEW some, NEW top \in SUBSET Callables!Declared(before, some)
      PROVE  LET moved == {MovedDeclaration(d, names) : d \in top} IN
             /\ Cardinality(moved) = Cardinality(top) /\ (moved = {} <=> top = {})
             /\ {[d EXCEPT !.package = 0] : d \in moved} = {[d EXCEPT !.package = 0] : d \in top}
             /\ Signatures(moved) = Signatures(top)
             /\ {<<d.parameters, d.role>> : d \in moved} = {<<d.parameters, d.role>> : d \in top}
  <2> DEFINE moved == {MovedDeclaration(d, names) : d \in top}
             f == [d \in top |-> MovedDeclaration(d, names)]
  <2>1. IsFiniteSet(DOMAIN f) /\ \A d, e \in DOMAIN f : f[d] = f[e] => d = e
    BY <1>1, <1>5, DeclaredFinite, FS_Subset
  <2>2. moved = {f[d] : d \in DOMAIN f}
    OBVIOUS
  <2>3. Cardinality(moved) = Cardinality(top)
    <3>1. DOMAIN f = top
      OBVIOUS
    <3> HIDE DEF f, moved
    <3> QED  BY <2>1, <2>2, <3>1, SameSize
  <2>4. \A d \in top : [MovedDeclaration(d, names) EXCEPT !.package = 0] = [d EXCEPT !.package = 0]
    BY DeclaredAre DEF MovedDeclaration
  <2>5. \A d : MovedDeclaration(d, names).role = d.role /\ MovedDeclaration(d, names).parameters = d.parameters
    BY DEF MovedDeclaration
  <2>6. {[d EXCEPT !.package = 0] : d \in moved} = {[d EXCEPT !.package = 0] : d \in top}
    <3> DEFINE Bare(d) == [d EXCEPT !.package = 0]
    <3>1. \A d \in top : Bare(MovedDeclaration(d, names)) = Bare(d)
      BY <2>4
    <3> HIDE DEF Bare
    <3>2. {Bare(d) : d \in moved} = {Bare(d) : d \in top}
      BY <3>1
    <3> QED  BY <3>2 DEF Bare
  <2>7. Signatures(moved) = Signatures(top)
    BY <2>5 DEF Signatures
  <2>8. {<<d.parameters, d.role>> : d \in moved} = {<<d.parameters, d.role>> : d \in top}
    BY <2>5
  <2> QED  BY <2>3, <2>6, <2>7, <2>8
<1>7. ASSUME NEW module, NEW kind, NEW name
      PROVE  Nameless(Callables!ResolveApi(before, module, kind, name))
               = Nameless(Callables!ResolveApi(after, module, kind, name))
  <2> DEFINE here == {d \in Callables!Declared(before, {kind}) : d.module = module /\ d.name = name}
             there == {d \in Callables!Declared(after, {kind}) : d.module = module /\ d.name = name}
             top == Callables!Foremost(here)
  <2>0. Callables!Declared(after, {kind})
          = {MovedDeclaration(d, names) : d \in Callables!Declared(before, {kind})}
    BY <1>4
  <2>1. \A d : d \in there <=> \E b \in here : d = MovedDeclaration(b, names)
    <3>1. \A d : /\ MovedDeclaration(d, names).module = d.module
                 /\ MovedDeclaration(d, names).name = d.name
      BY DEF MovedDeclaration
    <3> QED  BY <2>0, <3>1
  <2>2. here \subseteq Callables!Declared(before, {kind}) /\ top \subseteq here
    BY DEF Callables!Foremost
  <2>3. /\ Callables!ResolveApi(before, module, kind, name) = Verdict(top)
        /\ Callables!ResolveApi(after, module, kind, name) = Verdict(Callables!Foremost(there))
    BY <1>1, ApiResolved
  <2> HIDE DEF here, there
  <2>4. Callables!Foremost(there) = {MovedDeclaration(d, names) : d \in top}
    BY <2>1, ForemostMove
  <2> HIDE DEF top
  <2>5. top \in SUBSET Callables!Declared(before, {kind})
    BY <2>2
  <2> QED  BY <1>6, <2>3, <2>4, <2>5 DEF Verdict
<1>8. ASSUME NEW module, NEW name, NEW arity
      PROVE  Meaning(Callables!ResolveCallable(before, module, name, arity))
               = Meaning(Callables!ResolveCallable(after, module, name, arity))
  <2> DEFINE here == {d \in Callables!Callables(before, module) : d.name = name /\ d.arity = arity}
             there == {d \in Callables!Callables(after, module) : d.name = name /\ d.arity = arity}
             top == Ranked(before, module, name, arity)
             up == Ranked(after, module, name, arity)
  <2>0. Callables!Declared(after, {"callable"})
          = {MovedDeclaration(d, names) : d \in Callables!Declared(before, {"callable"})}
    BY <1>4
  <2>1. \A d : d \in there <=> \E b \in here : d = MovedDeclaration(b, names)
    <3>1. \A d : /\ MovedDeclaration(d, names).module = d.module
                 /\ MovedDeclaration(d, names).name = d.name
                 /\ MovedDeclaration(d, names).arity = d.arity
      BY DEF MovedDeclaration
    <3>2. \A d, c : d \in Callables!Callables(c, module) <=>
            d \in Callables!Declared(c, {"callable"}) /\ d.module = module
      BY DEF Callables!Callables
    <3> QED  BY <2>0, <3>1, <3>2
  <2>2. here \subseteq Callables!Declared(before, {"callable"}) /\ top \subseteq here
    BY DEF Callables!Foremost, Callables!Callables, Ranked
  <2>3. up = {MovedDeclaration(d, names) : d \in top}
    <3>1. top = Callables!Foremost(here) /\ up = Callables!Foremost(there)
      BY DEF Ranked
    <3> HIDE DEF here, there, top, up
    <3> QED  BY <2>1, <3>1, ForemostMove
  <2> DEFINE found == Callables!ResolveCallable(before, module, name, arity)
             later == Callables!ResolveCallable(after, module, name, arity)
  <2>4. /\ found.tag = IF top = {} THEN "missing"
                       ELSE IF Cardinality({<<d.parameters, d.role>> : d \in top}) = 1
                            THEN "unique" ELSE "ambiguous"
        /\ Signatures(found.candidates) = Signatures(top)
    BY <1>1, CallableResolved, SMTT(30)
  <2>5. /\ later.tag = IF up = {} THEN "missing"
                       ELSE IF Cardinality({<<d.parameters, d.role>> : d \in up}) = 1
                            THEN "unique" ELSE "ambiguous"
        /\ Signatures(later.candidates) = Signatures(up)
    BY <1>1, CallableResolved, ZenonT(40)
  <2>6. top \in SUBSET Callables!Declared(before, {"callable"})
    BY <2>2
  <2> HIDE DEF top, up, found, later
  <2>7. found.tag = later.tag /\ Signatures(found.candidates) = Signatures(later.candidates)
    BY <1>6, <2>3, <2>4, <2>5, <2>6
  <2> QED  BY <2>7 DEF found, later, Signatures
<1> HIDE DEF Nameless, Meaning
<1>9. \A d \in Callables!Declared(before, kinds) \cup Callables!Declared(after, kinds) :
        IF d.kind = "callable"
        THEN Meaning(Callables!ResolveCallable(before, d.module, d.name, d.arity))
             = Meaning(Callables!ResolveCallable(after, d.module, d.name, d.arity))
        ELSE Nameless(Callables!ResolveApi(before, d.module, d.kind, d.name))
             = Nameless(Callables!ResolveApi(after, d.module, d.kind, d.name))
  BY <1>7, <1>8
<1> QED  BY ONLY <1>9 DEF Callables!NamesDoNotDecide, before, after, Nameless, Meaning

-----------------------------------------------------------------------------
(* The readers of one installation.                                        *)

FiledAs(e, family) ==
  [index |-> e.index, family |-> family, module |-> e.module, folded |-> e.folded,
   path |-> e.path, size |-> e.size, utf8 |-> e.utf8, text |-> e.text]

Holding(p, family) ==
  [name |-> p.name, owner |-> p.owner, patch |-> p.patch, layout |-> p.layout, opens |-> p.opens,
   priority |-> p.priority, parts |-> p.parts, entries |-> {FiledAs(e, family) : e \in p.entries}]

LEMMA FiledAre ==
  ASSUME NEW packages, Callables!IsInstallation(packages), NEW family
  PROVE  Callables!Filed(packages, family) = {Holding(p, family) : p \in packages}
<1>1. ASSUME NEW p \in packages
      PROVE  [p EXCEPT !.entries = {[e EXCEPT !.family = family] : e \in @}] = Holding(p, family)
  <2>1. p = [name |-> p.name, owner |-> p.owner, patch |-> p.patch, layout |-> p.layout,
             opens |-> p.opens, priority |-> p.priority, parts |-> p.parts, entries |-> p.entries]
    BY DEF Callables!IsInstallation, Callables!IsPackage
  <2>2. ASSUME NEW e \in p.entries PROVE [e EXCEPT !.family = family] = FiledAs(e, family)
    <3>1. e = [index |-> e.index, family |-> e.family, module |-> e.module, folded |-> e.folded,
               path |-> e.path, size |-> e.size, utf8 |-> e.utf8, text |-> e.text]
      BY DEF Callables!IsInstallation, Callables!IsPackage
    <3> QED  BY <3>1 DEF FiledAs
  <2>3. {[e EXCEPT !.family = family] : e \in p.entries} = {FiledAs(e, family) : e \in p.entries}
    BY <2>2
  <2>4. [p EXCEPT !.entries = {[e EXCEPT !.family = family] : e \in @}]
          = [p EXCEPT !.entries = {[e EXCEPT !.family = family] : e \in p.entries}]
    BY <2>1
  <2>5. ASSUME NEW S
        PROVE  [p EXCEPT !.entries = S]
                 = [name |-> p.name, owner |-> p.owner, patch |-> p.patch, layout |-> p.layout,
                    opens |-> p.opens, priority |-> p.priority, parts |-> p.parts, entries |-> S]
    BY <2>1
  <2>6. [p EXCEPT !.entries = {[e EXCEPT !.family = family] : e \in @}]
          = [p EXCEPT !.entries = {FiledAs(e, family) : e \in p.entries}]
    BY ONLY <2>3, <2>4
  <2>7. [p EXCEPT !.entries = {FiledAs(e, family) : e \in p.entries}] = Holding(p, family)
    BY <2>5 DEF Holding
  <2> QED  BY ONLY <2>6, <2>7
<1> QED  BY <1>1 DEF Callables!Filed

LEMMA HoldingFacts ==
  ASSUME NEW p, NEW family
  PROVE  /\ Holding(p, family).name = p.name /\ Holding(p, family).owner = p.owner
         /\ Holding(p, family).patch = p.patch /\ Holding(p, family).layout = p.layout
         /\ Holding(p, family).opens = p.opens /\ Holding(p, family).priority = p.priority
         /\ Holding(p, family).parts = p.parts
         /\ \A e : e \in Holding(p, family).entries <=> \E f \in p.entries : e = FiledAs(f, family)
BY DEF Holding

LEMMA FiledFacts ==
  ASSUME NEW e, NEW family
  PROVE  /\ FiledAs(e, family).index = e.index /\ FiledAs(e, family).family = family
         /\ FiledAs(e, family).module = e.module /\ FiledAs(e, family).folded = e.folded
         /\ FiledAs(e, family).path = e.path /\ FiledAs(e, family).size = e.size
         /\ FiledAs(e, family).utf8 = e.utf8 /\ FiledAs(e, family).text = e.text
BY DEF FiledAs

LEMMA HoldingIsInstallation ==
  ASSUME NEW packages, Callables!IsInstallation(packages), NEW family
  PROVE  Callables!IsInstallation({Holding(p, family) : p \in packages})
<1> DEFINE held == {Holding(p, family) : p \in packages}
           f == [p \in packages |-> Holding(p, family)]
<1>1. IsFiniteSet(held)
  <2>1. IsFiniteSet({f[p] : p \in DOMAIN f})
    BY InstallationFacts, FiniteImage
  <2> QED  BY <2>1
<1>2. ASSUME NEW p \in packages PROVE Callables!IsPackage(Holding(p, family))
  <2> DEFINE q == Holding(p, family)
             g == [e \in p.entries |-> FiledAs(e, family)]
  <2>1. q = [name |-> q.name, owner |-> q.owner, patch |-> q.patch, layout |-> q.layout,
             opens |-> q.opens, priority |-> q.priority, parts |-> q.parts, entries |-> q.entries]
    BY DEF Holding
  <2>2. q.name \in Nat /\ q.priority \in Nat
    BY InstallationFacts, HoldingFacts
  <2>3. IsFiniteSet(q.entries)
    <3>1. IsFiniteSet({g[e] : e \in DOMAIN g})
      BY InstallationFacts, FiniteImage
    <3>2. q.entries = {FiledAs(e, family) : e \in p.entries}
      BY DEF Holding
    <3> QED  BY <3>1, <3>2
  <2>4. ASSUME NEW e \in q.entries
        PROVE  /\ e = [index |-> e.index, family |-> e.family, module |-> e.module, folded |-> e.folded,
                       path |-> e.path, size |-> e.size, utf8 |-> e.utf8, text |-> e.text]
               /\ {e.index, e.path, e.size} \subseteq Nat /\ IsFiniteSet(e.text.symbols)
               /\ \A symbol \in e.text.symbols : symbol.line \in Nat
    <3>1. PICK o \in p.entries : e = FiledAs(o, family)
      BY HoldingFacts
    <3>2. e.index = o.index /\ e.path = o.path /\ e.size = o.size /\ e.text = o.text
      BY <3>1, FiledFacts
    <3>3. e = [index |-> e.index, family |-> e.family, module |-> e.module, folded |-> e.folded,
               path |-> e.path, size |-> e.size, utf8 |-> e.utf8, text |-> e.text]
      BY <3>1 DEF FiledAs
    <3> QED  BY <3>2, <3>3, InstallationFacts
  <2>5. ASSUME NEW d \in q.entries, NEW e \in q.entries, d.index = e.index PROVE d = e
    <3>1. PICK a \in p.entries : d = FiledAs(a, family)
      BY HoldingFacts
    <3>2. PICK b \in p.entries : e = FiledAs(b, family)
      BY HoldingFacts
    <3>3. a.index = b.index
      BY <2>5, <3>1, <3>2, FiledFacts
    <3>4. a = b
      BY <3>3 DEF Callables!IsInstallation, Callables!IsPackage
    <3> QED  BY <3>1, <3>2, <3>4
  <2> HIDE DEF q
  <2> QED  BY <2>1, <2>2, <2>3, <2>4, <2>5, SameNotions DEF Callables!IsPackage, q
<1>3. ASSUME NEW p \in held, NEW q \in held, p.name = q.name PROVE p = q
  <2>1. PICK a \in packages : p = Holding(a, family)
    OBVIOUS
  <2>2. PICK b \in packages : q = Holding(b, family)
    OBVIOUS
  <2>3. a.name = b.name
    BY <1>3, <2>1, <2>2, HoldingFacts
  <2> QED  BY <2>1, <2>2, <2>3 DEF Callables!IsInstallation
<1> HIDE DEF f
<1> QED  BY <1>1, <1>2, <1>3, SameNotions DEF Callables!IsInstallation

(* Each chosen entry is a source of its own.                               *)
LEMMA SourcesDiffer ==
  ASSUME NEW packages, Callables!IsInstallation(packages), NEW bases, NEW family,
         NEW pe \in Chosen(packages, bases, family), NEW qe \in Chosen(packages, bases, family),
         Callables!Source(pe[1], pe[2], pe[2].module) = Callables!Source(qe[1], qe[2], qe[2].module)
  PROVE  pe = qe
<1>1. PICK p \in packages : \E e \in p.entries : pe = <<p, e>>
  BY ChosenFacts
<1>2. PICK e \in p.entries : pe = <<p, e>>
  BY <1>1
<1>3. PICK q \in packages : \E f \in q.entries : qe = <<q, f>>
  BY ChosenFacts
<1>4. PICK f \in q.entries : qe = <<q, f>>
  BY <1>3
<1>5. p.name = q.name /\ e.index = f.index
  BY <1>2, <1>4 DEF Callables!Source
<1>6. p = q
  BY <1>5 DEF Callables!IsInstallation
<1>7. e = f
  BY <1>5, <1>6 DEF Callables!IsInstallation, Callables!IsPackage
<1> QED  BY <1>2, <1>4, <1>6, <1>7

LEMMA RejectedIsReplaced ==
  ASSUME NEW catalog, Callables!IsCatalog(catalog), Callables!ParseFacts(catalog).relevant = 0,
         NEW s \in catalog, ~s.text.parses
  PROVE  \E t \in Callables!ParseFacts(catalog).records :
           t.module = s.module /\ t.entry = s.entry /\ t.priority > s.priority
<1> DEFINE here == Callables!SourcesFor(catalog, s.module, s.entry)
           top == Callables!Foremost(here)
           relevant == {r \in catalog : /\ ~r.text.parses
                          /\ r \in Callables!ResolveSource(catalog, r.module, r.entry).candidates}
<1>1. IsFiniteSet(catalog) /\ \A t \in catalog : t.priority \in Nat
  BY SameNotions DEF Callables!IsCatalog
<1>2. relevant = {}
  <2>1. IsFiniteSet(relevant)
    BY <1>1, FS_Subset
  <2>2. relevant = {r \in {r \in catalog : ~r.text.parses} :
                      r \in Callables!ResolveSource(catalog, r.module, r.entry).candidates}
    OBVIOUS
  <2>3. Cardinality(relevant) = 0
    BY <2>2, SameNotions DEF Callables!ParseFacts
  <2> QED  BY <2>1, <2>3, FS_EmptySet
<1>3. \A t : t \in here <=> t \in catalog /\ t.module = s.module /\ t.entry = s.entry
  BY DEF Callables!SourcesFor
<1>4. \A t : t \in top <=> t \in here /\ \A u \in here : u.priority <= t.priority
  BY DEF Callables!Foremost
<1>5. \A t \in here : Callables!ResolveSource(catalog, t.module, t.entry).candidates = top
  BY <1>1, <1>3, SourceResolved DEF Verdict
<1>6. \A t \in top : t.text.parses
  BY <1>2, <1>3, <1>4, <1>5
<1>7. IsFiniteSet(here) /\ s \in here
  BY <1>1, <1>3, FS_Subset DEF Callables!SourcesFor
<1>8. top # {}
  <2>1. \A t \in here : t.priority \in Nat
    BY <1>1, <1>3
  <2> HIDE DEF here
  <2> QED  BY <1>7, <2>1, ForemostExists
<1> HIDE DEF here, top
<1>9. PICK t \in top : TRUE
  BY <1>8
<1>10. PICK u \in here : ~(u.priority <= s.priority)
  BY <1>4, <1>6, <1>7
<1>11. t.priority > s.priority
  <2>1. u.priority \in Nat /\ s.priority \in Nat /\ t.priority \in Nat /\ u.priority <= t.priority
    BY <1>1, <1>3, <1>4, <1>9, <1>10
  <2> QED  BY <1>10, <2>1
<1>12. t \in Callables!ParseFacts(catalog).records
  BY <1>3, <1>4, <1>6, <1>9 DEF Callables!ParseFacts
<1> QED  BY <1>3, <1>4, <1>9, <1>11, <1>12

LEMMA StatsReadAlike ==
  ASSUME NEW packages, Callables!IsInstallation(packages), NEW module,
         \A p \in packages : \A e, f \in p.entries :
           /\ e.folded = module <=> e.module = module
           /\ e.path = f.path => e = f
  PROVE  Callables!ReadStats(packages, {[name |-> module, folded |-> module]})
           = Callables!ReadSources(packages, {module}, "stats")
<1> DEFINE bases == {[name |-> module, folded |-> module]}
           selected == Callables!Candidates(packages, {module})
           Module(e) == (CHOOSE b \in bases : b.folded = e.folded).name
           entries == {pe \in Callables!EntriesOf(selected, "stats") :
                         \E b \in bases : b.folded = pe[2].folded}
           chosen == {pe \in Callables!EntriesOf(selected, "stats") : pe[2].module \in {module}}
           Final(p, e) == CHOOSE f \in p.entries :
             f.path = e.path /\ \A g \in p.entries : g.path = e.path => g.index <= f.index
           Found(pe) == [Callables!Source(pe[1], Final(pe[1], pe[2]), Module(pe[2])) EXCEPT !.index = pe[2].index]
           Of(pe) == Callables!Source(pe[1], pe[2], pe[2].module)
<1>1. {b.name : b \in bases} = {module}
  OBVIOUS
<1>2. ASSUME NEW pe \in Callables!EntriesOf(selected, "stats")
      PROVE  \E p \in packages : \E e \in p.entries : pe = <<p, e>>
  BY EntriesFacts DEF Callables!Candidates
<1>3. entries = chosen
  BY <1>2
<1>4. ASSUME NEW pe \in chosen PROVE Module(pe[2]) = pe[2].module /\ Found(pe) = Of(pe)
  <2>1. PICK p \in packages : \E e \in p.entries : pe = <<p, e>>
    BY <1>2
  <2>2. PICK e \in p.entries : pe = <<p, e>>
    BY <2>1
  <2>3. e.module = module /\ e.folded = module
    BY <2>2
  <2>4. Module(e) = module
    <3>1. (CHOOSE b \in bases : b.folded = e.folded) = [name |-> module, folded |-> module]
      BY <2>3
    <3>2. [name |-> module, folded |-> module].name = module
      OBVIOUS
    <3>3. Module(e) = (CHOOSE b \in bases : b.folded = e.folded).name
      OBVIOUS
    <3> HIDE DEF Module
    <3> QED  BY <3>1, <3>2, <3>3, Zenon
  <2>5. Final(p, e) = e
    <3>1. e.path = e.path /\ \A g \in p.entries : g.path = e.path => g.index <= e.index
      BY InstallationFacts
    <3>2. \A f \in p.entries : f.path = e.path => f = e
      OBVIOUS
    <3> QED  BY <3>1, <3>2
  <2> HIDE DEF Module, Final
  <2>6. Found(pe) = [Callables!Source(p, e, module) EXCEPT !.index = e.index]
    BY <2>2, <2>4, <2>5
  <2>7. Of(pe) = Callables!Source(p, e, module)
    BY <2>2, <2>3
  <2>8. [Callables!Source(p, e, module) EXCEPT !.index = e.index] = Callables!Source(p, e, module)
    BY DEF Callables!Source
  <2> QED  BY <2>2, <2>3, <2>4, <2>6, <2>7, <2>8
<1> HIDE DEF Found, Of, Module, entries, chosen
<1>5. {Found(pe) : pe \in entries} = {Of(pe) : pe \in chosen} /\ \A pe \in entries : pe[2].module = Module(pe[2])
  BY <1>3, <1>4
<1>6. Callables!ReadStats(packages, bases)
        = IF Callables!Readable(selected, entries) /\ \A pe \in entries : pe[2].module = Module(pe[2])
          THEN Callables!Read({Found(pe) : pe \in entries}) ELSE Callables!Failed
  BY <1>1 DEF Callables!ReadStats, Found, Module, entries
<1>7. Callables!ReadSources(packages, {module}, "stats")
        = IF Callables!Readable(selected, chosen) THEN Callables!Read({Of(pe) : pe \in chosen}) ELSE Callables!Failed
  BY DEF Callables!ReadSources, Of, chosen
<1> QED  BY <1>3, <1>5, <1>6, <1>7

LEMMA InventoryCounts ==
  ASSUME NEW packages, Callables!IsInstallation(packages), NEW module,
         Callables!Readable(packages, Callables!EntriesOf(packages, "thoth")),
         Callables!Candidates(packages, {module}) = packages,
         {pe[2].module : pe \in Callables!EntriesOf(packages, "thoth")} \subseteq {module}
  PROVE  LET thoth == Callables!ReadSources(packages, {module}, "thoth").sources IN
         /\ Callables!Inventory(packages).entries = Cardinality(thoth)
         /\ Callables!Inventory(packages).sourceRejections = Callables!ParseFacts(thoth).rejected
<1> DEFINE entries == Callables!EntriesOf(packages, "thoth")
           thoth == Callables!ReadSources(packages, {module}, "thoth").sources
           parsed == {pe \in entries : (pe[2].size <= MaxEntry) /\ pe[2].utf8 /\ pe[2].text.parses}
           Of(pe) == Callables!Source(pe[1], pe[2], pe[2].module)
<1>1. entries = Chosen(packages, {module}, "thoth")
  BY DEF Chosen
<1>2. thoth = {Of(pe) : pe \in entries}
  BY <1>1, SourcesAre
<1>3. IsFiniteSet(entries) /\ \A pe, qe \in entries : Of(pe) = Of(qe) => pe = qe
  BY <1>1, ChosenFinite, SourcesDiffer
<1>4. {p \in {p \in packages : p.layout # "unreadable"} : p.layout = "supported" /\ p.opens} = packages
  BY DEF Callables!Readable
<1>5. /\ Callables!Inventory(packages).entries = Cardinality(entries)
      /\ Callables!Inventory(packages).sourceRejections = Cardinality(entries \ parsed)
  BY <1>4, SameNotions DEF Callables!Inventory
<1>6. entries \ parsed = {pe \in entries : ~pe[2].text.parses}
  BY DEF Callables!Readable
<1>7. Callables!ParseFacts(thoth).rejected = Cardinality({s \in thoth : ~s.text.parses})
  BY SameNotions DEF Callables!ParseFacts
<1>8. \A pe : Of(pe).text = pe[2].text
  BY DEF Callables!Source
<1> HIDE DEF entries, thoth, parsed, Of
<1>9. Cardinality(thoth) = Cardinality(entries)
  <2> DEFINE f == [pe \in entries |-> Of(pe)]
  <2>1. IsFiniteSet(DOMAIN f) /\ (\A x, y \in DOMAIN f : f[x] = f[y] => x = y) /\ DOMAIN f = entries
    BY <1>3
  <2>2. thoth = {f[x] : x \in DOMAIN f}
    BY <1>2
  <2> HIDE DEF f
  <2> QED  BY <2>1, <2>2, SameSize
<1>10. Cardinality({s \in thoth : ~s.text.parses}) = Cardinality(entries \ parsed)
  <2> DEFINE f == [pe \in entries \ parsed |-> Of(pe)]
  <2>1. IsFiniteSet(DOMAIN f) /\ (\A x, y \in DOMAIN f : f[x] = f[y] => x = y) /\ DOMAIN f = entries \ parsed
    BY <1>3, FS_Subset
  <2>2. {s \in thoth : ~s.text.parses} = {f[x] : x \in DOMAIN f}
    BY <1>2, <1>6, <1>8
  <2> HIDE DEF f
  <2> QED  BY <2>1, <2>2, SameSize
<1> QED  BY <1>5, <1>7, <1>9, <1>10 DEF thoth

LEMMA InstallationReadAlike ==
  ASSUME NEW packages, Callables!IsInstallation(packages), NEW module
  PROVE  Callables!ReadersAgree(packages, module)
<1> DEFINE In(family) == Callables!Filed(packages, family)
           thoth == Callables!ReadSources(In("thoth"), {module}, "thoth").sources
           plain == \A p \in packages : \A e, f \in p.entries :
                      /\ e.folded = module <=> e.module = module
                      /\ e.path = f.path => e = f
<1>1. ASSUME NEW family
      PROVE  /\ In(family) = {Holding(p, family) : p \in packages}
             /\ Callables!IsInstallation(In(family))
  <2>1. In(family) = {Holding(p, family) : p \in packages}
    BY FiledAre
  <2> HIDE DEF In
  <2> QED  BY <2>1, HoldingIsInstallation
<1> HIDE DEF In
<1>2. ASSUME plain
      PROVE  Callables!ReadStats(In("stats"), {[name |-> module, folded |-> module]})
               = Callables!ReadSources(In("stats"), {module}, "stats")
  <2>1. ASSUME NEW p \in In("stats"), NEW e \in p.entries, NEW f \in p.entries
        PROVE  /\ e.folded = module <=> e.module = module
               /\ e.path = f.path => e = f
    <3>1. PICK o \in packages : p = Holding(o, "stats")
      BY <1>1
    <3>2. PICK a \in o.entries : e = FiledAs(a, "stats")
      BY <3>1, HoldingFacts
    <3>3. PICK b \in o.entries : f = FiledAs(b, "stats")
      BY <3>1, HoldingFacts
    <3>4. (a.folded = module <=> a.module = module) /\ (a.path = b.path => a = b)
      BY <1>2
    <3> QED  BY <3>2, <3>3, <3>4, FiledFacts
  <2>2. Callables!IsInstallation(In("stats"))
    BY <1>1
  <2> QED  BY <2>1, <2>2, StatsReadAlike
<1>3. ASSUME Callables!Readable(In("thoth"), Callables!EntriesOf(In("thoth"), "thoth")),
             Callables!Candidates(packages, {module}) = packages,
             {pe[2].module : pe \in Callables!EntriesOf(In("thoth"), "thoth")} \subseteq {module}
      PROVE  /\ Callables!Inventory(In("thoth")).entries = Cardinality(thoth)
             /\ Callables!Inventory(In("thoth")).sourceRejections = Callables!ParseFacts(thoth).rejected
  <2>1. Callables!Candidates(In("thoth"), {module}) = In("thoth")
    <3>1. \A p \in packages : p.patch \/ p.owner = module
      BY <1>3 DEF Callables!Candidates
    <3>2. ASSUME NEW q \in In("thoth") PROVE q.patch \/ q.owner = module
      <4>1. PICK p \in packages : q = Holding(p, "thoth")
        BY <1>1
      <4> QED  BY <3>1, <4>1, HoldingFacts
    <3> QED  BY <3>2 DEF Callables!Candidates
  <2>2. Callables!IsInstallation(In("thoth"))
    BY <1>1
  <2> QED  BY <1>3, <2>1, <2>2, InventoryCounts
<1>4. ASSUME Callables!ParseFacts(thoth).relevant = 0, NEW s \in thoth, ~s.text.parses
      PROVE  \E t \in Callables!ParseFacts(thoth).records :
               t.module = s.module /\ t.entry = s.entry /\ t.priority > s.priority
  <2>1. Callables!IsCatalog(thoth)
    BY <1>1, SourcesAreCatalog
  <2> HIDE DEF thoth
  <2> QED  BY <1>4, <2>1, RejectedIsReplaced
<1> HIDE DEF thoth, plain
<1>5. /\ plain => Callables!ReadStats(In("stats"), {[name |-> module, folded |-> module]})
                    = Callables!ReadSources(In("stats"), {module}, "stats")
      /\ /\ Callables!Readable(In("thoth"), Callables!EntriesOf(In("thoth"), "thoth"))
         /\ Callables!Candidates(packages, {module}) = packages
         /\ {pe[2].module : pe \in Callables!EntriesOf(In("thoth"), "thoth")} \subseteq {module}
         => /\ Callables!Inventory(In("thoth")).entries = Callables!Cardinality(thoth)
            /\ Callables!Inventory(In("thoth")).sourceRejections = Callables!ParseFacts(thoth).rejected
      /\ Callables!ParseFacts(thoth).relevant = 0 =>
           \A s \in thoth : ~s.text.parses =>
             \E t \in Callables!ParseFacts(thoth).records :
               t.module = s.module /\ t.entry = s.entry /\ t.priority > s.priority
  BY <1>2, <1>3, <1>4, SameNotions
<1> QED  BY ONLY <1>5 DEF Callables!ReadersAgree, In, thoth, plain

LEMMA EvidenceHolds ==
  ASSUME InstallationInput
  PROVE  InstalledEvidence
<1> SUFFICES ASSUME input.tag = "installed" PROVE InstalledEvidence
  BY DEF InstalledEvidence
<1>1. PICK names \in Renamings : /\ input.packages \in Installations
                                 /\ input.renamed = Callables!Renamed(input.packages, names)
  BY DEF InstallationInput
<1>2. Callables!IsInstallation(input.packages) /\ AreNames(input.packages, names)
  BY <1>1, ReadersAssumption DEF AreNames
<1>3. Callables!NamesDoNotDecide(input.packages, input.renamed, input.bases, "osiris",
                                 {"callable", "function"})
  BY <1>1, <1>2, NamesDecideNothing
<1>4. Callables!NothingStandsAbove(input.packages, input.bases, "osiris", {"callable", "function"})
  BY <1>2, SourcesAreCatalog, NothingAbove
<1>5. \A module \in input.bases : Callables!ReadersAgree(input.packages, module)
  BY <1>2, InstallationReadAlike
<1> QED  BY <1>3, <1>4, <1>5 DEF InstalledEvidence

-----------------------------------------------------------------------------
(* Least and highest numbers.                                              *)

LEMMA LeastOfIn ==
  ASSUME NEW S \in SUBSET Nat, S # {}
  PROVE  Callables!LeastOf(S) \in S /\ \A x \in S : Callables!LeastOf(S) <= x
<1>1. PICK n \in S : TRUE
  OBVIOUS
<1> DEFINE T == S \cap (0 .. n)
<1>2. IsFiniteSet(T) /\ T \in SUBSET Nat /\ T # {}
  <2>1. n \in T /\ T \subseteq 0 .. n /\ T \in SUBSET Nat
    BY <1>1
  <2>2. IsFiniteSet(0 .. n)
    BY <1>1, FS_Interval
  <2> HIDE DEF T
  <2> QED  BY <2>1, <2>2, FS_Subset
<1>3. PICK x \in T : \A y \in T : x <= y
  <2> HIDE DEF T
  <2> QED  BY <1>2, LeastIn
<1>4. ASSUME NEW y \in S PROVE x <= y
  <2>1. CASE y <= n
    BY <1>3, <2>1
  <2>2. CASE ~(y <= n)
    BY <1>1, <1>3, <2>2
  <2> QED  BY <2>1, <2>2
<1>5. \E z \in S : \A y \in S : z <= y
  BY <1>3, <1>4
<1> QED  BY <1>5 DEF Callables!LeastOf

LEMMA HighestIn ==
  ASSUME NEW S \in SUBSET Nat, IsFiniteSet(S), S # {}
  PROVE  Callables!Highest(S) \in S /\ \A x \in S : x <= Callables!Highest(S)
BY GreatestIn DEF Callables!Highest

LEMMA HighestIs ==
  ASSUME NEW S \in SUBSET Nat, NEW x \in S, \A y \in S : y <= x
  PROVE  Callables!Highest(S) = x
<1>1. \A y \in S : (\A z \in S : z <= y) => y = x
  <2> SUFFICES ASSUME NEW y \in S, \A z \in S : z <= y PROVE y = x
    OBVIOUS
  <2>1. x \in Nat /\ y \in Nat /\ x <= y /\ y <= x
    OBVIOUS
  <2> QED  BY <2>1
<1> QED  BY <1>1 DEF Callables!Highest

LEMMA SingleOf ==
  ASSUME NEW S, IsFiniteSet(S), Cardinality(S) = 1, NEW x \in S
  PROVE  S = {x}
<1>1. PICK y : S = {y}
  BY FS_Singleton
<1> QED  BY <1>1

LEMMA PositionalLength ==
  ASSUME NEW n \in Nat
  PROVE  Len(Callables!Positional(n)) = n
BY DEF Callables!Positional

-----------------------------------------------------------------------------
(* Declarations of goals.                                                  *)

LooseAt(w, key, rank) ==
  {r.declaration : r \in {r \in Callables!RankDeclarations(w, rank, Callables!CompletableCallables) :
                            Callables!Key(r.declaration) = key}}

AreComplete(w) == \A p \in DOMAIN w.files : ~Callables!Incomplete(w.files[p])

LEMMA LooseOfIs ==
  ASSUME NEW w, NEW key
  PROVE  LET having == {rank \in w.ranks : LooseAt(w, key, rank) # {}} IN
         Callables!LooseOf(w, key)
           = IF having = {} THEN {} ELSE LooseAt(w, key, Callables!Highest(having))
BY DEF Callables!LooseOf, LooseAt

LEMMA LooseAtFacts ==
  ASSUME NEW w, NEW key, NEW rank, NEW d
  PROVE  d \in LooseAt(w, key, rank) <=>
           \E p \in DOMAIN w.files : /\ w.files[p].rank = rank
                                     /\ d \in Callables!CompletableCallables(w.files[p])
                                     /\ Callables!Key(d) = key
<1>1. \A r : r \in Callables!RankDeclarations(w, rank, Callables!CompletableCallables) <=>
        \E p \in DOMAIN w.files : /\ w.files[p].rank = rank
                                  /\ \E c \in Callables!CompletableCallables(w.files[p]) :
                                       r = [path |-> p, declaration |-> c]
  BY DEF Callables!RankDeclarations
<1>2. d \in LooseAt(w, key, rank) <=>
        \E r : /\ r \in Callables!RankDeclarations(w, rank, Callables!CompletableCallables)
               /\ Callables!Key(r.declaration) = key /\ d = r.declaration
  BY DEF LooseAt
<1>3. ASSUME NEW p \in DOMAIN w.files, w.files[p].rank = rank,
             d \in Callables!CompletableCallables(w.files[p]), Callables!Key(d) = key
      PROVE  d \in LooseAt(w, key, rank)
  <2> DEFINE r == [path |-> p, declaration |-> d]
  <2>1. r \in Callables!RankDeclarations(w, rank, Callables!CompletableCallables)
    BY <1>1, <1>3
  <2> QED  BY <1>2, <1>3, <2>1
<1>4. ASSUME d \in LooseAt(w, key, rank)
      PROVE  \E p \in DOMAIN w.files : /\ w.files[p].rank = rank
                                       /\ d \in Callables!CompletableCallables(w.files[p])
                                       /\ Callables!Key(d) = key
  <2>1. PICK r : /\ r \in Callables!RankDeclarations(w, rank, Callables!CompletableCallables)
                 /\ Callables!Key(r.declaration) = key /\ d = r.declaration
    BY <1>2, <1>4
  <2>2. PICK p \in DOMAIN w.files : /\ w.files[p].rank = rank
                                    /\ \E c \in Callables!CompletableCallables(w.files[p]) :
                                         r = [path |-> p, declaration |-> c]
    BY <1>1, <2>1
  <2> QED  BY <2>1, <2>2
<1> QED  BY <1>3, <1>4

LEMMA CandidateFacts ==
  ASSUME NEW w, NEW name, NEW c
  PROVE  c \in Callables!LooseCandidates(w, name) <=>
           \E p \in DOMAIN w.files :
             /\ w.files[p].rank \in w.ranks
             /\ \E d \in Callables!VisibleCallables(w.files[p]) :
                  /\ d.name = name /\ d.kind \in {Callables!Procedure, Callables!Query}
                  /\ c = [rank |-> w.files[p].rank, path |-> p, declaration |-> d]
<1> DEFINE At(rank) == Callables!RankDeclarations(w, rank, Callables!VisibleCallables)
<1>1. \A rank, r : r \in At(rank) <=>
        \E p \in DOMAIN w.files : /\ w.files[p].rank = rank
                                  /\ \E d \in Callables!VisibleCallables(w.files[p]) :
                                       r = [path |-> p, declaration |-> d]
  BY DEF Callables!RankDeclarations
<1>2. c \in Callables!LooseCandidates(w, name) <=>
        \E rank \in w.ranks : \E r \in At(rank) :
          /\ r.declaration.name = name /\ r.declaration.kind \in {Callables!Procedure, Callables!Query}
          /\ c = [rank |-> rank, path |-> r.path, declaration |-> r.declaration]
  BY DEF Callables!LooseCandidates
<1> HIDE DEF At
<1>3. ASSUME c \in Callables!LooseCandidates(w, name)
      PROVE  \E p \in DOMAIN w.files :
               /\ w.files[p].rank \in w.ranks
               /\ \E d \in Callables!VisibleCallables(w.files[p]) :
                    /\ d.name = name /\ d.kind \in {Callables!Procedure, Callables!Query}
                    /\ c = [rank |-> w.files[p].rank, path |-> p, declaration |-> d]
  <2>1. PICK rank \in w.ranks : \E r \in At(rank) :
          /\ r.declaration.name = name /\ r.declaration.kind \in {Callables!Procedure, Callables!Query}
          /\ c = [rank |-> rank, path |-> r.path, declaration |-> r.declaration]
    BY <1>2, <1>3
  <2>2. PICK r \in At(rank) :
          /\ r.declaration.name = name /\ r.declaration.kind \in {Callables!Procedure, Callables!Query}
          /\ c = [rank |-> rank, path |-> r.path, declaration |-> r.declaration]
    BY <2>1
  <2>3. PICK p \in DOMAIN w.files : /\ w.files[p].rank = rank
                                    /\ \E d \in Callables!VisibleCallables(w.files[p]) :
                                         r = [path |-> p, declaration |-> d]
    BY <1>1, <2>2
  <2>4. PICK d \in Callables!VisibleCallables(w.files[p]) : r = [path |-> p, declaration |-> d]
    BY <2>3
  <2>5. r.path = p /\ r.declaration = d
    BY <2>4
  <2> QED  BY <2>2, <2>3, <2>5
<1>4. ASSUME NEW p \in DOMAIN w.files, w.files[p].rank \in w.ranks,
             NEW d \in Callables!VisibleCallables(w.files[p]),
             d.name = name, d.kind \in {Callables!Procedure, Callables!Query},
             c = [rank |-> w.files[p].rank, path |-> p, declaration |-> d]
      PROVE  c \in Callables!LooseCandidates(w, name)
  <2> DEFINE r == [path |-> p, declaration |-> d]
  <2>1. r \in At(w.files[p].rank) /\ r.path = p /\ r.declaration = d
    BY <1>1, <1>4
  <2> HIDE DEF r
  <2> QED  BY <1>2, <1>4, <2>1
<1> QED  BY <1>3, <1>4

LEMMA SettledAlike ==
  ASSUME NEW w, Callables!IsWorkspace(w), AreComplete(w), NEW p \in DOMAIN w.files
  PROVE  Callables!CompletableCallables(w.files[p]) = Callables!VisibleCallables(w.files[p])
<1> DEFINE f == w.files[p]
<1>1. ~Callables!Incomplete(f) /\ (f.open = "closed" => f.document = {})
  BY DEF AreComplete, Callables!IsWorkspace
<1> HIDE DEF f
<1>2. Callables!CompletableCallables(f) = Callables!VisibleCallables(f)
  BY <1>1 DEF Callables!CompletableCallables, Callables!VisibleCallables, Callables!IsOpen
<1> QED  BY <1>2 DEF f

LEMMA GoalDeclarations ==
  ASSUME NEW w, Callables!IsWorkspace(w), NEW p \in DOMAIN w.files,
         NEW d \in Callables!VisibleCallables(w.files[p])
  PROVE  Callables!IsDeclaration(d)
BY DEF Callables!IsWorkspace, Callables!VisibleCallables

LEMMA KeyIs ==
  ASSUME NEW d, d.kind # "callable", NEW name, NEW arity
  PROVE  Callables!Key(d) = <<"callable", name, arity>>
           <=> d.kind \in {Callables!Procedure, Callables!Query} /\ d.name = name /\ d.arity = arity
BY DEF Callables!Key

LEMMA CandidatesAre ==
  ASSUME NEW w, Callables!IsWorkspace(w), NEW name, NEW c \in Callables!LooseCandidates(w, name)
  PROVE  /\ c.rank \in w.ranks /\ c.rank \in Nat
         /\ c.declaration.kind \in {Callables!Procedure, Callables!Query} /\ c.declaration.name = name
         /\ c.declaration.parameters \in Seq(STRING) /\ c.declaration.arity \in Nat
         /\ Len(c.declaration.parameters) = c.declaration.arity
<1>1. PICK p \in DOMAIN w.files :
        /\ w.files[p].rank \in w.ranks
        /\ \E d \in Callables!VisibleCallables(w.files[p]) :
             /\ d.name = name /\ d.kind \in {Callables!Procedure, Callables!Query}
             /\ c = [rank |-> w.files[p].rank, path |-> p, declaration |-> d]
  BY CandidateFacts
<1>2. PICK d \in Callables!VisibleCallables(w.files[p]) :
        /\ d.name = name /\ d.kind \in {Callables!Procedure, Callables!Query}
        /\ c = [rank |-> w.files[p].rank, path |-> p, declaration |-> d]
  BY <1>1
<1>3. Callables!IsDeclaration(d)
  BY GoalDeclarations
<1>4. d.parameters \in Seq(STRING) /\ Len(d.parameters) = d.arity
  BY <1>2, <1>3 DEF Callables!IsDeclaration
<1>5. Len(d.parameters) \in Nat
  BY <1>4
<1>6. c.rank \in w.ranks /\ c.rank \in Nat /\ c.declaration = d
  BY <1>1, <1>2 DEF Callables!IsWorkspace
<1> QED  BY <1>2, <1>4, <1>5, <1>6

(* Completion and signature help see the same declarations.                *)
LEMMA LooseShared ==
  ASSUME NEW w, Callables!IsWorkspace(w), AreComplete(w), NEW name, NEW arity,
         NEW rank \in w.ranks, NEW d
  PROVE  d \in LooseAt(w, <<"callable", name, arity>>, rank) <=>
           \E c \in Callables!LooseCandidates(w, name) :
             c.rank = rank /\ c.declaration = d /\ d.arity = arity
<1> DEFINE key == <<"callable", name, arity>>
<1>1. ASSUME d \in LooseAt(w, key, rank)
      PROVE  \E c \in Callables!LooseCandidates(w, name) :
               c.rank = rank /\ c.declaration = d /\ d.arity = arity
  <2>1. PICK p \in DOMAIN w.files : /\ w.files[p].rank = rank
                                    /\ d \in Callables!CompletableCallables(w.files[p])
                                    /\ Callables!Key(d) = key
    BY <1>1, LooseAtFacts
  <2>2. d \in Callables!VisibleCallables(w.files[p])
    BY <2>1, SettledAlike
  <2>3. d.kind # "callable"
    BY <2>2, GoalDeclarations DEF Callables!IsDeclaration
  <2>4. d.kind \in {Callables!Procedure, Callables!Query} /\ d.name = name /\ d.arity = arity
    BY <2>1, <2>3, KeyIs
  <2> DEFINE c == [rank |-> w.files[p].rank, path |-> p, declaration |-> d]
  <2>5. c \in Callables!LooseCandidates(w, name)
    BY <2>1, <2>2, <2>4, CandidateFacts
  <2> QED  BY <2>1, <2>4, <2>5
<1>2. ASSUME NEW c \in Callables!LooseCandidates(w, name),
             c.rank = rank, c.declaration = d, d.arity = arity
      PROVE  d \in LooseAt(w, key, rank)
  <2>1. PICK p \in DOMAIN w.files :
          /\ w.files[p].rank \in w.ranks
          /\ \E o \in Callables!VisibleCallables(w.files[p]) :
               /\ o.name = name /\ o.kind \in {Callables!Procedure, Callables!Query}
               /\ c = [rank |-> w.files[p].rank, path |-> p, declaration |-> o]
    BY CandidateFacts
  <2>2. PICK o \in Callables!VisibleCallables(w.files[p]) :
          /\ o.name = name /\ o.kind \in {Callables!Procedure, Callables!Query}
          /\ c = [rank |-> w.files[p].rank, path |-> p, declaration |-> o]
    BY <2>1
  <2>3. o = d /\ w.files[p].rank = rank
    BY <1>2, <2>2
  <2>4. d.kind # "callable"
    BY <2>3, GoalDeclarations DEF Callables!IsDeclaration
  <2>5. Callables!Key(d) = key
    BY <1>2, <2>2, <2>3, <2>4, KeyIs
  <2>6. d \in Callables!CompletableCallables(w.files[p])
    BY <2>3, SettledAlike
  <2> QED  BY <2>3, <2>5, <2>6, LooseAtFacts
<1> QED  BY <1>1, <1>2

LEMMA LooseFinite ==
  ASSUME NEW w, Callables!IsWorkspace(w), NEW key, NEW rank
  PROVE  IsFiniteSet(LooseAt(w, key, rank))
<1> DEFINE Of(p) == w.files[p].disk \cup w.files[p].document
           f == [p \in DOMAIN w.files |-> Of(p)]
           all == UNION {f[p] : p \in DOMAIN f}
<1>0. IsFiniteSet(DOMAIN w.files) /\ \A p \in DOMAIN w.files : IsFiniteSet(Of(p))
  <2>1. /\ Callables!IsFiniteSet(DOMAIN w.files)
        /\ \A p \in DOMAIN w.files : Callables!IsFiniteSet(Of(p))
    BY DEF Callables!IsWorkspace
  <2> QED  BY <2>1, SameNotions
<1>1. IsFiniteSet(all)
  <2>1. IsFiniteSet({f[p] : p \in DOMAIN f})
    BY <1>0, FiniteImage
  <2>2. \A T \in {f[p] : p \in DOMAIN f} : IsFiniteSet(T)
    BY <1>0
  <2> HIDE DEF f
  <2> QED  BY <2>1, <2>2, FS_UNION
<1>2. ASSUME NEW d \in LooseAt(w, key, rank) PROVE d \in all
  <2>1. PICK p \in DOMAIN w.files : d \in Callables!CompletableCallables(w.files[p])
    BY LooseAtFacts
  <2>2. d \in Of(p)
    BY <2>1 DEF Callables!CompletableCallables
  <2> QED  BY <2>2
<1> HIDE DEF all
<1> QED  BY <1>1, <1>2, FS_Subset

LEMMA AritiesAre ==
  ASSUME NEW w, Callables!IsWorkspace(w), NEW name, NEW argument, NEW a
  PROVE  /\ a \in Callables!LooseArities(w, name, argument) <=>
              \E c \in Callables!LooseCandidates(w, name) :
                c.declaration.arity = a /\ (a = 0 \/ a > argument)
         /\ Callables!LooseArities(w, name, argument) \in SUBSET Nat
<1>1. \A c \in Callables!LooseCandidates(w, name) : c.declaration.arity \in Nat
  BY CandidatesAre
<1> QED  BY <1>1 DEF Callables!LooseArities

(* Signature help shows what completion takes from the goals.              *)
LEMMA LooseHelpIs ==
  ASSUME NEW w, Callables!IsWorkspace(w), AreComplete(w), NEW name, NEW argument,
         Callables!LooseArities(w, name, argument) # {}
  PROVE  LET arity == Callables!LeastOf(Callables!LooseArities(w, name, argument))
             found == {c \in Callables!LooseCandidates(w, name) : c.declaration.arity = arity}
             help == Callables!DeclaredParameters(found, arity)
             here == Callables!LooseOf(w, <<"callable", name, arity>>)
             lists == {d.parameters : d \in here}
         IN  /\ arity \in Nat /\ Len(help) = arity
             /\ here # {} /\ IsFiniteSet(here)
             /\ \A d \in here : /\ d.kind \in {Callables!Procedure, Callables!Query}
                                /\ Len(d.parameters) = arity
             /\ help = IF Cardinality(lists) = 1 THEN CHOOSE l \in lists : TRUE
                       ELSE Callables!Positional(arity)
<1> DEFINE arity == Callables!LeastOf(Callables!LooseArities(w, name, argument))
           found == {c \in Callables!LooseCandidates(w, name) : c.declaration.arity = arity}
           help == Callables!DeclaredParameters(found, arity)
           key == <<"callable", name, arity>>
           here == Callables!LooseOf(w, key)
           lists == {d.parameters : d \in here}
           having == {rank \in w.ranks : LooseAt(w, key, rank) # {}}
           top == {f \in found : \A g \in found : g.rank <= f.rank}
<1>1. arity \in Callables!LooseArities(w, name, argument) /\ arity \in Nat
  <2>1. Callables!LooseArities(w, name, argument) \in SUBSET Nat
    BY AritiesAre
  <2> QED  BY <2>1, LeastOfIn
<1>2. found # {}
  BY <1>1, AritiesAre
<1> HIDE DEF arity
<1>3. \A c \in found : /\ c.rank \in w.ranks /\ c.rank \in Nat
                       /\ c.declaration.kind \in {Callables!Procedure, Callables!Query}
                       /\ Len(c.declaration.parameters) = arity
                       /\ c.declaration.arity = arity
  BY CandidatesAre
<1>4. \A rank \in w.ranks : \A d : d \in LooseAt(w, key, rank) <=>
        \E c \in found : c.rank = rank /\ c.declaration = d
  BY LooseShared
<1> HIDE DEF found
<1>5. having \in SUBSET Nat /\ IsFiniteSet(having)
  <2>1. IsFiniteSet(w.ranks) /\ w.ranks \subseteq Nat
    BY SameNotions DEF Callables!IsWorkspace
  <2> QED  BY <2>1, FS_Subset
<1>6. having # {}
  BY <1>2, <1>3, <1>4
<1> DEFINE high == Callables!Highest(having)
<1>7. high \in having /\ \A rank \in having : rank <= high
  <2> HIDE DEF having
  <2> QED  BY <1>5, <1>6, HighestIn
<1>8. here = LooseAt(w, key, high)
  BY <1>6, LooseOfIs
<1>9. high \in w.ranks /\ high \in Nat /\ LooseAt(w, key, high) # {}
  BY <1>5, <1>7
<1>10. \A c \in found : c.rank <= high
  BY <1>3, <1>4, <1>7, ZenonT(40)
<1> HIDE DEF here, having, high
<1>11. \A d : d \in here <=> \E c \in found : c.rank = high /\ c.declaration = d
  BY <1>4, <1>8, <1>9
<1>12. \A c : c \in top <=> c \in found /\ c.rank = high
  <2>1. PICK g \in found : g.rank = high
    BY <1>8, <1>9, <1>11
  <2>2. ASSUME NEW c \in top PROVE c.rank = high
    <3>1. high <= c.rank /\ c.rank <= high /\ c.rank \in Nat
      BY <1>3, <1>10, <2>1
    <3> QED  BY <1>9, <3>1
  <2>3. ASSUME NEW c \in found, c.rank = high PROVE c \in top
    BY <1>10, <2>3
  <2> QED  BY <2>2, <2>3
<1> HIDE DEF top
<1>13. {f.declaration.parameters : f \in top} = lists
  BY <1>11, <1>12
<1>14. help = IF Cardinality(lists) = 1 THEN CHOOSE l \in lists : TRUE ELSE Callables!Positional(arity)
  <2> DEFINE same == {f.declaration.parameters : f \in top}
  <2>1. help = IF Callables!Cardinality(same) = 1 THEN CHOOSE l \in same : TRUE ELSE Callables!Positional(arity)
    BY DEF Callables!DeclaredParameters, top
  <2>2. same = lists
    BY <1>13
  <2> HIDE DEF help, same, lists
  <2> QED  BY <2>1, <2>2, SameNotions
<1>15. here # {} /\ IsFiniteSet(here)
  BY <1>8, <1>9, LooseFinite
<1>16. \A d \in here : d.kind \in {Callables!Procedure, Callables!Query} /\ Len(d.parameters) = arity
  BY <1>3, <1>11
<1>17. Len(help) = arity
  <2>1. CASE Cardinality(lists) = 1
    <3>1. help \in lists
      BY <1>14, <1>15, <2>1
    <3> QED  BY <1>16, <3>1
  <2>2. CASE Cardinality(lists) # 1
    <3>1. help = Callables!Positional(arity)
      BY <1>14, <2>2
    <3> HIDE DEF help
    <3> QED  BY <1>1, <3>1, PositionalLength
  <2> QED  BY <2>1, <2>2
<1> QED  BY <1>1, <1>14, <1>15, <1>16, <1>17 DEF arity, found, here

LEMMA LooseItemsAre ==
  ASSUME NEW w, NEW name, NEW arity, Callables!LooseOf(w, <<"callable", name, arity>>) # {},
         \A d \in Callables!LooseOf(w, <<"callable", name, arity>>) :
           d.kind \in {Callables!Procedure, Callables!Query}
  PROVE  LET key == <<"callable", name, arity>>
             here == Callables!LooseOf(w, key)
             items == UNION {Callables!Complete(w, key, position) : position \in {"head", "condition", "action"}}
         IN  items = {} \/ items = {Callables!Item(key, "loose", d.parameters) : d \in here}
<1> DEFINE key == <<"callable", name, arity>>
           here == Callables!LooseOf(w, key)
           Of(position) == Callables!Complete(w, key, position)
           all == {Callables!Item(key, "loose", d.parameters) : d \in here}
<1>1. ASSUME NEW position
      PROVE  Of(position) = Callables!LooseItems(w, key, position)
  BY DEF Callables!Complete
<1>2. CASE Callables!Mixed(here)
  <2>1. \A position : Of(position) = {}
    BY <1>1, <1>2 DEF Callables!LooseItems
  <2> QED  BY <2>1
<1>3. CASE ~Callables!Mixed(here)
  <2>1. \A position : Of(position) = {Callables!Item(key, "loose", d.parameters) :
          d \in {d \in here : Callables!Allowed(Callables!RoleOfKind(d.kind), position)}}
    BY <1>1, <1>3 DEF Callables!LooseItems
  <2>2. ASSUME NEW d \in here
        PROVE  \E position \in {"head", "condition", "action"} :
                 Callables!Allowed(Callables!RoleOfKind(d.kind), position)
    <3>1. d.kind = "OsirisProcedure" \/ d.kind = "OsirisQuery"
      BY DEF Callables!Procedure, Callables!Query
    <3>2. Callables!RoleOfKind("OsirisProcedure") = "procedure" /\ Callables!RoleOfKind("OsirisQuery") = "query"
      BY DEF Callables!RoleOfKind, Callables!Procedure, Callables!Query
    <3>3. Callables!Allowed("procedure", "action") /\ Callables!Allowed("query", "condition")
      BY DEF Callables!Allowed
    <3> QED  BY <3>1, <3>2, <3>3
  <2> HIDE DEF here, Of
  <2>3. ASSUME NEW i \in UNION {Of(position) : position \in {"head", "condition", "action"}}
        PROVE  i \in all
    BY <2>1
  <2>4. ASSUME NEW i \in all
        PROVE  \E position \in {"head", "condition", "action"} : i \in Of(position)
    <3>1. PICK d \in here : i = Callables!Item(key, "loose", d.parameters)
      OBVIOUS
    <3>2. PICK position \in {"head", "condition", "action"} :
            Callables!Allowed(Callables!RoleOfKind(d.kind), position)
      BY <2>2
    <3> QED  BY <2>1, <3>1, <3>2
  <2>5. UNION {Of(position) : position \in {"head", "condition", "action"}} = all
    <3> HIDE DEF all
    <3> QED  BY <2>3, <2>4
  <2> QED  BY <2>5 DEF here, Of
<1> QED  BY <1>2, <1>3

-----------------------------------------------------------------------------
(* Declarations of installed packages.                                     *)

Has(w, rank, name, arity) ==
  \E d \in Callables!Callables(w.installed, rank) : d.name = name /\ d.arity = arity

LEMMA InstalledAre ==
  ASSUME NEW w, Callables!IsWorkspace(w), NEW rank, NEW d \in Callables!Callables(w.installed, rank)
  PROVE  d.parameters \in Seq(STRING) /\ Len(d.parameters) = d.arity /\ d.arity \in Nat
<1>1. d \in Callables!Declared(w.installed, {"callable"})
  BY DEF Callables!Callables
<1>2. PICK s \in w.installed : \E symbol \in s.text.symbols :
        symbol.kind \in {"callable"} /\ d = Callables!Declaration(s, symbol)
  BY <1>1, DeclaredFacts
<1>3. PICK symbol \in s.text.symbols : symbol.kind = "callable" /\ d = Callables!Declaration(s, symbol)
  BY <1>2
<1>4. symbol.parameters \in Seq(STRING) /\ Len(symbol.parameters) = symbol.arity
  BY <1>3 DEF Callables!IsWorkspace
<1>5. d.parameters = symbol.parameters /\ d.arity = symbol.arity
  BY <1>3 DEF Callables!Declaration
<1>6. Len(d.parameters) \in Nat
  BY <1>4, <1>5
<1> QED  BY <1>4, <1>5, <1>6

LEMMA InstalledResolved ==
  ASSUME NEW w, Callables!IsWorkspace(w), NEW rank, NEW name, NEW arity
  PROVE  LET found == Callables!ResolveCallable(w.installed, rank, name, arity) IN
         /\ found.tag \in {"missing", "unique", "ambiguous"}
         /\ found.tag = "missing" <=> ~Has(w, rank, name, arity)
         /\ found.tag = "unique" =>
              /\ Callables!First(found.candidates) \in Callables!Callables(w.installed, rank)
              /\ Callables!First(found.candidates).arity = arity
<1> DEFINE found == Callables!ResolveCallable(w.installed, rank, name, arity)
           here == {d \in Callables!Callables(w.installed, rank) : d.name = name /\ d.arity = arity}
           top == Ranked(w.installed, rank, name, arity)
<1>0. Callables!IsCatalog(w.installed)
  BY DEF Callables!IsWorkspace
<1>1. /\ found.tag = IF top = {} THEN "missing"
                     ELSE IF Cardinality({<<d.parameters, d.role>> : d \in top}) = 1
                          THEN "unique" ELSE "ambiguous"
      /\ found.candidates \subseteq top
      /\ found.tag = "unique" => found.candidates = {Callables!First(top)}
  BY <1>0, CallableResolved
<1>2. top = Callables!Foremost(here)
  BY DEF Ranked
<1>3. \A d : d \in here <=> d \in Callables!Callables(w.installed, rank) /\ d.name = name /\ d.arity = arity
  OBVIOUS
<1>4. \A d \in here : d \in Callables!Declared(w.installed, {"callable"})
  BY DEF Callables!Callables
<1> HIDE DEF here, top, found
<1>5. /\ IsFiniteSet(here)
      /\ \A d \in here : {d.package, d.entry, d.line, d.priority} \subseteq Nat
  <2>1. /\ IsFiniteSet(Callables!Declared(w.installed, {"callable"}))
        /\ \A d \in Callables!Declared(w.installed, {"callable"}) :
             {d.package, d.entry, d.line, d.priority} \subseteq Nat
    BY <1>0, DeclaredFinite
  <2> QED  BY <1>4, <2>1, FS_Subset
<1>6. top \subseteq here /\ (here # {} => top # {})
  <2>1. \A d \in here : d.priority \in Nat
    BY <1>5
  <2> QED  BY <1>2, <1>5, <2>1, ForemostFinite, ForemostExists
<1>7. found.tag = "missing" <=> ~Has(w, rank, name, arity)
  <2>1. here = {} <=> ~Has(w, rank, name, arity)
    BY <1>3 DEF Has
  <2>2. found.tag = "missing" <=> top = {}
    BY <1>1
  <2> QED  BY <1>6, <2>1, <2>2
<1>8. ASSUME found.tag = "unique"
      PROVE  Callables!First(found.candidates) \in here
  <2>1. found.candidates # {} /\ found.candidates \subseteq here
    BY <1>1, <1>6, <1>8
  <2>2. IsFiniteSet(found.candidates) /\ \A d \in found.candidates : {d.package, d.entry, d.line} \subseteq Nat
    BY <1>5, <2>1, FS_Subset
  <2> QED  BY <2>1, <2>2, FirstIn
<1> QED  BY <1>1, <1>3, <1>7, <1>8 DEF found

(* What help shows of installed packages: the declaration of the least     *)
(* arity that fits, in the highest base module that has one that fits.     *)
Shown(w, rank, name, arity) ==
  LET found == Callables!ResolveCallable(w.installed, rank, name, arity) IN
  IF found.tag = "ambiguous" THEN Callables!Positional(arity)
  ELSE Callables!First(found.candidates).parameters

LEMMA InstalledHelpIs ==
  ASSUME NEW w, Callables!IsWorkspace(w), NEW name, NEW argument \in Nat
  PROVE  \/ /\ Callables!InstalledHelp(w, name, argument) = Callables!NoHelp
            /\ \A rank \in w.base, arity \in Nat : Has(w, rank, name, arity) => arity <= argument
         \/ \E rank \in w.base, arity \in Nat :
              /\ Has(w, rank, name, arity) /\ arity > argument
              /\ \A other \in w.base : Has(w, other, name, arity) => other <= rank
              /\ Len(Shown(w, rank, name, arity)) = arity
              /\ Callables!InstalledHelp(w, name, argument)
                   = Callables!Help("installed", Shown(w, rank, name, arity))
<1> DEFINE Fitting(rank) == {a \in Callables!Arities(w.installed, rank, name) : a >= argument + 1}
           having == {rank \in w.base : Fitting(rank) # {}}
           rank == Callables!Highest(having)
           arity == Callables!LeastOf(Fitting(rank))
           found == Callables!ResolveCallable(w.installed, rank, name, arity)
<1>1. ASSUME NEW r
      PROVE  /\ Fitting(r) \in SUBSET Nat
             /\ \A a : a \in Fitting(r) <=> a \in Nat /\ a > argument /\ Has(w, r, name, a)
  <2>1. \A a : a \in Callables!Arities(w.installed, r, name) <=> Has(w, r, name, a)
    BY DEF Callables!Arities, Has
  <2>2. \A a : Has(w, r, name, a) => a \in Nat
    BY InstalledAre DEF Has
  <2> QED  BY <2>1, <2>2
<1>2. Callables!InstalledHelp(w, name, argument)
        = IF having = {} THEN Callables!NoHelp
          ELSE IF found.tag = "ambiguous" THEN Callables!Help("installed", Callables!Positional(arity))
          ELSE Callables!Help("installed", Callables!First(found.candidates).parameters)
  BY DEF Callables!InstalledHelp
<1> HIDE DEF Fitting, arity
<1>3. CASE having = {}
  <2>1. Callables!InstalledHelp(w, name, argument) = Callables!NoHelp
    BY <1>2, <1>3
  <2>2. ASSUME NEW r \in w.base, NEW a \in Nat, Has(w, r, name, a) PROVE a <= argument
    <3>1. a \notin Fitting(r)
      BY <1>3
    <3> QED  BY <1>1, <2>2, <3>1
  <2> QED  BY <2>1, <2>2
<1>4. CASE having # {}
  <2>1. IsFiniteSet(having) /\ having \in SUBSET Nat
    <3>1. IsFiniteSet(w.base) /\ w.base \subseteq Nat
      BY SameNotions DEF Callables!IsWorkspace
    <3> QED  BY <3>1, FS_Subset
  <2>2. rank \in having /\ \A r \in having : r <= rank
    <3> HIDE DEF having
    <3> QED  BY <1>4, <2>1, HighestIn
  <2> HIDE DEF rank
  <2>3. rank \in w.base /\ Fitting(rank) # {}
    BY <2>2
  <2>4. arity \in Fitting(rank)
    <3>1. Fitting(rank) \in SUBSET Nat
      BY <1>1
    <3> QED  BY <2>3, <3>1, LeastOfIn DEF arity
  <2>5. arity \in Nat /\ arity > argument /\ Has(w, rank, name, arity)
    BY <1>1, <2>4
  <2>6. \A other \in w.base : Has(w, other, name, arity) => other <= rank
    <3>1. ASSUME NEW other \in w.base, Has(w, other, name, arity) PROVE other <= rank
      <4>1. arity \in Fitting(other)
        BY <1>1, <2>5, <3>1
      <4> QED  BY <2>2, <4>1
    <3> QED  BY <3>1
  <2>7. Callables!InstalledHelp(w, name, argument)
          = Callables!Help("installed", Shown(w, rank, name, arity))
    BY <1>2, <1>4 DEF Shown
  <2>8. Len(Shown(w, rank, name, arity)) = arity
    <3>1. CASE found.tag = "ambiguous"
      <4>1. Shown(w, rank, name, arity) = Callables!Positional(arity)
        BY <3>1 DEF Shown
      <4> QED  BY <2>5, <4>1, PositionalLength
    <3>2. CASE found.tag # "ambiguous"
      <4>1. found.tag = "unique"
        BY <2>5, <3>2, InstalledResolved
      <4>2. /\ Callables!First(found.candidates) \in Callables!Callables(w.installed, rank)
            /\ Callables!First(found.candidates).arity = arity
        BY <4>1, InstalledResolved
      <4>3. Shown(w, rank, name, arity) = Callables!First(found.candidates).parameters
        BY <3>2 DEF Shown
      <4> HIDE DEF found
      <4> QED  BY <4>2, <4>3, InstalledAre
    <3> QED  BY <3>1, <3>2
  <2> QED  BY <2>3, <2>5, <2>6, <2>7, <2>8
<1> QED  BY <1>3, <1>4

(* What completion offers of them.                                         *)
Offer(w, rank, name, arity) ==
  LET found == Callables!ResolveCallable(w.installed, rank, name, arity) IN
  [name |-> name, arity |-> arity, role |-> Callables!RoleOf(found.candidates),
   parameters |-> IF found.tag = "unique" THEN Callables!First(found.candidates).parameters ELSE <<>>]

LEMMA OffersAre ==
  ASSUME NEW w, NEW rank, NEW name, NEW arity
  PROVE  {c \in Callables!CompletionsFor(w.installed, rank, {name}) : c.arity = arity}
           = IF Has(w, rank, name, arity) THEN {Offer(w, rank, name, arity)} ELSE {}
<1> DEFINE At == {c \in Callables!CompletionsFor(w.installed, rank, {name}) : c.arity = arity}
           Of(d) == Offer(w, rank, d.name, d.arity)
<1>1. Callables!CompletionsFor(w.installed, rank, {name})
        = {Of(d) : d \in {d \in Callables!Callables(w.installed, rank) : d.name \in {name}}}
  BY DEF Callables!CompletionsFor, Offer
<1>2. \A d : Of(d).arity = d.arity
  BY DEF Offer
<1> HIDE DEF Of
<1>3. \A c : c \in At <=> \E d \in Callables!Callables(w.installed, rank) :
                            d.name = name /\ d.arity = arity /\ c = Of(d)
  BY <1>1, <1>2
<1>4. \A d : d.name = name /\ d.arity = arity => Of(d) = Offer(w, rank, name, arity)
  BY DEF Of
<1> HIDE DEF At
<1>5. CASE Has(w, rank, name, arity)
  <2>1. At = {Offer(w, rank, name, arity)}
    BY <1>3, <1>4, <1>5 DEF Has
  <2> QED  BY <1>5, <2>1 DEF At
<1>6. CASE ~Has(w, rank, name, arity)
  <2>1. At = {}
    BY <1>3, <1>6 DEF Has
  <2> QED  BY <1>6, <2>1 DEF At
<1> QED  BY <1>5, <1>6

LEMMA InstalledOfIs ==
  ASSUME NEW w, Callables!IsWorkspace(w), NEW name, NEW arity
  PROVE  LET key == <<"callable", name, arity>> IN
         /\ (\A rank \in w.base : ~Has(w, rank, name, arity)) => Callables!InstalledOf(w, key) = {}
         /\ \A rank \in w.base :
              /\ Has(w, rank, name, arity)
              /\ \A other \in w.base : Has(w, other, name, arity) => other <= rank
              => Callables!InstalledOf(w, key) = {[rank |-> rank, callable |-> Offer(w, rank, name, arity)]}
<1> DEFINE key == <<"callable", name, arity>>
           At(rank) == {c \in Callables!CompletionsFor(w.installed, rank, {key[2]}) : c.arity = key[3]}
           having == {rank \in w.base : At(rank) # {}}
<1>1. ASSUME NEW rank
      PROVE  At(rank) = IF Has(w, rank, name, arity) THEN {Offer(w, rank, name, arity)} ELSE {}
  <2>1. key[2] = name /\ key[3] = arity
    OBVIOUS
  <2> HIDE DEF key
  <2>2. Callables!CompletionsFor(w.installed, rank, {key[2]})
          = Callables!CompletionsFor(w.installed, rank, {name})
    BY <2>1
  <2>3. At(rank) = {c \in Callables!CompletionsFor(w.installed, rank, {name}) : c.arity = arity}
    BY <2>1, <2>2
  <2> HIDE DEF At
  <2> QED  BY <2>3, OffersAre
<1>2. Callables!InstalledOf(w, key)
        = IF having = {} THEN {}
          ELSE {[rank |-> Callables!Highest(having), callable |-> c] : c \in At(Callables!Highest(having))}
  BY DEF Callables!InstalledOf
<1> HIDE DEF key, At
<1>3. ASSUME \A rank \in w.base : ~Has(w, rank, name, arity)
      PROVE  Callables!InstalledOf(w, key) = {}
  <2>1. having = {}
    BY <1>1, <1>3
  <2> QED  BY <1>2, <2>1
<1>4. ASSUME NEW rank \in w.base, Has(w, rank, name, arity),
             \A other \in w.base : Has(w, other, name, arity) => other <= rank
      PROVE  Callables!InstalledOf(w, key) = {[rank |-> rank, callable |-> Offer(w, rank, name, arity)]}
  <2>1. rank \in having /\ \A other \in having : other <= rank
    BY <1>1, <1>4
  <2>2. having \in SUBSET Nat
    BY DEF Callables!IsWorkspace
  <2>3. Callables!Highest(having) = rank
    <3> HIDE DEF having
    <3> QED  BY <2>1, <2>2, HighestIs
  <2>4. At(rank) = {Offer(w, rank, name, arity)}
    BY <1>1, <1>4
  <2> HIDE DEF having
  <2> QED  BY <1>2, <2>1, <2>3, <2>4
<1> QED  BY <1>3, <1>4 DEF key

LEMMA InstalledHoverIs ==
  ASSUME NEW w, Callables!IsWorkspace(w), NEW name, NEW arity,
         NEW rank \in w.base, Has(w, rank, name, arity),
         \A other \in w.base : Has(w, other, name, arity) => other <= rank,
         Callables!InstalledHover(w, name, arity).source = "installed"
  PROVE  Callables!InstalledHover(w, name, arity).parameters = Shown(w, rank, name, arity)
<1> DEFINE Found(r) == Callables!ResolveCallable(w.installed, r, name, arity)
           having == {r \in w.base : Found(r).tag # "missing"}
<1>1. \A r : Found(r).tag # "missing" <=> Has(w, r, name, arity)
  BY InstalledResolved
<1>2. Callables!InstalledHover(w, name, arity)
        = IF having = {} THEN Callables!NoHelp
          ELSE IF Found(Callables!Highest(having)).tag = "ambiguous" THEN Callables!Help("ambiguous", <<>>)
          ELSE Callables!Help("installed", Callables!First(Found(Callables!Highest(having)).candidates).parameters)
  BY DEF Callables!InstalledHover
<1>3. Shown(w, rank, name, arity)
        = IF Found(rank).tag = "ambiguous" THEN Callables!Positional(arity)
          ELSE Callables!First(Found(rank).candidates).parameters
  BY DEF Shown
<1> HIDE DEF Found
<1>4. rank \in having /\ (\A other \in having : other <= rank) /\ having \in SUBSET Nat
  BY <1>1 DEF Callables!IsWorkspace
<1>5. Callables!Highest(having) = rank
  <2> HIDE DEF having
  <2> QED  BY <1>4, HighestIs
<1> HIDE DEF having
<1>6. Found(rank).tag # "ambiguous"
  <2>1. Callables!Help("ambiguous", <<>>).source # "installed"
    BY DEF Callables!Help
  <2> QED  BY <1>2, <1>4, <1>5, <2>1
<1> QED  BY <1>2, <1>3, <1>4, <1>5, <1>6 DEF Callables!Help

-----------------------------------------------------------------------------
(* The catalogs of the game.                                               *)

LEMMA GeneratedHelpIs ==
  ASSUME NEW w, Callables!IsWorkspace(w), NEW name, NEW argument \in Nat,
         Callables!GeneratedHelp(w, name, argument).source # "none",
         Len(Callables!GeneratedHelp(w, name, argument).parameters) # 0
  PROVE  LET help == Callables!GeneratedHelp(w, name, argument)
             arity == Len(help.parameters)
             found == Callables!ContractsOf(w, name, arity)
         IN  /\ arity \in Nat /\ arity > argument
             /\ \/ /\ help.source = "generated"
                   /\ \E c \in Callables!Range(w.contracts) : c.name = name /\ c.parameters = help.parameters /\ found = {c}
                \/ /\ help.source = "legacy" /\ found = {}
                   /\ \E e \in w.legacy : e.name = name /\ e.parameters = help.parameters
<1> DEFINE help == Callables!GeneratedHelp(w, name, argument)
           fits(parameters) == parameters = <<>> \/ Len(parameters) >= argument + 1
           fitting == {c \in Callables!Range(w.contracts) : c.name = name /\ fits(c.parameters)}
           lengths == {Len(c.parameters) : c \in fitting}
           least == Callables!LeastOf(lengths)
           found == Callables!ContractsOf(w, name, least)
           events == {e \in w.legacy : e.name = name /\ fits(e.parameters)}
           event == CHOOSE e \in events : \A f \in events : Len(e.parameters) <= Len(f.parameters)
<1>1. help = IF lengths # {}
             THEN IF Callables!Cardinality(found) = 1
                  THEN Callables!Help("generated", (CHOOSE c \in found : TRUE).parameters) ELSE Callables!NoHelp
             ELSE IF events = {} THEN Callables!NoHelp ELSE Callables!Help("legacy", event.parameters)
  BY DEF Callables!GeneratedHelp
<1>2. /\ \A c \in Callables!Range(w.contracts) : c.parameters \in Seq(STRING)
      /\ \A e \in w.legacy : e.parameters \in Seq(STRING) /\ \A f \in w.legacy : f.name = e.name => f = e
      /\ IsFiniteSet(Callables!Range(w.contracts))
  BY SameNotions DEF Callables!IsWorkspace
<1>3. Callables!NoHelp.source = "none" /\ help.source # "none" /\ Len(help.parameters) # 0
  BY DEF Callables!NoHelp, Callables!Help
<1>4. \A parameters : fits(parameters) <=> parameters = <<>> \/ Len(parameters) >= argument + 1
  OBVIOUS
<1>5. \A c, arity : c \in Callables!ContractsOf(w, name, arity) <=>
        c \in Callables!Range(w.contracts) /\ c.name = name /\ Len(c.parameters) = arity
  BY DEF Callables!ContractsOf
<1>6. \A source, parameters : /\ Callables!Help(source, parameters).source = source
                              /\ Callables!Help(source, parameters).parameters = parameters
  BY DEF Callables!Help
<1> HIDE DEF help, fits, least, event
<1>7. CASE lengths # {}
  <2>1. Callables!Cardinality(found) = 1
    BY <1>1, <1>3, <1>7
  <2>2. IsFiniteSet(found) /\ Cardinality(found) = 1
    <3>1. found \subseteq Callables!Range(w.contracts)
      BY <1>5
    <3> QED  BY <1>2, <2>1, <3>1, SameNotions, FS_Subset
  <2>3. PICK c : found = {c}
    <3> HIDE DEF found
    <3> QED  BY <2>2, FS_Singleton
  <2>4. c \in Callables!Range(w.contracts) /\ c.name = name /\ Len(c.parameters) = least
    BY <1>5, <2>3
  <2>5. help = Callables!Help("generated", c.parameters)
    <3> HIDE DEF found, lengths
    <3> QED  BY <1>1, <1>7, <2>1, <2>3
  <2>6. help.source = "generated" /\ help.parameters = c.parameters
    BY <1>6, <2>5
  <2>7. least \in lengths
    <3>1. lengths \in SUBSET Nat
      BY <1>2
    <3> HIDE DEF lengths
    <3> QED  BY <1>7, <3>1, LeastOfIn DEF least
  <2>8. PICK b \in fitting : least = Len(b.parameters)
    BY <2>7
  <2>9. b = c
    <3>1. b \in found
      BY <1>5, <2>8
    <3> HIDE DEF fitting, found
    <3> QED  BY <2>3, <3>1
  <2>10. least \in Nat /\ least > argument
    <3>1. fits(c.parameters) /\ c.parameters \in Seq(STRING)
      BY <1>2, <2>4, <2>8, <2>9
    <3>2. least # 0 /\ Len(c.parameters) \in Nat /\ c.parameters # <<>>
      BY <1>3, <2>4, <2>6, <3>1
    <3> QED  BY <1>4, <2>4, <3>1, <3>2
  <2>11. Len(help.parameters) = least
    BY <2>4, <2>6
  <2> QED  BY <2>3, <2>4, <2>6, <2>10, <2>11 DEF help
<1>8. CASE lengths = {}
  <2>1. events # {} /\ help = Callables!Help("legacy", event.parameters)
    BY <1>1, <1>3, <1>8
  <2>2. PICK e \in events : TRUE
    BY <2>1
  <2>3. \A f \in events : f = e
    BY <1>2, <2>2
  <2>4. Len(e.parameters) \in Nat /\ e \in w.legacy /\ e.name = name /\ fits(e.parameters)
    BY <1>2, <2>2
  <2>5. event = e
    <3>1. \A f \in events : Len(e.parameters) <= Len(f.parameters)
      BY <2>3, <2>4
    <3> QED  BY <2>2, <2>3, <3>1 DEF event
  <2>6. help.source = "legacy" /\ help.parameters = e.parameters
    BY <1>6, <2>1, <2>5
  <2>7. Len(e.parameters) > argument
    <3>1. Len(e.parameters) # 0 /\ e.parameters # <<>>
      BY <1>3, <2>4, <2>6
    <3> QED  BY <1>4, <2>4, <3>1
  <2>8. Callables!ContractsOf(w, name, Len(help.parameters)) = {}
    <3>1. ASSUME NEW c \in Callables!ContractsOf(w, name, Len(help.parameters)) PROVE FALSE
      <4>1. c \in Callables!Range(w.contracts) /\ c.name = name /\ Len(c.parameters) = Len(e.parameters)
        BY <1>5, <2>6, <3>1
      <4>2. fits(c.parameters)
        BY <1>4, <2>4, <2>7, <4>1
      <4>3. c \in fitting
        BY <4>1, <4>2
      <4> QED  BY <1>8, <4>3
    <3> QED  BY <3>1
  <2> QED  BY <2>4, <2>6, <2>7, <2>8 DEF help
<1> QED  BY <1>7, <1>8

(* Nothing hides what signature help shows of packages and catalogs.       *)
LEMMA LooseNone ==
  ASSUME NEW w, Callables!IsWorkspace(w), AreComplete(w), NEW name, NEW argument \in Nat,
         Callables!LooseArities(w, name, argument) = {}, NEW arity \in Nat, arity > argument
  PROVE  Callables!LooseOf(w, <<"callable", name, arity>>) = {}
<1> DEFINE key == <<"callable", name, arity>>
<1>1. ASSUME NEW rank \in w.ranks, NEW d \in LooseAt(w, key, rank) PROVE FALSE
  <2>1. PICK c \in Callables!LooseCandidates(w, name) : c.declaration = d /\ d.arity = arity
    BY <1>1, LooseShared
  <2>2. arity \in Callables!LooseArities(w, name, argument)
    BY <2>1, AritiesAre
  <2> QED  BY <2>2
<1>2. {rank \in w.ranks : LooseAt(w, key, rank) # {}} = {}
  BY <1>1
<1> QED  BY <1>2, LooseOfIs

-----------------------------------------------------------------------------
(* What the three views agree on.                                          *)

Items(w, name, arity) ==
  UNION {Callables!Complete(w, <<"callable", name, arity>>, position) : position \in {"head", "condition", "action"}}

HelpAgrees(items, help, hover) ==
  /\ \A i \in items : i.source = help.source
  /\ help.parameters =
       IF Cardinality({i.parameters : i \in items}) = 1
          /\ \A i \in items : Len(i.parameters) = Len(help.parameters)
       THEN (CHOOSE i \in items : TRUE).parameters ELSE Callables!Positional(Len(help.parameters))
  /\ help.source = "installed" /\ hover.source = "installed" => help.parameters = hover.parameters

LEMMA ItemIs ==
  ASSUME NEW key, NEW source, NEW parameters
  PROVE  /\ Callables!Item(key, source, parameters).source = source
         /\ Callables!Item(key, source, parameters).parameters = parameters
BY DEF Callables!Item

LEMMA HelpIs ==
  ASSUME NEW source, NEW parameters
  PROVE  /\ Callables!Help(source, parameters).source = source
         /\ Callables!Help(source, parameters).parameters = parameters
BY DEF Callables!Help

(* One item, of the parameters that are shown or of none.                  *)
LEMMA OneItem ==
  ASSUME NEW key, NEW help, NEW hover, NEW parameters,
         \/ parameters = help.parameters
         \/ /\ Len(parameters) # Len(help.parameters)
            /\ help.parameters = Callables!Positional(Len(help.parameters)),
         help.source = "installed" /\ hover.source = "installed" => help.parameters = hover.parameters
  PROVE  HelpAgrees({Callables!Item(key, help.source, parameters)}, help, hover)
<1> DEFINE items == {Callables!Item(key, help.source, parameters)}
<1>1. /\ \A i \in items : i.source = help.source /\ i.parameters = parameters
      /\ {i.parameters : i \in items} = {parameters}
      /\ (CHOOSE i \in items : TRUE).parameters = parameters
  BY ItemIs
<1>2. Cardinality({parameters}) = 1
  BY FS_Singleton
<1>3. \A i \in items : Len(i.parameters) = Len(parameters)
  BY <1>1
<1>4. (\A i \in items : Len(i.parameters) = Len(help.parameters)) <=> Len(parameters) = Len(help.parameters)
  BY <1>3
<1>5. help.parameters =
        IF Cardinality({i.parameters : i \in items}) = 1
           /\ \A i \in items : Len(i.parameters) = Len(help.parameters)
        THEN (CHOOSE i \in items : TRUE).parameters ELSE Callables!Positional(Len(help.parameters))
  <2> HIDE DEF items
  <2> QED  BY <1>1, <1>2, <1>4
<1> QED  BY <1>1, <1>5 DEF HelpAgrees

LEMMA LooseViews ==
  ASSUME NEW w, Callables!IsWorkspace(w), AreComplete(w), NEW name, NEW argument \in Nat, NEW hover,
         Callables!LooseArities(w, name, argument) # {},
         Items(w, name, Len(Callables!SignatureHelp(w, name, argument).parameters)) # {}
  PROVE  LET help == Callables!SignatureHelp(w, name, argument) IN
         HelpAgrees(Items(w, name, Len(help.parameters)), help, hover)
<1> DEFINE arity == Callables!LeastOf(Callables!LooseArities(w, name, argument))
           found == {c \in Callables!LooseCandidates(w, name) : c.declaration.arity = arity}
           shown == Callables!DeclaredParameters(found, arity)
           key == <<"callable", name, arity>>
           here == Callables!LooseOf(w, key)
           lists == {d.parameters : d \in here}
           help == Callables!SignatureHelp(w, name, argument)
           items == Items(w, name, Len(help.parameters))
<1>1. /\ arity \in Nat /\ Len(shown) = arity /\ here # {} /\ IsFiniteSet(here)
      /\ \A d \in here : d.kind \in {Callables!Procedure, Callables!Query} /\ Len(d.parameters) = arity
      /\ shown = IF Cardinality(lists) = 1 THEN CHOOSE l \in lists : TRUE ELSE Callables!Positional(arity)
  BY LooseHelpIs
<1>2. help = Callables!Help("loose", shown)
  BY DEF Callables!SignatureHelp
<1>3. help.source = "loose" /\ help.parameters = shown
  <2> HIDE DEF help, shown
  <2> QED  BY <1>2, HelpIs
<1>4. Len(help.parameters) = arity
  <2> HIDE DEF help, shown, arity
  <2> QED  BY <1>1, <1>3
<1>5. items = Items(w, name, arity)
  <2> HIDE DEF help, arity
  <2> QED  BY <1>4
<1>6. items = {} \/ items = {Callables!Item(key, "loose", d.parameters) : d \in here}
  <2> HIDE DEF items, arity
  <2>1. here # {} /\ \A d \in here : d.kind \in {Callables!Procedure, Callables!Query}
    BY <1>1
  <2>2. UNION {Callables!Complete(w, key, position) : position \in {"head", "condition", "action"}}
          \in {{}, {Callables!Item(key, "loose", d.parameters) : d \in here}}
    BY <2>1, LooseItemsAre
  <2> QED  BY <1>5, <2>2 DEF Items
<1>7. items = {Callables!Item(key, "loose", d.parameters) : d \in here}
  BY <1>6
<1> HIDE DEF arity, found, shown, key, here, help, items
<1>8. {i.parameters : i \in items} = lists
  BY <1>7, ItemIs
<1>9. \A i \in items : i.source = "loose" /\ Len(i.parameters) = arity /\ i.parameters \in lists
  BY <1>1, <1>7, ItemIs
<1>10. Cardinality(lists) = 1 => (CHOOSE i \in items : TRUE).parameters = CHOOSE l \in lists : TRUE
  <2> SUFFICES ASSUME Cardinality(lists) = 1
               PROVE  (CHOOSE i \in items : TRUE).parameters = CHOOSE l \in lists : TRUE
    OBVIOUS
  <2>1. IsFiniteSet(lists)
    <3> DEFINE f == [d \in here |-> d.parameters]
    <3>1. IsFiniteSet({f[d] : d \in DOMAIN f})
      BY <1>1, FiniteImage
    <3> QED  BY <3>1
  <2> HIDE DEF lists
  <2>2. PICK l : lists = {l}
    BY <2>1, FS_Singleton
  <2>3. (CHOOSE i \in items : TRUE) \in items
    BY <1>8, <2>2
  <2> QED  BY <1>9, <2>2, <2>3
<1> HIDE DEF lists
<1>11. help.parameters =
         IF Cardinality({i.parameters : i \in items}) = 1
            /\ \A i \in items : Len(i.parameters) = Len(help.parameters)
         THEN (CHOOSE i \in items : TRUE).parameters ELSE Callables!Positional(Len(help.parameters))
  BY <1>1, <1>3, <1>4, <1>8, <1>9, <1>10
<1>12. HelpAgrees(items, help, hover)
  BY <1>3, <1>9, <1>11 DEF HelpAgrees
<1> QED  BY <1>12 DEF items, help

LEMMA InstalledViews ==
  ASSUME NEW w, Callables!IsWorkspace(w), AreComplete(w), NEW name, NEW argument \in Nat,
         Callables!LooseArities(w, name, argument) = {},
         Callables!InstalledHelp(w, name, argument) # Callables!NoHelp,
         Items(w, name, Len(Callables!SignatureHelp(w, name, argument).parameters)) # {}
  PROVE  LET help == Callables!SignatureHelp(w, name, argument) IN
         HelpAgrees(Items(w, name, Len(help.parameters)), help,
               Callables!InstalledHover(w, name, Len(help.parameters)))
<1> DEFINE help == Callables!SignatureHelp(w, name, argument)
<1>1. help = Callables!InstalledHelp(w, name, argument)
  BY DEF Callables!SignatureHelp
<1>2. PICK rank \in w.base, arity \in Nat :
        /\ Has(w, rank, name, arity) /\ arity > argument
        /\ \A other \in w.base : Has(w, other, name, arity) => other <= rank
        /\ Len(Shown(w, rank, name, arity)) = arity
        /\ Callables!InstalledHelp(w, name, argument)
             = Callables!Help("installed", Shown(w, rank, name, arity))
  BY InstalledHelpIs
<1> DEFINE key == <<"callable", name, arity>>
           hover == Callables!InstalledHover(w, name, arity)
           offer == Offer(w, rank, name, arity)
           found == Callables!ResolveCallable(w.installed, rank, name, arity)
<1> HIDE DEF help
<1>3. help.source = "installed" /\ help.parameters = Shown(w, rank, name, arity)
  BY <1>1, <1>2, HelpIs
<1>4. Len(help.parameters) = arity
  BY <1>2, <1>3
<1>5. Items(w, name, arity) # {}
  BY <1>4 DEF help
<1>6. Callables!LooseOf(w, key) = {}
  BY <1>2, LooseNone
<1>7. Callables!InstalledOf(w, key) = {[rank |-> rank, callable |-> offer]}
  BY <1>2, InstalledOfIs
<1>8. key[1] = "callable"
  OBVIOUS
<1> HIDE DEF key
<1>9. ASSUME NEW position
      PROVE  Callables!Complete(w, key, position) \subseteq {Callables!Item(key, "installed", offer.parameters)}
  <2>1. Callables!Complete(w, key, position)
          = {Callables!Item(key, "installed", i.callable.parameters) :
               i \in {i \in Callables!InstalledOf(w, key) :
                        /\ i.callable.role # "unknown"
                        /\ Callables!Allowed(i.callable.role, position)}}
    BY <1>6, <1>7, <1>8 DEF Callables!Complete
  <2>2. \A i \in Callables!InstalledOf(w, key) : i.callable = offer
    BY <1>7
  <2> QED  BY <2>1, <2>2
<1>10. Items(w, name, arity) = {Callables!Item(key, "installed", offer.parameters)}
  <2> DEFINE item == Callables!Item(key, "installed", offer.parameters)
  <2> HIDE DEF item
  <2>1. \A position \in {"head", "condition", "action"} :
          Callables!Complete(w, <<"callable", name, arity>>, position) \subseteq {item}
    BY <1>9 DEF key, item
  <2>2. Items(w, name, arity) = {item}
    BY <1>5, <2>1 DEF Items
  <2> QED  BY <2>2 DEF item
<1>11. \/ offer.parameters = help.parameters
       \/ /\ Len(offer.parameters) # Len(help.parameters)
          /\ help.parameters = Callables!Positional(Len(help.parameters))
  <2>1. found.tag \in {"unique", "ambiguous"}
    BY <1>2, InstalledResolved
  <2>2. offer.parameters = IF found.tag = "unique" THEN Callables!First(found.candidates).parameters ELSE <<>>
    BY DEF Offer
  <2>3. Shown(w, rank, name, arity)
          = IF found.tag = "ambiguous" THEN Callables!Positional(arity)
            ELSE Callables!First(found.candidates).parameters
    BY DEF Shown
  <2> HIDE DEF offer, found
  <2>4. CASE found.tag = "unique"
    BY <1>3, <2>2, <2>3, <2>4
  <2>5. CASE found.tag = "ambiguous"
    <3>1. offer.parameters = <<>> /\ help.parameters = Callables!Positional(arity)
      BY <1>3, <2>2, <2>3, <2>5
    <3>2. Len(offer.parameters) = 0 /\ arity # 0
      BY <1>2, <3>1
    <3> QED  BY <1>4, <3>1, <3>2
  <2> QED  BY <2>1, <2>4, <2>5
<1>12. hover.source = "installed" => help.parameters = hover.parameters
  BY <1>2, <1>3, InstalledHoverIs
<1> HIDE DEF offer, hover
<1>13. HelpAgrees({Callables!Item(key, "installed", offer.parameters)}, help, hover)
  BY <1>3, <1>11, <1>12, OneItem
<1>14. HelpAgrees(Items(w, name, arity), help, hover)
  BY <1>10, <1>13
<1> QED  BY <1>4, <1>14 DEF help, hover

LEMMA CatalogViews ==
  ASSUME NEW w, Callables!IsWorkspace(w), AreComplete(w), NEW name, NEW argument \in Nat, NEW hover,
         Callables!LooseArities(w, name, argument) = {},
         Callables!InstalledHelp(w, name, argument) = Callables!NoHelp,
         Callables!SignatureHelp(w, name, argument).source # "none",
         Len(Callables!SignatureHelp(w, name, argument).parameters) # 0,
         Items(w, name, Len(Callables!SignatureHelp(w, name, argument).parameters)) # {}
  PROVE  LET help == Callables!SignatureHelp(w, name, argument) IN
         HelpAgrees(Items(w, name, Len(help.parameters)), help, hover)
<1> DEFINE help == Callables!SignatureHelp(w, name, argument)
           arity == Len(help.parameters)
           found == Callables!ContractsOf(w, name, arity)
           key == <<"callable", name, arity>>
<1>1. help = Callables!GeneratedHelp(w, name, argument)
  BY DEF Callables!SignatureHelp
<1>2. /\ arity \in Nat /\ arity > argument
      /\ \/ /\ help.source = "generated"
            /\ \E c \in Callables!Range(w.contracts) : c.name = name /\ c.parameters = help.parameters /\ found = {c}
         \/ /\ help.source = "legacy" /\ found = {}
            /\ \E e \in w.legacy : e.name = name /\ e.parameters = help.parameters
  <2> DEFINE g == Callables!GeneratedHelp(w, name, argument)
  <2>1. help = g
    BY <1>1
  <2>2. g.source # "none" /\ Len(g.parameters) # 0
    BY <2>1
  <2>3. /\ Len(g.parameters) \in Nat /\ Len(g.parameters) > argument
        /\ \/ /\ g.source = "generated"
              /\ \E c \in Callables!Range(w.contracts) :
                   /\ c.name = name /\ c.parameters = g.parameters
                   /\ Callables!ContractsOf(w, name, Len(g.parameters)) = {c}
           \/ /\ g.source = "legacy" /\ Callables!ContractsOf(w, name, Len(g.parameters)) = {}
              /\ \E e \in w.legacy : e.name = name /\ e.parameters = g.parameters
    BY <2>2, GeneratedHelpIs
  <2> HIDE DEF help, g
  <2> QED  BY <2>1, <2>3
<1>3. help.source \in {"generated", "legacy"}
  BY <1>2
<1> HIDE DEF help, arity
<1>4. Items(w, name, arity) # {}
  BY DEF help, arity
<1>5. Callables!LooseOf(w, key) = {}
  BY <1>2, LooseNone
<1>6. Callables!InstalledOf(w, key) = {}
  <2>1. \A rank \in w.base, a \in Nat : Has(w, rank, name, a) => a <= argument
    <3>1. \A parameters : Callables!Help("installed", parameters) # Callables!NoHelp
      BY DEF Callables!Help, Callables!NoHelp
    <3> QED  BY <3>1, InstalledHelpIs
  <2>2. \A rank \in w.base : ~Has(w, rank, name, arity)
    BY <1>2, <2>1
  <2> QED  BY <2>2, InstalledOfIs
<1>7. key[1] = "callable" /\ key[2] = name /\ key[3] = arity
  OBVIOUS
<1> HIDE DEF key
<1>8. ASSUME NEW position
      PROVE  Callables!Complete(w, key, position)
               = IF Callables!GeneratedItems(w, key, position) # {} THEN Callables!GeneratedItems(w, key, position)
                 ELSE Callables!LegacyItems(w, key, position)
  BY <1>5, <1>6, <1>7 DEF Callables!Complete
<1>9. ASSUME NEW position
      PROVE  /\ Callables!GeneratedItems(w, key, position)
                  = IF Callables!Cardinality(found) # 1 THEN {}
                    ELSE {Callables!Item(key, "generated", c.parameters) :
                            c \in {c \in found : Callables!Allowed(c.role, position)}}
             /\ Callables!LegacyItems(w, key, position)
                  = {Callables!Item(key, "legacy", e.parameters) :
                       e \in {e \in w.legacy : /\ e.name = name /\ Len(e.parameters) = arity
                                               /\ Callables!Allowed("event", position)}}
  BY <1>7 DEF Callables!GeneratedItems, Callables!LegacyItems
<1>10. \A position \in {"head", "condition", "action"} : Callables!Allowed("event", position) => position = "head"
  BY DEF Callables!Allowed
<1>11. ASSUME NEW position \in {"head", "condition", "action"}
       PROVE  Callables!Complete(w, key, position)
                \subseteq {Callables!Item(key, help.source, help.parameters)}
  <2>1. CASE help.source = "generated"
    <3>1. PICK c \in Callables!Range(w.contracts) : c.name = name /\ c.parameters = help.parameters /\ found = {c}
      BY <1>2, <2>1
    <3>2. Callables!Cardinality(found) = 1
      BY <3>1, FS_Singleton, SameNotions
    <3>3. Callables!GeneratedItems(w, key, position) \subseteq {Callables!Item(key, "generated", c.parameters)}
      BY <1>9, <3>1
    <3>4. ASSUME NEW i \in Callables!LegacyItems(w, key, position)
          PROVE  Callables!GeneratedItems(w, key, position) # {}
      <4>1. PICK e \in w.legacy : /\ e.name = name /\ Len(e.parameters) = arity
                                  /\ Callables!Allowed("event", position)
        BY <1>9, <3>4
      <4>2. c.role = "event"
        <5>1. Len(c.parameters) = Len(e.parameters)
          BY <3>1, <4>1 DEF arity
        <5> QED  BY <3>1, <4>1, <5>1 DEF Callables!IsWorkspace
      <4>3. Callables!GeneratedItems(w, key, position)
              = {Callables!Item(key, "generated", b.parameters) :
                   b \in {b \in found : Callables!Allowed(b.role, position)}}
        BY <1>9, <3>2
      <4>4. c \in {b \in found : Callables!Allowed(b.role, position)}
        BY <3>1, <4>1, <4>2
      <4> QED  BY <4>3, <4>4
    <3> QED  BY <1>8, <2>1, <3>1, <3>3, <3>4
  <2>2. CASE help.source = "legacy"
    <3>1. found = {} /\ \E e \in w.legacy : e.name = name /\ e.parameters = help.parameters
      BY <1>2, <2>2
    <3>2. Callables!GeneratedItems(w, key, position) = {}
      BY <1>9, <3>1
    <3>3. \A e, f \in w.legacy : f.name = e.name => f = e
      BY DEF Callables!IsWorkspace
    <3>4. \A e \in w.legacy : e.name = name => e.parameters = help.parameters
      BY <3>1, <3>3
    <3>5. Callables!LegacyItems(w, key, position) \subseteq {Callables!Item(key, "legacy", help.parameters)}
      BY <1>9, <3>4
    <3> QED  BY <1>8, <2>2, <3>2, <3>5
  <2> QED  BY <1>3, <2>1, <2>2
<1>12. Items(w, name, arity) = {Callables!Item(key, help.source, help.parameters)}
  <2> DEFINE item == Callables!Item(key, help.source, help.parameters)
  <2> HIDE DEF item
  <2>1. \A position \in {"head", "condition", "action"} :
          Callables!Complete(w, <<"callable", name, arity>>, position) \subseteq {item}
    BY <1>11 DEF key, item
  <2>2. Items(w, name, arity) = {item}
    BY <1>4, <2>1 DEF Items
  <2> QED  BY <2>2 DEF item
<1>13. help.source # "installed"
  BY <1>3
<1>14. HelpAgrees({Callables!Item(key, help.source, help.parameters)}, help, hover)
  BY <1>13, OneItem
<1> QED  BY <1>12, <1>14 DEF arity, help

LEMMA ViewsAlwaysAgree ==
  ASSUME NEW w, Callables!IsWorkspace(w), NEW names, NEW arguments \in SUBSET Nat
  PROVE  Callables!ViewsAgree(w, names, arguments)
<1>1. ASSUME NEW name \in names, NEW argument \in arguments, AreComplete(w),
             Callables!SignatureHelp(w, name, argument).source # "none",
             Items(w, name, Len(Callables!SignatureHelp(w, name, argument).parameters)) # {},
             Len(Callables!SignatureHelp(w, name, argument).parameters) = 0
               => Callables!SignatureHelp(w, name, argument).source = "loose"
      PROVE  LET help == Callables!SignatureHelp(w, name, argument)
                 arity == Len(help.parameters)
             IN  HelpAgrees(Items(w, name, arity), help, Callables!InstalledHover(w, name, arity))
  <2>0. argument \in Nat
    OBVIOUS
  <2>1. CASE Callables!LooseArities(w, name, argument) # {}
    BY <1>1, <2>0, <2>1, LooseViews
  <2>2. CASE /\ Callables!LooseArities(w, name, argument) = {}
             /\ Callables!InstalledHelp(w, name, argument) # Callables!NoHelp
    BY <1>1, <2>0, <2>2, InstalledViews
  <2>3. CASE /\ Callables!LooseArities(w, name, argument) = {}
             /\ Callables!InstalledHelp(w, name, argument) = Callables!NoHelp
    <3>1. Callables!SignatureHelp(w, name, argument) = Callables!GeneratedHelp(w, name, argument)
      BY <2>3 DEF Callables!SignatureHelp
    <3>2. Callables!GeneratedHelp(w, name, argument).source # "loose"
      BY DEF Callables!GeneratedHelp, Callables!Help, Callables!NoHelp
    <3> QED  BY <1>1, <2>0, <2>3, <3>1, <3>2, CatalogViews
  <2> QED  BY <2>1, <2>2, <2>3
<1>2. ASSUME NEW name \in names, NEW argument \in arguments
      PROVE  LET help == Callables!SignatureHelp(w, name, argument)
                 key == <<"callable", name, Len(help.parameters)>>
                 items == UNION {Callables!Complete(w, key, position) : position \in {"head", "condition", "action"}}
                 hover == Callables!InstalledHover(w, name, Len(help.parameters))
                 settled == \A p \in DOMAIN w.files : ~Callables!Incomplete(w.files[p])
             IN  /\ settled /\ help.source # "none" /\ items # {}
                 /\ key[3] = 0 => help.source = "loose"
                 =>
                   /\ \A i \in items : i.source = help.source
                   /\ help.parameters =
                        IF Callables!Cardinality({i.parameters : i \in items}) = 1
                           /\ \A i \in items : Len(i.parameters) = key[3]
                        THEN (CHOOSE i \in items : TRUE).parameters ELSE Callables!Positional(key[3])
                   /\ help.source = "installed" /\ hover.source = "installed" =>
                        help.parameters = hover.parameters
  <2> DEFINE help == Callables!SignatureHelp(w, name, argument)
             arity == Len(help.parameters)
             key == <<"callable", name, arity>>
             items == UNION {Callables!Complete(w, key, position) : position \in {"head", "condition", "action"}}
             hover == Callables!InstalledHover(w, name, arity)
             settled == \A p \in DOMAIN w.files : ~Callables!Incomplete(w.files[p])
  <2>1. items = Items(w, name, arity) /\ (settled <=> AreComplete(w)) /\ key[3] = arity
    BY DEF Items, AreComplete
  <2>2. /\ AreComplete(w) /\ help.source # "none" /\ Items(w, name, arity) # {}
        /\ arity = 0 => help.source = "loose"
        => HelpAgrees(Items(w, name, arity), help, hover)
    BY <1>1
  <2> HIDE DEF help, key, items, hover, settled
  <2>3. /\ settled /\ help.source # "none" /\ items # {}
        /\ key[3] = 0 => help.source = "loose"
        =>
          /\ \A i \in items : i.source = help.source
          /\ help.parameters =
               IF Callables!Cardinality({i.parameters : i \in items}) = 1
                  /\ \A i \in items : Len(i.parameters) = key[3]
               THEN (CHOOSE i \in items : TRUE).parameters ELSE Callables!Positional(key[3])
          /\ help.source = "installed" /\ hover.source = "installed" => help.parameters = hover.parameters
    BY <2>1, <2>2, SameNotions DEF HelpAgrees
  <2> QED  BY <2>3 DEF help, key, items, hover, settled
<1> QED  BY <1>2, Zenon DEF Callables!ViewsAgree

-----------------------------------------------------------------------------
(* Rules.  Places are pairs of numbers, so one of any is foremost.         *)

LEMMA EarlierOrders ==
  ASSUME NEW p \in Nat \X Nat, NEW q \in Nat \X Nat, NEW r \in Nat \X Nat
  PROVE  /\ ~Rules!Earlier(p, p)
         /\ Rules!Earlier(p, q) /\ Rules!Earlier(q, r) => Rules!Earlier(p, r)
         /\ Rules!Earlier(p, q) \/ Rules!Earlier(q, p) \/ p = q
         /\ ~(Rules!Earlier(p, q) /\ Rules!Earlier(q, p))
<1>1. PICK a \in Nat, b \in Nat : p = <<a, b>>
  OBVIOUS
<1>2. PICK i \in Nat, j \in Nat : q = <<i, j>>
  OBVIOUS
<1>3. PICK x \in Nat, y \in Nat : r = <<x, y>>
  OBVIOUS
<1> QED  BY <1>1, <1>2, <1>3 DEF Rules!Earlier

(* Which place is foremost of some.                                        *)
Leads(f, S) == f \in S /\ \A q \in S : q = f \/ Rules!Earlier(f, q)

LEMMA ForemostLeads ==
  ASSUME NEW S \in SUBSET (Nat \X Nat), S # {}
  PROVE  Leads(Rules!Foremost(S), S)
<1> DEFINE units == {p[1] : p \in S}
<1>1. units \in SUBSET Nat /\ units # {}
  OBVIOUS
<1>2. PICK u \in units : \A v \in units : u <= v
  <2> HIDE DEF units
  <2> QED  BY <1>1, LeastNatural
<1> DEFINE arguments == {i \in Nat : <<u, i>> \in S}
<1>3. arguments \in SUBSET Nat /\ arguments # {}
  <2>1. PICK p \in S : p[1] = u
    BY <1>2
  <2>2. p = <<u, p[2]>> /\ p[2] \in Nat
    BY <2>1
  <2> QED  BY <2>1, <2>2
<1>4. PICK i \in arguments : \A j \in arguments : i <= j
  <2> HIDE DEF arguments
  <2> QED  BY <1>3, LeastNatural
<1> DEFINE f == <<u, i>>
<1>5. f \in S
  BY <1>4
<1>6. ASSUME NEW q \in S PROVE q = f \/ Rules!Earlier(f, q)
  <2>1. PICK v \in Nat, j \in Nat : q = <<v, j>>
    BY <1>6
  <2>2. u <= v
    <3>1. q[1] \in units
      BY <1>6
    <3> QED  BY <1>2, <2>1, <3>1
  <2>3. v = u => i <= j
    BY <1>4, <1>6, <2>1
  <2>4. u \in Nat /\ i \in Nat
    BY <1>1, <1>2, <1>4
  <2> QED  BY <2>1, <2>2, <2>3, <2>4 DEF Rules!Earlier
<1>7. \E p \in S : \A q \in S : q = p \/ Rules!Earlier(p, q)
  BY <1>5, <1>6
<1> HIDE DEF f
<1> QED  BY <1>7 DEF Leads, Rules!Foremost

LEMMA LeadsIsForemost ==
  ASSUME NEW S \in SUBSET (Nat \X Nat), NEW f, Leads(f, S)
  PROVE  Rules!Foremost(S) = f
<1>1. Leads(Rules!Foremost(S), S)
  BY ForemostLeads DEF Leads
<1> QED  BY <1>1, EarlierOrders DEF Leads

LEMMA LocalsAre ==
  ASSUME NEW rule, Rules!IsRule(rule)
  PROVE  \A p : p \in Rules!Locals(rule) <=>
           /\ p \in Nat \X Nat /\ p[1] \in Rules!Units(rule)
           /\ p[2] \in 0 .. Rules!Arity(Rules!Unit(rule, p[1]))
           /\ Rules!IsLocal(Rules!Unit(rule, p[1]), p[2])
<1>1. Rules!Units(rule) \subseteq Nat /\ \A u \in Rules!Units(rule) : Rules!Arity(Rules!Unit(rule, u)) \in Nat
  BY DEF Rules!IsRule, Rules!Units
<1>2. ASSUME NEW p
      PROVE  p \in Rules!Locals(rule) <=>
               \E u \in Rules!Units(rule) : \E i \in 0 .. Rules!Arity(Rules!Unit(rule, u)) :
                 p = <<u, i>> /\ Rules!IsLocal(Rules!Unit(rule, u), i)
  BY DEF Rules!Locals
<1>3. ASSUME NEW p, p \in Rules!Locals(rule)
      PROVE  /\ p \in Nat \X Nat /\ p[1] \in Rules!Units(rule)
             /\ p[2] \in 0 .. Rules!Arity(Rules!Unit(rule, p[1]))
             /\ Rules!IsLocal(Rules!Unit(rule, p[1]), p[2])
  <2>1. PICK u \in Rules!Units(rule) : \E i \in 0 .. Rules!Arity(Rules!Unit(rule, u)) :
          p = <<u, i>> /\ Rules!IsLocal(Rules!Unit(rule, u), i)
    BY <1>2, <1>3
  <2>3. PICK i \in 0 .. Rules!Arity(Rules!Unit(rule, u)) :
          p = <<u, i>> /\ Rules!IsLocal(Rules!Unit(rule, u), i)
    BY <2>1
  <2>2. i \in Nat /\ u \in Nat
    BY <1>1
  <2> QED  BY <2>2, <2>3
<1>4. ASSUME NEW p, p \in Nat \X Nat, p[1] \in Rules!Units(rule),
             p[2] \in 0 .. Rules!Arity(Rules!Unit(rule, p[1])),
             Rules!IsLocal(Rules!Unit(rule, p[1]), p[2])
      PROVE  p \in Rules!Locals(rule)
  <2>1. p = <<p[1], p[2]>>
    BY <1>4
  <2> QED  BY <1>2, <1>4, <2>1
<1> QED  BY <1>3, <1>4

(* What an analysis finds, without the order in which it looks.            *)
Supplies(rule, outputs, c, p) ==
  /\ p[2] > 0
  /\ IF p[1] = 0 THEN rule.kind # "IF" \/ rule.head.database \/ Rules!EventView(c, rule.head) # Unset
     ELSE /\ rule.body[p[1]].kind = "condition" /\ ~rule.body[p[1]].negated
          /\ Rules!Unit(rule, p[1]).database \/ p \in outputs

Suppliers(c, rule, outputs, name) ==
  {p \in Rules!PlacesOf(rule, name) : Supplies(rule, outputs, c, p)}
Origin(c, rule, outputs, name) == Rules!Foremost(Suppliers(c, rule, outputs, name))
IsBound(c, rule, outputs, name, u) == \E q \in Suppliers(c, rule, outputs, name) : q[1] < u

BindingAt(c, rule, outputs, p) ==
  LET name == Rules!At(rule, p).name
      origin == Origin(c, rule, outputs, name)
  IN  IF \/ Suppliers(c, rule, outputs, name) = {}
         \/ Rules!Earlier(p, origin)
         \/ p[1] = origin[1] /\ ~Supplies(rule, outputs, c, p)
      THEN Unset ELSE origin

OwnType(c, rule, outputs, p) ==
  IF Rules!At(rule, p).cast # Unset THEN Rules!At(rule, p).cast
  ELSE IF p \in outputs /\ IsBound(c, rule, outputs, Rules!At(rule, p).name, p[1]) THEN Unset
  ELSE Rules!EngineType(c, rule, outputs, p)

GivenTo(c, rule, outputs, Q, name) ==
  {OwnType(c, rule, outputs, q) : q \in {q \in Q : Rules!At(rule, q).name = name}} \ {Unset}

TypesOver(c, rule, outputs, Q) ==
  [n \in {n \in Rules!VariablesOf(rule) : GivenTo(c, rule, outputs, Q, n) # {}} |->
     Rules!Only(GivenTo(c, rule, outputs, Q, n))]

Above(rule, u) == {p \in Rules!Locals(rule) : p[1] < u}

EvidenceAt(c, rule, outputs, p) ==
  IF OwnType(c, rule, outputs, p) # Unset THEN OwnType(c, rule, outputs, p)
  ELSE Rules!Only(GivenTo(c, rule, outputs, Above(rule, p[1]), Rules!At(rule, p).name))

KnownAbove(c, rule, outputs, u) ==
  [bound |-> [n \in {n \in Rules!VariablesOf(rule) : IsBound(c, rule, outputs, n, u)} |->
                Origin(c, rule, outputs, n)],
   types |-> TypesOver(c, rule, outputs, Above(rule, u)),
   binding |-> [p \in Above(rule, u) |-> BindingAt(c, rule, outputs, p)],
   evidence |-> [p \in Above(rule, u) |-> EvidenceAt(c, rule, outputs, p)]]

(* Outputs are arguments of what must hold.                                *)
OutputsFit(rule, outputs) ==
  \A p \in outputs : p \in Rules!Locals(rule) /\ p[2] > 0 /\ Rules!Positive(rule, p[1])

LEMMA OutputsDoFit == ASSUME NEW c, NEW rule PROVE OutputsFit(rule, Rules!Outputs(c, rule))
BY DEF OutputsFit, Rules!Outputs, Rules!Queries

LEMMA SuppliersAre ==
  ASSUME NEW c, NEW rule, Rules!IsRule(rule), NEW outputs, NEW name
  PROVE  /\ \A p : p \in Suppliers(c, rule, outputs, name) <=>
              /\ p \in Rules!Locals(rule) /\ Rules!At(rule, p).name = name
              /\ Supplies(rule, outputs, c, p)
         /\ Suppliers(c, rule, outputs, name) \in SUBSET (Nat \X Nat)
         /\ Suppliers(c, rule, outputs, name) # {} =>
              Leads(Origin(c, rule, outputs, name), Suppliers(c, rule, outputs, name))
<1> DEFINE S == Suppliers(c, rule, outputs, name)
<1>1. \A p : p \in S <=> /\ p \in Rules!Locals(rule) /\ Rules!At(rule, p).name = name
                         /\ Supplies(rule, outputs, c, p)
  BY DEF Suppliers, Rules!PlacesOf
<1>2. S \in SUBSET (Nat \X Nat)
  BY <1>1, LocalsAre
<1> HIDE DEF S
<1>3. S # {} => Leads(Rules!Foremost(S), S)
  BY <1>2, ForemostLeads
<1> QED  BY <1>1, <1>2, <1>3 DEF S, Origin

(* What a unit can bind is what supplies a value there.                    *)
LEMMA ProducersSupply ==
  ASSUME NEW c, NEW rule, Rules!IsRule(rule), NEW outputs, OutputsFit(rule, outputs),
         NEW u \in Rules!Units(rule), NEW p
  PROVE  p \in Rules!Producers(rule, outputs, Rules!UnitKind(c, rule, outputs, u), u) <=>
           p \in Rules!Locals(rule) /\ p[1] = u /\ Supplies(rule, outputs, c, p)
<1> DEFINE kind == Rules!UnitKind(c, rule, outputs, u)
           Here == p \in Rules!Locals(rule) /\ p[1] = u
<1>0. u \in Nat
  BY DEF Rules!IsRule, Rules!Units
<1>1. p \in Rules!Producers(rule, outputs, kind, u) <=>
        CASE kind = "none"  -> FALSE
          [] kind = "query" -> p \in outputs /\ p[1] = u
          [] OTHER          -> Here /\ p[2] > 0
  BY DEF Rules!Producers
<1>2. CASE u = 0
  <2>1. kind = IF rule.kind # "IF" \/ Rules!EventView(c, rule.head) # Unset THEN "all"
               ELSE IF rule.head.database THEN "database" ELSE "none"
    BY <1>2 DEF Rules!UnitKind
  <2>2. Here => (Supplies(rule, outputs, c, p) <=>
                   p[2] > 0 /\ (rule.kind # "IF" \/ rule.head.database \/ Rules!EventView(c, rule.head) # Unset))
    BY <1>2 DEF Supplies
  <2> HIDE DEF kind, Here
  <2>3. p \in Rules!Producers(rule, outputs, kind, u) <=> Here /\ Supplies(rule, outputs, c, p)
    BY <1>1, <2>1, <2>2
  <2> QED  BY <2>3 DEF kind, Here
<1>3. CASE u # 0
  <2>1. Rules!Positive(rule, u) <=> rule.body[u].kind = "condition" /\ ~rule.body[u].negated
    BY <1>0, <1>3 DEF Rules!Positive
  <2>2. kind = IF Rules!Positive(rule, u) /\ Rules!Unit(rule, u).database THEN "database"
               ELSE IF \E q \in outputs : q[1] = u THEN "query" ELSE "none"
    BY <1>3 DEF Rules!UnitKind
  <2>3. Here => (Supplies(rule, outputs, c, p) <=>
                   /\ p[2] > 0 /\ Rules!Positive(rule, u)
                   /\ Rules!Unit(rule, u).database \/ p \in outputs)
    BY <1>3, <2>1 DEF Supplies
  <2>4. p \in outputs /\ p[1] = u => Here /\ p[2] > 0 /\ Rules!Positive(rule, u)
    BY DEF OutputsFit
  <2> HIDE DEF kind, Here
  <2>5. Here => p[1] = u
    BY DEF Here
  <2>6. p \in Rules!Producers(rule, outputs, kind, u) <=> Here /\ Supplies(rule, outputs, c, p)
    <3>1. CASE kind = "database"
      BY <1>1, <2>2, <2>3, <3>1
    <3>2. CASE kind = "query"
      BY <1>1, <2>2, <2>3, <2>4, <2>5, <3>2
    <3>3. CASE kind = "none"
      BY <1>1, <2>2, <2>3, <2>5, <3>3
    <3> QED  BY <2>2, <3>1, <3>2, <3>3
  <2> QED  BY <2>6 DEF kind, Here
<1> QED  BY <1>2, <1>3

(* What a unit binds: where it supplies a value that none above does.      *)
Binders(c, rule, outputs, u) ==
  {p \in Rules!Locals(rule) :
     p[1] = u /\ Supplies(rule, outputs, c, p) /\ ~IsBound(c, rule, outputs, Rules!At(rule, p).name, u)}

LEMMA NamesAre == ASSUME NEW rule, NEW p \in Rules!Locals(rule)
                  PROVE  Rules!At(rule, p).name \in Rules!VariablesOf(rule)
BY DEF Rules!VariablesOf

LEMMA BindersAre ==
  ASSUME NEW c, NEW rule, Rules!IsRule(rule), NEW outputs, OutputsFit(rule, outputs),
         NEW u \in Rules!Units(rule)
  PROVE  Rules!Unbound(rule, Rules!Producers(rule, outputs, Rules!UnitKind(c, rule, outputs, u), u),
                       KnownAbove(c, rule, outputs, u)) = Binders(c, rule, outputs, u)
<1> DEFINE producers == Rules!Producers(rule, outputs, Rules!UnitKind(c, rule, outputs, u), u)
           s == KnownAbove(c, rule, outputs, u)
<1>1. \A n : n \in DOMAIN s.bound <=> n \in Rules!VariablesOf(rule) /\ IsBound(c, rule, outputs, n, u)
  BY DEF KnownAbove
<1>2. \A p : p \in producers <=> p \in Rules!Locals(rule) /\ p[1] = u /\ Supplies(rule, outputs, c, p)
  BY ProducersSupply
<1> HIDE DEF producers, s
<1>3. ASSUME NEW p
      PROVE  p \in Rules!Unbound(rule, producers, s) <=> p \in Binders(c, rule, outputs, u)
  <2>1. p \in Rules!Unbound(rule, producers, s) <=>
          p \in producers /\ Rules!At(rule, p).name \notin DOMAIN s.bound
    BY DEF Rules!Unbound
  <2>2. p \in Rules!Locals(rule) => Rules!At(rule, p).name \in Rules!VariablesOf(rule)
    BY NamesAre
  <2> QED  BY <1>1, <1>2, <2>1, <2>2 DEF Binders
<1>4. Rules!Unbound(rule, producers, s) = Binders(c, rule, outputs, u)
  BY <1>3
<1> QED  BY <1>4 DEF producers, s

(* The first of them is where the variable's value comes from.             *)
LEMMA FirstAre ==
  ASSUME NEW c, NEW rule, Rules!IsRule(rule), NEW outputs, NEW u \in Rules!Units(rule)
  PROVE  LET first == Rules!FirstProducers(rule, Binders(c, rule, outputs, u)) IN
         /\ \A n : n \in DOMAIN first <=>
              /\ n \in Rules!VariablesOf(rule) /\ ~IsBound(c, rule, outputs, n, u)
              /\ \E q \in Suppliers(c, rule, outputs, n) : q[1] = u
         /\ \A n \in DOMAIN first : /\ first[n] = Origin(c, rule, outputs, n)
                                    /\ Origin(c, rule, outputs, n) \in Suppliers(c, rule, outputs, n)
                                    /\ Origin(c, rule, outputs, n)[1] = u
<1> DEFINE P == Binders(c, rule, outputs, u)
           first == Rules!FirstProducers(rule, P)
           D == {Rules!At(rule, p).name : p \in P}
           G(n) == {p \in P : Rules!At(rule, p).name = n}
           S(n) == Suppliers(c, rule, outputs, n)
<1>1. first = [n \in D |-> Rules!Foremost(G(n))]
  BY DEF Rules!FirstProducers
<1>2. \A n, p : p \in S(n) <=> p \in Rules!Locals(rule) /\ Rules!At(rule, p).name = n
                               /\ Supplies(rule, outputs, c, p)
  BY SuppliersAre
<1>3. \A n : S(n) \in SUBSET (Nat \X Nat)
  BY SuppliersAre
<1>4. \A p : p \in P <=> /\ p \in Rules!Locals(rule) /\ p[1] = u /\ Supplies(rule, outputs, c, p)
                         /\ ~IsBound(c, rule, outputs, Rules!At(rule, p).name, u)
  BY DEF Binders
<1>5. \A n : IsBound(c, rule, outputs, n, u) <=> \E q \in S(n) : q[1] < u
  BY DEF IsBound
<1> HIDE DEF P, S
<1>6. ASSUME NEW n
      PROVE  n \in D <=> /\ n \in Rules!VariablesOf(rule) /\ ~IsBound(c, rule, outputs, n, u)
                         /\ \E q \in S(n) : q[1] = u
  <2>1. n \in D <=> \E p \in P : Rules!At(rule, p).name = n
    OBVIOUS
  <2>2. \A p : p \in P /\ Rules!At(rule, p).name = n <=>
                 p \in S(n) /\ p[1] = u /\ ~IsBound(c, rule, outputs, n, u)
    BY <1>2, <1>4
  <2>3. \A p : p \in S(n) => n \in Rules!VariablesOf(rule)
    BY <1>2, NamesAre
  <2> HIDE DEF D
  <2> QED  BY <2>1, <2>2, <2>3
<1>7. ASSUME NEW n \in D
      PROVE  Leads(Rules!Foremost(G(n)), S(n)) /\ Rules!Foremost(G(n))[1] = u
  <2>1. \A p : p \in G(n) <=> p \in S(n) /\ p[1] = u
    <3>1. \A p : p \in P /\ Rules!At(rule, p).name = n <=>
                   p \in S(n) /\ p[1] = u /\ ~IsBound(c, rule, outputs, n, u)
      BY <1>2, <1>4
    <3> QED  BY <1>6, <3>1
  <2>2. G(n) # {} /\ G(n) \in SUBSET (Nat \X Nat)
    BY <1>3, <2>1
  <2> DEFINE f == Rules!Foremost(G(n))
  <2>3. Leads(f, G(n))
    <3> HIDE DEF G
    <3> QED  BY <2>2, ForemostLeads
  <2> HIDE DEF f, G
  <2>4. f \in S(n) /\ f[1] = u
    BY <2>1, <2>3 DEF Leads
  <2>5. ASSUME NEW q \in S(n) PROVE q = f \/ Rules!Earlier(f, q)
    <3>1. q \in Nat \X Nat /\ f \in Nat \X Nat /\ u \in Nat
      BY <1>3, <2>4
    <3>2. ~(q[1] < u)
      BY <1>5, <1>6
    <3>3. CASE q[1] = u
      BY <2>1, <2>3, <3>3 DEF Leads
    <3>4. CASE q[1] # u
      <4>1. f[1] < q[1]
        BY <2>4, <3>1, <3>2, <3>4
      <4> QED  BY <4>1 DEF Rules!Earlier
    <3> QED  BY <3>3, <3>4
  <2>6. Leads(f, S(n))
    BY <2>4, <2>5 DEF Leads
  <2> QED  BY <2>4, <2>6 DEF f
<1>8. ASSUME NEW n \in D
      PROVE  /\ first[n] = Origin(c, rule, outputs, n)
             /\ Origin(c, rule, outputs, n) \in S(n) /\ Origin(c, rule, outputs, n)[1] = u
  <2> DEFINE f == Rules!Foremost(G(n))
  <2>1. first[n] = f
    BY <1>1
  <2>2. Leads(f, S(n)) /\ f[1] = u
    BY <1>7
  <2> HIDE DEF f
  <2>3. Rules!Foremost(S(n)) = f
    BY <1>3, <2>2, LeadsIsForemost
  <2>4. Origin(c, rule, outputs, n) = f
    BY <2>3 DEF Origin, S
  <2> QED  BY <2>1, <2>2, <2>4 DEF Leads
<1>9. DOMAIN first = D
  BY <1>1
<1> HIDE DEF D, first
<1> QED  BY <1>6, <1>8, <1>9 DEF first, P, S

LEMMA OnlyIs ==
  ASSUME NEW S
  PROVE  /\ \A x : S = {x} => Rules!Only(S) = x
         /\ (\A x : S # {x}) => Rules!Only(S) = Unset
BY DEF Rules!Only

(* A place more, as it is merged.                                          *)
LEMMA TypesGain ==
  ASSUME NEW c, NEW rule, NEW outputs, NEW Q, NEW q \in Rules!Locals(rule)
  PROVE  TypesOver(c, rule, outputs, Q \cup {q}) =
           IF OwnType(c, rule, outputs, q) = Unset THEN TypesOver(c, rule, outputs, Q)
           ELSE Rules!UpdateType(TypesOver(c, rule, outputs, Q), Rules!At(rule, q).name,
                                 OwnType(c, rule, outputs, q))
<1> DEFINE type == OwnType(c, rule, outputs, q)
           name == Rules!At(rule, q).name
           V == Rules!VariablesOf(rule)
           G(n) == GivenTo(c, rule, outputs, Q, n)
           H(n) == GivenTo(c, rule, outputs, Q \cup {q}, n)
           types == [n \in {n \in V : G(n) # {}} |-> Rules!Only(G(n))]
           next == [n \in {n \in V : H(n) # {}} |-> Rules!Only(H(n))]
<1>1. TypesOver(c, rule, outputs, Q) = types /\ TypesOver(c, rule, outputs, Q \cup {q}) = next
  BY DEF TypesOver
<1>2. name \in V
  BY NamesAre
<1>3. \A n : H(n) = IF n = name /\ type # Unset THEN G(n) \cup {type} ELSE G(n)
  <2> TAKE n
  <2>1. \A t : t \in G(n) <=> t # Unset /\ \E p \in Q : Rules!At(rule, p).name = n /\ t = OwnType(c, rule, outputs, p)
    BY DEF GivenTo
  <2>2. \A t : t \in H(n) <=> t # Unset /\ \E p \in Q \cup {q} : Rules!At(rule, p).name = n /\ t = OwnType(c, rule, outputs, p)
    BY DEF GivenTo
  <2> HIDE DEF G, H
  <2>3. \A t : t \in H(n) <=> t \in G(n) \/ (t = type /\ n = name /\ type # Unset)
    BY <2>1, <2>2
  <2> QED  BY <2>3
<1>4. \A n : Unset \notin G(n)
  BY DEF GivenTo
<1> HIDE DEF type, name, V, G, H
<1>5. CASE type = Unset
  <2>1. \A n : H(n) = G(n)
    BY <1>3, <1>5
  <2>2. next = types
    BY <2>1
  <2> QED  BY <1>1, <1>5, <2>2 DEF type
<1>6. CASE type # Unset
  <2> DEFINE updated == Rules!UpdateType(types, name, type)
  <2>1. updated = [n \in DOMAIN types \cup {name} |->
                     IF n # name THEN types[n]
                     ELSE IF name \in DOMAIN types /\ types[name] # type THEN Unset ELSE type]
    BY DEF Rules!UpdateType
  <2>2. \A n : n \in DOMAIN types \cup {name} <=> n \in V /\ H(n) # {}
    BY <1>2, <1>3, <1>6
  <2>3. ASSUME NEW n \in V, H(n) # {}
        PROVE  Rules!Only(H(n)) =
                 IF n # name THEN types[n]
                 ELSE IF name \in DOMAIN types /\ types[name] # type THEN Unset ELSE type
    <3>1. CASE n # name
      <4>1. H(n) = G(n)
        BY <1>3, <3>1
      <4> QED  BY <2>3, <3>1, <4>1
    <3>2. CASE n = name
      <4>1. H(n) = G(n) \cup {type}
        BY <1>3, <1>6, <3>2
      <4>2. CASE G(n) = {}
        <5>1. H(n) = {type} /\ name \notin DOMAIN types
          BY <3>2, <4>1, <4>2
        <5>2. Rules!Only(H(n)) = type
          BY <5>1, OnlyIs
        <5> QED  BY <3>2, <5>1, <5>2
      <4>3. CASE G(n) = {type}
        <5>1. H(n) = {type} /\ Rules!Only(G(n)) = type
          BY <4>1, <4>3, OnlyIs
        <5>2. Rules!Only(H(n)) = type
          BY <5>1, OnlyIs
        <5>3. types[name] = type
          BY <1>2, <3>2, <4>3, <5>1
        <5> QED  BY <3>2, <5>2, <5>3
      <4>4. CASE G(n) # {} /\ G(n) # {type}
        <5>1. PICK t \in G(n) : t # type
          BY <4>4
        <5>2. \A x : H(n) # {x}
          BY <4>1, <5>1
        <5>3. Rules!Only(H(n)) = Unset
          BY <5>2, OnlyIs
        <5>4. Rules!Only(G(n)) # type
          <6>1. CASE \E x : G(n) = {x}
            <7>1. G(n) = {t}
              BY <5>1, <6>1
            <7>2. Rules!Only(G(n)) = t
              BY <7>1, OnlyIs
            <7> QED  BY <5>1, <7>2
          <6>2. CASE \A x : G(n) # {x}
            <7>1. Rules!Only(G(n)) = Unset
              BY <6>2, OnlyIs
            <7> QED  BY <1>6, <7>1
          <6> QED  BY <6>1, <6>2
        <5>5. name \in DOMAIN types /\ types[name] = Rules!Only(G(n))
          BY <1>2, <3>2, <4>4
        <5> QED  BY <3>2, <5>3, <5>4, <5>5
      <4> QED  BY <4>2, <4>3, <4>4
    <3> QED  BY <3>1, <3>2
  <2>4. DOMAIN types \cup {name} = {n \in V : H(n) # {}}
    BY <2>2
  <2> HIDE DEF updated, types
  <2>5. updated = next
    BY <2>1, <2>3, <2>4
  <2> QED  BY <1>1, <1>6, <2>5 DEF updated, type, name
<1> QED  BY <1>5, <1>6

(* The places of a unit are merged one by one.                             *)
LEMMA TypesUpdated ==
  ASSUME NEW c, NEW rule, Rules!IsRule(rule), NEW outputs, NEW u \in Rules!Units(rule)
  PROVE  Rules!UpdateTypes(rule, u, [p \in {p \in Rules!Locals(rule) : p[1] = u} |-> OwnType(c, rule, outputs, p)],
                           TypesOver(c, rule, outputs, Above(rule, u)))
           = TypesOver(c, rule, outputs, Above(rule, u + 1))
<1> DEFINE here == {p \in Rules!Locals(rule) : p[1] = u}
           typed == [p \in here |-> OwnType(c, rule, outputs, p)]
           types == TypesOver(c, rule, outputs, Above(rule, u))
           N == Rules!Arity(Rules!Unit(rule, u)) + 1
           Next1(f, i) == IF <<u, i - 1>> \in DOMAIN typed /\ typed[<<u, i - 1>>] # Unset
                          THEN Rules!UpdateType(f[i - 1], Rules!At(rule, <<u, i - 1>>).name, typed[<<u, i - 1>>])
                          ELSE f[i - 1]
           Solves(f) == f = [i \in 0 .. N |-> IF i = 0 THEN types ELSE Next1(f, i)]
           updated == CHOOSE f : Solves(f)
           UpTo(i) == Above(rule, u) \cup {p \in here : p[2] < i}
           h == [i \in 0 .. N |-> TypesOver(c, rule, outputs, UpTo(i))]
<1>1. Rules!UpdateTypes(rule, u, typed, types) = updated[N]
  BY DEF Rules!UpdateTypes
<1>2. N \in Nat /\ u \in Nat
  BY DEF Rules!IsRule, Rules!Units
<1>3. \A p \in Rules!Locals(rule) : /\ p \in Nat \X Nat
                                    /\ p[1] = u => p[2] < N
  <2> TAKE p \in Rules!Locals(rule)
  <2>1. p \in Nat \X Nat /\ p[2] \in 0 .. Rules!Arity(Rules!Unit(rule, p[1]))
    BY LocalsAre
  <2>2. p[1] = u => p[2] \in 0 .. Rules!Arity(Rules!Unit(rule, u))
    BY <2>1
  <2>3. Rules!Arity(Rules!Unit(rule, u)) \in Nat
    BY DEF Rules!IsRule
  <2> QED  BY <2>1, <2>2, <2>3
<1>4. UpTo(0) = Above(rule, u) /\ UpTo(N) = Above(rule, u + 1)
  <2>1. \A p \in here : ~(p[2] < 0) /\ p[2] < N
    BY <1>3
  <2>2. \A p \in Rules!Locals(rule) : p[1] < u + 1 <=> p[1] < u \/ p[1] = u
    BY <1>2, <1>3
  <2> QED  BY <2>1, <2>2 DEF Above
<1>5. ASSUME NEW i \in 1 .. N
      PROVE  UpTo(i) = IF <<u, i - 1>> \in here THEN UpTo(i - 1) \cup {<<u, i - 1>>} ELSE UpTo(i - 1)
  <2>1. \A p \in here : (p[2] < i <=> p[2] < i - 1 \/ p = <<u, i - 1>>)
    BY <1>2, <1>3
  <2>2. <<u, i - 1>>[2] < i
    BY <1>2
  <2> HIDE DEF here
  <2> QED  BY <2>1, <2>2
<1>6. ASSUME NEW i \in 1 .. N PROVE h[i] = Next1(h, i)
  <2> DEFINE q == <<u, i - 1>>
  <2>1. i \in 0 .. N /\ i - 1 \in 0 .. N
    BY <1>2
  <2>2. h[i] = TypesOver(c, rule, outputs, UpTo(i)) /\ h[i - 1] = TypesOver(c, rule, outputs, UpTo(i - 1))
    BY <2>1
  <2>3. CASE q \in here
    <3>1. q \in Rules!Locals(rule) /\ q \in DOMAIN typed /\ typed[q] = OwnType(c, rule, outputs, q)
      BY <2>3
    <3>2. UpTo(i) = UpTo(i - 1) \cup {q}
      BY <1>5, <2>3
    <3> HIDE DEF q, UpTo, h, typed
    <3>3. h[i] = IF typed[q] = Unset THEN h[i - 1]
                 ELSE Rules!UpdateType(h[i - 1], Rules!At(rule, q).name, typed[q])
      BY <2>2, <3>1, <3>2, TypesGain
    <3> QED  BY <3>1, <3>3 DEF q
  <2>4. CASE q \notin here
    <3>1. UpTo(i) = UpTo(i - 1) /\ q \notin DOMAIN typed
      BY <1>5, <2>4
    <3> QED  BY <2>2, <3>1
  <2> QED  BY <2>3, <2>4
<1>7. h[0] = types
  <2>1. 0 \in 0 .. N
    BY <1>2
  <2> QED  BY <1>4, <2>1
<1> HIDE DEF UpTo
<1>8. Solves(h)
  <2>1. ASSUME NEW i \in 0 .. N PROVE h[i] = IF i = 0 THEN types ELSE Next1(h, i)
    <3>1. CASE i # 0
      <4>1. i \in 1 .. N
        BY <1>2, <3>1
      <4> QED  BY <1>6, <3>1, <4>1
    <3> QED  BY <1>7, <3>1
  <2> HIDE DEF Next1
  <2>2. h = [i \in 0 .. N |-> h[i]]
    OBVIOUS
  <2> HIDE DEF h
  <2>3. [i \in 0 .. N |-> h[i]] = [i \in 0 .. N |-> IF i = 0 THEN types ELSE Next1(h, i)]
    BY <2>1
  <2> QED  BY <2>2, <2>3
<1>9. Solves(updated)
  <2> HIDE DEF Solves
  <2> QED  BY <1>8
<1> HIDE DEF updated
<1> DEFINE S == {i \in 0 .. N : updated[i] = h[i]}
<1>10. \A i \in 0 .. N : updated[i] = IF i = 0 THEN types ELSE Next1(updated, i)
  <2> HIDE DEF Next1
  <2> QED  BY <1>9
<1>11. 0 \in S
  <2>1. 0 \in 0 .. N
    BY <1>2
  <2> QED  BY <1>7, <1>10, <2>1
<1>12. ASSUME NEW i \in 1 .. N, i - 1 \in S PROVE i \in S
  <2>1. i \in 0 .. N /\ i # 0
    BY <1>2
  <2>2. updated[i - 1] = h[i - 1]
    BY <1>12
  <2>3. updated[i] = Next1(updated, i) /\ h[i] = Next1(h, i)
    BY <1>6, <1>10, <2>1
  <2> HIDE DEF typed, h
  <2>4. Next1(updated, i) = Next1(h, i)
    BY <2>2
  <2> QED  BY <2>1, <2>3, <2>4
<1>13. \A i \in 0 .. N : i \in S
  <2> HIDE DEF S, N
  <2> QED  BY <1>2, <1>11, <1>12, BoundedInduction
<1>14. N \in 0 .. N /\ h[N] = TypesOver(c, rule, outputs, UpTo(N))
  BY <1>2
<1> QED  BY <1>1, <1>4, <1>13, <1>14

(* One unit.                                                               *)
LEMMA UnitProcessed ==
  ASSUME NEW c, NEW rule, Rules!IsRule(rule), NEW outputs, OutputsFit(rule, outputs),
         NEW u \in Rules!Units(rule)
  PROVE  Rules!Process(c, rule, outputs, u, KnownAbove(c, rule, outputs, u))
           = KnownAbove(c, rule, outputs, u + 1)
<1> DEFINE s == KnownAbove(c, rule, outputs, u)
           next == KnownAbove(c, rule, outputs, u + 1)
           here == {p \in Rules!Locals(rule) : p[1] = u}
           kind == Rules!UnitKind(c, rule, outputs, u)
           P == Binders(c, rule, outputs, u)
           first == Rules!FirstProducers(rule, P)
           typed == Rules!TypesOf(c, rule, outputs, P, here)
           Name(p) == Rules!At(rule, p).name
           V == Rules!VariablesOf(rule)
           Visible(p) == /\ Name(p) \in DOMAIN first
                         /\ p \in P \/ kind \in {"all", "database"}
                         /\ ~Rules!Earlier(p, first[Name(p)])
           binding == [p \in here |->
             IF Name(p) \in DOMAIN s.bound THEN s.bound[Name(p)]
             ELSE IF Visible(p) THEN first[Name(p)] ELSE Unset]
           evidence == [p \in here |->
             IF typed[p] # Unset THEN typed[p]
             ELSE IF Name(p) \in DOMAIN s.types THEN s.types[Name(p)] ELSE Unset]
<1>1. Rules!Process(c, rule, outputs, u, s) =
        [bound |-> Rules!Over(first, s.bound),
         types |-> Rules!UpdateTypes(rule, u, typed, s.types),
         binding |-> Rules!Over(binding, s.binding),
         evidence |-> Rules!Over(evidence, s.evidence)]
  <2>1. Rules!Unbound(rule, Rules!Producers(rule, outputs, kind, u), s) = P
    BY BindersAre
  <2>2. Rules!Process(c, rule, outputs, u, s) = Rules!Merge(rule, u, here, kind, P, first, typed, s)
    BY <2>1 DEF Rules!Process, Rules!ProcessKind, Rules!ProcessBinding
  <2> QED  BY <2>2 DEF Rules!Merge
<1>2. /\ s.bound = [n \in {n \in V : IsBound(c, rule, outputs, n, u)} |-> Origin(c, rule, outputs, n)]
      /\ s.types = TypesOver(c, rule, outputs, Above(rule, u))
      /\ s.binding = [p \in Above(rule, u) |-> BindingAt(c, rule, outputs, p)]
      /\ s.evidence = [p \in Above(rule, u) |-> EvidenceAt(c, rule, outputs, p)]
  BY DEF KnownAbove
<1>3. next = [bound |-> [n \in {n \in V : IsBound(c, rule, outputs, n, u + 1)} |-> Origin(c, rule, outputs, n)],
              types |-> TypesOver(c, rule, outputs, Above(rule, u + 1)),
              binding |-> [p \in Above(rule, u + 1) |-> BindingAt(c, rule, outputs, p)],
              evidence |-> [p \in Above(rule, u + 1) |-> EvidenceAt(c, rule, outputs, p)]]
  BY DEF KnownAbove
<1>4. /\ \A n : n \in DOMAIN first <=>
           n \in V /\ ~IsBound(c, rule, outputs, n, u) /\ \E q \in Suppliers(c, rule, outputs, n) : q[1] = u
      /\ \A n \in DOMAIN first : /\ first[n] = Origin(c, rule, outputs, n)
                                 /\ Origin(c, rule, outputs, n) \in Suppliers(c, rule, outputs, n)
                                 /\ Origin(c, rule, outputs, n)[1] = u
  BY FirstAre
<1>5. \A n, p : p \in Suppliers(c, rule, outputs, n) <=>
                  p \in Rules!Locals(rule) /\ Name(p) = n /\ Supplies(rule, outputs, c, p)
  BY SuppliersAre
<1>6. \A n, v : IsBound(c, rule, outputs, n, v) <=> \E q \in Suppliers(c, rule, outputs, n) : q[1] < v
  BY DEF IsBound
<1>7. u \in Nat /\ \A p \in Rules!Locals(rule) : p \in Nat \X Nat /\ Name(p) \in V
  BY LocalsAre, NamesAre DEF Rules!IsRule, Rules!Units
<1>8. \A n : IsBound(c, rule, outputs, n, u + 1) <=>
               IsBound(c, rule, outputs, n, u) \/ \E q \in Suppliers(c, rule, outputs, n) : q[1] = u
  <2>1. \A p \in Rules!Locals(rule) : p[1] < u + 1 <=> p[1] < u \/ p[1] = u
    BY <1>7
  <2> QED  BY <1>5, <1>6, <2>1
<1>9. \A p : p \in Above(rule, u + 1) <=> p \in Above(rule, u) \/ p \in here
  <2>1. \A p \in Rules!Locals(rule) : p[1] < u + 1 <=> p[1] < u \/ p[1] = u
    BY <1>7
  <2> QED  BY <2>1 DEF Above
<1>10. \A p : ~(p \in Above(rule, u) /\ p \in here)
  BY <1>7 DEF Above
<1>11. \A p \in here : typed[p] = OwnType(c, rule, outputs, p)
  <2> TAKE p \in here
  <2>1. typed[p] = Rules!TypeOf(c, rule, outputs, P, p)
    BY DEF Rules!TypesOf
  <2>2. p \in outputs => (p \notin P <=> IsBound(c, rule, outputs, Name(p), p[1]))
    <3>1. p \in outputs => p[2] > 0 /\ Rules!Positive(rule, u)
      BY DEF OutputsFit
    <3>2. p \in outputs => Supplies(rule, outputs, c, p)
      BY <1>7, <3>1 DEF Supplies, Rules!Positive
    <3> QED  BY <3>2 DEF Binders
  <2> HIDE DEF P, typed
  <2> QED  BY <2>1, <2>2 DEF Rules!TypeOf, OwnType
<1>12. \A p \in here : binding[p] = BindingAt(c, rule, outputs, p)
  <2> TAKE p \in here
  <2> DEFINE n == Name(p)
             S == Suppliers(c, rule, outputs, n)
             o == Origin(c, rule, outputs, n)
  <2>1. binding[p] = IF n \in DOMAIN s.bound THEN s.bound[n]
                     ELSE IF Visible(p) THEN first[n] ELSE Unset
    OBVIOUS
  <2>2. BindingAt(c, rule, outputs, p) =
          IF S = {} \/ Rules!Earlier(p, o) \/ (u = o[1] /\ ~Supplies(rule, outputs, c, p)) THEN Unset ELSE o
    BY DEF BindingAt
  <2>3. /\ S \in SUBSET (Nat \X Nat)
        /\ S # {} => o \in S /\ \A q \in S : q = o \/ Rules!Earlier(o, q)
    BY SuppliersAre DEF Leads
  <2>4. p \in Nat \X Nat /\ n \in V /\ p[1] = u
    BY <1>7
  <2>5. \A q \in S : q[2] > 0 /\ q[1] \in Nat
    BY <1>5, <1>7 DEF Supplies
  <2>6. n \in DOMAIN s.bound <=> IsBound(c, rule, outputs, n, u)
    BY <1>2, <2>4
  <2>7. CASE IsBound(c, rule, outputs, n, u)
    <3>1. s.bound[n] = o
      BY <1>2, <2>4, <2>7
    <3>2. PICK q \in S : q[1] < u
      BY <1>6, <2>7
    <3>3. o \in Nat \X Nat /\ q \in Nat \X Nat
      BY <2>3, <3>2
    <3>4. o[1] < u
      <4>1. q = o \/ Rules!Earlier(o, q)
        BY <2>3, <3>2
      <4> QED  BY <1>7, <3>2, <3>3, <4>1 DEF Rules!Earlier
    <3>5. ~Rules!Earlier(p, o) /\ u # o[1]
      BY <1>7, <2>4, <3>3, <3>4 DEF Rules!Earlier
    <3> HIDE DEF s, S, o, n, binding
    <3> QED  BY <2>1, <2>2, <2>6, <2>7, <3>1, <3>2, <3>5
  <2>8. CASE ~IsBound(c, rule, outputs, n, u) /\ n \in DOMAIN first
    <3>1. first[n] = o /\ o \in S /\ o[1] = u
      BY <1>4, <2>8
    <3>2. p \in P <=> Supplies(rule, outputs, c, p)
      BY <2>8 DEF Binders
    <3>3. kind \in {"all", "database"} /\ ~Supplies(rule, outputs, c, p) => p[2] = 0
      <4>1. p \in Rules!Producers(rule, outputs, kind, u) <=> Supplies(rule, outputs, c, p)
        BY ProducersSupply
      <4>2. kind \in {"all", "database"} /\ p[2] > 0 => p \in Rules!Producers(rule, outputs, kind, u)
        <5> HIDE DEF kind
        <5> QED  BY DEF Rules!Producers
      <4> HIDE DEF kind
      <4> QED  BY <2>4, <4>1, <4>2
    <3>4. p[2] = 0 => Rules!Earlier(p, o)
      BY <2>4, <2>5, <3>1 DEF Rules!Earlier
    <3>5. Visible(p) <=> Supplies(rule, outputs, c, p) /\ ~Rules!Earlier(p, o)
      <4>1. Visible(p) <=> (p \in P \/ kind \in {"all", "database"}) /\ ~Rules!Earlier(p, o)
        BY <2>8, <3>1
      <4> HIDE DEF Visible, kind, P, o
      <4> QED  BY <3>2, <3>3, <3>4, <4>1
    <3> HIDE DEF s, S, o, n, binding, Visible, first
    <3> QED  BY <2>1, <2>2, <2>6, <2>8, <3>1, <3>5
  <2>9. CASE ~IsBound(c, rule, outputs, n, u) /\ n \notin DOMAIN first
    <3>1. ~Visible(p)
      BY <2>9
    <3>2. \A q \in S : ~(q[1] < u) /\ q[1] # u
      BY <1>4, <1>6, <2>4, <2>9
    <3>3. S # {} => Rules!Earlier(p, o)
      <4>1. S # {} => o \in S /\ o \in Nat \X Nat
        BY <2>3
      <4>2. S # {} => u < o[1]
        BY <1>7, <2>5, <3>2, <4>1
      <4> QED  BY <2>4, <4>2 DEF Rules!Earlier
    <3> HIDE DEF s, S, o, n, binding, Visible, first
    <3> QED  BY <2>1, <2>2, <2>6, <2>9, <3>1, <3>3
  <2> QED  BY <2>7, <2>8, <2>9
<1>13. \A p \in here : evidence[p] = EvidenceAt(c, rule, outputs, p)
  <2> TAKE p \in here
  <2> DEFINE n == Name(p)
             G == GivenTo(c, rule, outputs, Above(rule, u), n)
  <2>1. evidence[p] = IF typed[p] # Unset THEN typed[p]
                      ELSE IF n \in DOMAIN s.types THEN s.types[n] ELSE Unset
    OBVIOUS
  <2>2. typed[p] = OwnType(c, rule, outputs, p)
    BY <1>11
  <2>3. EvidenceAt(c, rule, outputs, p) =
          IF OwnType(c, rule, outputs, p) # Unset THEN OwnType(c, rule, outputs, p) ELSE Rules!Only(G)
    BY DEF EvidenceAt
  <2>4. s.types = TypesOver(c, rule, outputs, Above(rule, u)) /\ n \in V
    BY <1>2, <1>7
  <2>5. (n \in DOMAIN s.types <=> G # {}) /\ (n \in DOMAIN s.types => s.types[n] = Rules!Only(G))
    <3> HIDE DEF s, n
    <3> QED  BY <2>4 DEF TypesOver
  <2>6. G = {} => Rules!Only(G) = Unset
    BY OnlyIs
  <2> HIDE DEF s, n, G, typed, evidence
  <2> QED  BY <2>1, <2>2, <2>3, <2>5, <2>6
<1>14. Rules!Over(first, s.bound) = next.bound
  <2> DEFINE b == s.bound
             b1 == next.bound
  <2>1. b1 = [n \in {n \in V : IsBound(c, rule, outputs, n, u + 1)} |-> Origin(c, rule, outputs, n)]
    BY <1>3
  <2>2. b = [n \in {n \in V : IsBound(c, rule, outputs, n, u)} |-> Origin(c, rule, outputs, n)]
    BY <1>2
  <2> HIDE DEF b, b1, first
  <2>3. DOMAIN first \cup DOMAIN b = {n \in V : IsBound(c, rule, outputs, n, u + 1)}
    BY <1>4, <1>8, <2>2
  <2>4. \A n \in DOMAIN first \cup DOMAIN b :
          (IF n \in DOMAIN first THEN first[n] ELSE b[n]) = Origin(c, rule, outputs, n)
    BY <1>4, <2>2
  <2>5. Rules!Over(first, b) = b1
    BY <2>1, <2>3, <2>4 DEF Rules!Over
  <2> QED  BY <2>5 DEF b, b1
<1>15. Rules!UpdateTypes(rule, u, typed, s.types) = next.types
  <2>1. typed = [p \in here |-> OwnType(c, rule, outputs, p)]
    BY <1>11 DEF Rules!TypesOf
  <2> QED  BY <1>2, <1>3, <2>1, TypesUpdated
<1>16. Rules!Over(binding, s.binding) = next.binding
  <2> DEFINE b == s.binding
             b1 == next.binding
  <2>1. b1 = [p \in Above(rule, u + 1) |-> BindingAt(c, rule, outputs, p)]
    BY <1>3
  <2>2. b = [p \in Above(rule, u) |-> BindingAt(c, rule, outputs, p)]
    BY <1>2
  <2>3. DOMAIN binding = here
    OBVIOUS
  <2> HIDE DEF b, b1, binding
  <2>4. DOMAIN binding \cup DOMAIN b = Above(rule, u + 1)
    BY <1>9, <2>2, <2>3
  <2>5. \A p \in DOMAIN binding \cup DOMAIN b :
          (IF p \in DOMAIN binding THEN binding[p] ELSE b[p]) = BindingAt(c, rule, outputs, p)
    BY <1>12, <2>2, <2>3
  <2>6. Rules!Over(binding, b) = b1
    BY <2>1, <2>4, <2>5 DEF Rules!Over
  <2> QED  BY <2>6 DEF b, b1
<1>17. Rules!Over(evidence, s.evidence) = next.evidence
  <2> DEFINE b == s.evidence
             b1 == next.evidence
  <2>1. b1 = [p \in Above(rule, u + 1) |-> EvidenceAt(c, rule, outputs, p)]
    BY <1>3
  <2>2. b = [p \in Above(rule, u) |-> EvidenceAt(c, rule, outputs, p)]
    BY <1>2
  <2>3. DOMAIN evidence = here
    OBVIOUS
  <2> HIDE DEF b, b1, evidence
  <2>4. DOMAIN evidence \cup DOMAIN b = Above(rule, u + 1)
    BY <1>9, <2>2, <2>3
  <2>5. \A p \in DOMAIN evidence \cup DOMAIN b :
          (IF p \in DOMAIN evidence THEN evidence[p] ELSE b[p]) = EvidenceAt(c, rule, outputs, p)
    BY <1>13, <2>2, <2>3
  <2>6. Rules!Over(evidence, b) = b1
    BY <2>1, <2>4, <2>5 DEF Rules!Over
  <2> QED  BY <2>6 DEF b, b1
<1> QED  BY <1>1, <1>3, <1>14, <1>15, <1>16, <1>17

LEMMA NothingKnownYet ==
  ASSUME NEW c, NEW rule, Rules!IsRule(rule), NEW outputs
  PROVE  KnownAbove(c, rule, outputs, 0) = Rules!NothingKnown
<1> DEFINE k == KnownAbove(c, rule, outputs, 0)
           bound == [n \in {n \in Rules!VariablesOf(rule) : IsBound(c, rule, outputs, n, 0)} |->
                       Origin(c, rule, outputs, n)]
           types == TypesOver(c, rule, outputs, Above(rule, 0))
           binding == [p \in Above(rule, 0) |-> BindingAt(c, rule, outputs, p)]
           evidence == [p \in Above(rule, 0) |-> EvidenceAt(c, rule, outputs, p)]
<1>1. \A p \in Rules!Locals(rule) : ~(p[1] < 0)
  <2>1. \A p \in Rules!Locals(rule) : p[1] \in Nat
    BY LocalsAre
  <2> QED  BY <2>1
<1>2. Above(rule, 0) = {}
  BY <1>1 DEF Above
<1>3. \A n : ~IsBound(c, rule, outputs, n, 0)
  BY <1>1, SuppliersAre DEF IsBound
<1>4. bound = <<>>
  <2>1. {n \in Rules!VariablesOf(rule) : IsBound(c, rule, outputs, n, 0)} = {}
    BY <1>3
  <2> QED  BY <2>1
<1>5. types = <<>>
  <2>1. \A n : GivenTo(c, rule, outputs, {}, n) = {}
    BY DEF GivenTo
  <2>2. {n \in Rules!VariablesOf(rule) : GivenTo(c, rule, outputs, {}, n) # {}} = {}
    BY <2>1
  <2>3. TypesOver(c, rule, outputs, {}) = <<>>
    BY <2>2 DEF TypesOver
  <2> QED  BY <1>2, <2>3
<1>6. binding = <<>> /\ evidence = <<>>
  BY <1>2
<1>7. k = [bound |-> bound, types |-> types, binding |-> binding, evidence |-> evidence]
  BY DEF KnownAbove
<1> HIDE DEF k, bound, types, binding, evidence
<1>8. k = Rules!NothingKnown
  BY <1>4, <1>5, <1>6, <1>7 DEF Rules!NothingKnown
<1> QED  BY <1>8 DEF k

\* An analysis finds what is said above, whichever way it looks.
LEMMA AnalysisIs ==
  ASSUME NEW c, NEW rule, Rules!IsRule(rule)
  PROVE  Rules!Analysis(c, rule) = KnownAbove(c, rule, Rules!Outputs(c, rule), Len(rule.body) + 1)
<1> DEFINE outputs == Rules!Outputs(c, rule)
           N == Len(rule.body) + 1
           Next1(f, n) == Rules!Process(c, rule, outputs, n - 1, f[n - 1])
           Solves(f) == f = [n \in 0 .. N |-> IF n = 0 THEN Rules!NothingKnown ELSE Next1(f, n)]
           analysed == CHOOSE f : Solves(f)
           h == [n \in 0 .. N |-> KnownAbove(c, rule, outputs, n)]
<1>1. Rules!Analysis(c, rule) = analysed[N]
  BY DEF Rules!Analysis, Rules!AnalysisOf
<1>2. N \in Nat /\ N \in 0 .. N /\ 0 \in 0 .. N
  BY DEF Rules!IsRule
<1>3. h[0] = Rules!NothingKnown
  BY <1>2, NothingKnownYet
<1>4. ASSUME NEW n \in 1 .. N PROVE h[n] = Next1(h, n)
  <2>1. n \in 0 .. N /\ n - 1 \in 0 .. N /\ n - 1 \in Rules!Units(rule) /\ (n - 1) + 1 = n
    BY <1>2 DEF Rules!IsRule, Rules!Units
  <2>2. OutputsFit(rule, outputs)
    BY OutputsDoFit
  <2> HIDE DEF outputs
  <2>3. Rules!Process(c, rule, outputs, n - 1, KnownAbove(c, rule, outputs, n - 1))
          = KnownAbove(c, rule, outputs, (n - 1) + 1)
    BY <2>1, <2>2, UnitProcessed
  <2>4. h[n] = KnownAbove(c, rule, outputs, n) /\ h[n - 1] = KnownAbove(c, rule, outputs, n - 1)
    BY <2>1
  <2> HIDE DEF h
  <2> QED  BY <2>1, <2>3, <2>4
<1>5. Solves(h)
  <2>1. ASSUME NEW n \in 0 .. N PROVE h[n] = IF n = 0 THEN Rules!NothingKnown ELSE Next1(h, n)
    <3>1. CASE n # 0
      <4>1. n \in 1 .. N
        BY <1>2, <3>1
      <4> HIDE DEF h, Next1
      <4> QED  BY <1>4, <3>1, <4>1
    <3> HIDE DEF h, Next1
    <3> QED  BY <1>3, <3>1
  <2> HIDE DEF Next1
  <2>2. h = [n \in 0 .. N |-> h[n]]
    OBVIOUS
  <2> HIDE DEF h
  <2>3. [n \in 0 .. N |-> h[n]] = [n \in 0 .. N |-> IF n = 0 THEN Rules!NothingKnown ELSE Next1(h, n)]
    BY <2>1
  <2> QED  BY <2>2, <2>3
<1>6. Solves(analysed)
  <2> HIDE DEF Solves
  <2> QED  BY <1>5
<1> HIDE DEF analysed
<1>7. \A n \in 0 .. N : analysed[n] = IF n = 0 THEN Rules!NothingKnown ELSE Next1(analysed, n)
  <2> HIDE DEF Next1
  <2> QED  BY <1>6
<1> DEFINE S == {n \in 0 .. N : analysed[n] = h[n]}
<1>8. 0 \in S
  <2> HIDE DEF h, Next1
  <2> QED  BY <1>2, <1>3, <1>7
<1>9. ASSUME NEW n \in 1 .. N, n - 1 \in S PROVE n \in S
  <2>1. n \in 0 .. N /\ n # 0
    BY <1>2
  <2>2. analysed[n - 1] = h[n - 1]
    BY <1>9
  <2>3. analysed[n] = Next1(analysed, n) /\ h[n] = Next1(h, n)
    BY <1>4, <1>7, <2>1
  <2> HIDE DEF h
  <2>4. Next1(analysed, n) = Next1(h, n)
    BY <2>2
  <2> QED  BY <2>1, <2>3, <2>4
<1>10. \A n \in 0 .. N : n \in S
  <2> HIDE DEF S, N
  <2> QED  BY <1>2, <1>8, <1>9, BoundedInduction
<1>11. analysed[N] = h[N]
  <2> HIDE DEF h
  <2> QED  BY <1>2, <1>10
<1>12. h[N] = KnownAbove(c, rule, outputs, N)
  BY <1>2
<1> HIDE DEF h, outputs, N
<1> QED  BY <1>1, <1>11, <1>12 DEF outputs, N

(* Of every place of a rule.                                               *)
LEMMA AnalysisOfRule ==
  ASSUME NEW c, NEW rule, Rules!IsRule(rule)
  PROVE  \A p \in Rules!Locals(rule) :
           /\ Rules!Analysis(c, rule).binding[p] = BindingAt(c, rule, Rules!Outputs(c, rule), p)
           /\ Rules!Analysis(c, rule).evidence[p] = EvidenceAt(c, rule, Rules!Outputs(c, rule), p)
<1>1. Above(rule, Len(rule.body) + 1) = Rules!Locals(rule)
  <2>1. \A p \in Rules!Locals(rule) : p[1] \in 0 .. Len(rule.body)
    BY LocalsAre DEF Rules!Units
  <2>2. \A p \in Rules!Locals(rule) : p[1] < Len(rule.body) + 1
    BY <2>1 DEF Rules!IsRule
  <2> QED  BY <2>2 DEF Above
<1> DEFINE outputs == Rules!Outputs(c, rule)
           known == KnownAbove(c, rule, outputs, Len(rule.body) + 1)
<1>2. Rules!Analysis(c, rule) = known
  BY AnalysisIs
<1>3. /\ known.binding = [p \in Rules!Locals(rule) |-> BindingAt(c, rule, outputs, p)]
      /\ known.evidence = [p \in Rules!Locals(rule) |-> EvidenceAt(c, rule, outputs, p)]
  BY <1>1 DEF KnownAbove
<1> HIDE DEF known, outputs
<1> QED  BY <1>2, <1>3 DEF outputs

LEMMA BindingIs ==
  ASSUME NEW c, NEW rule, Rules!IsRule(rule), NEW outputs, NEW p \in Rules!Locals(rule),
         Unset \notin Nat \X Nat
  PROVE  LET name == Rules!At(rule, p).name
             o == Origin(c, rule, outputs, name)
         IN  /\ BindingAt(c, rule, outputs, p) # Unset =>
                  /\ BindingAt(c, rule, outputs, p) = o
                  /\ o \in Rules!Locals(rule) /\ Rules!At(rule, o).name = name
                  /\ BindingAt(c, rule, outputs, o) = o
             /\ IsBound(c, rule, outputs, name, p[1]) <=>
                  BindingAt(c, rule, outputs, p) # Unset /\ BindingAt(c, rule, outputs, p)[1] < p[1]
<1> DEFINE name == Rules!At(rule, p).name
           S == Suppliers(c, rule, outputs, name)
           o == Origin(c, rule, outputs, name)
           b == BindingAt(c, rule, outputs, p)
<1>1. /\ \A q : q \in S <=> q \in Rules!Locals(rule) /\ Rules!At(rule, q).name = name
                            /\ Supplies(rule, outputs, c, q)
      /\ S \in SUBSET (Nat \X Nat)
      /\ S # {} => o \in S /\ \A q \in S : q = o \/ Rules!Earlier(o, q)
  BY SuppliersAre DEF Leads
<1>2. p \in Nat \X Nat
  BY LocalsAre
<1>3. b = IF S = {} \/ Rules!Earlier(p, o) \/ (p[1] = o[1] /\ ~Supplies(rule, outputs, c, p))
          THEN Unset ELSE o
  BY DEF BindingAt
<1>4. S # {} => o # Unset /\ o \in Nat \X Nat
  BY <1>1
<1>5. S # {} => BindingAt(c, rule, outputs, o) = o
  <2> SUFFICES ASSUME S # {} PROVE BindingAt(c, rule, outputs, o) = o
    OBVIOUS
  <2>1. o \in S /\ o \in Nat \X Nat
    BY <1>1
  <2>2. Rules!At(rule, o).name = name /\ Supplies(rule, outputs, c, o)
    BY <1>1, <2>1
  <2>3. ~Rules!Earlier(o, o)
    BY <2>1, EarlierOrders
  <2> HIDE DEF o, S, name
  <2>4. BindingAt(c, rule, outputs, o) =
          IF \/ Suppliers(c, rule, outputs, name) = {}
             \/ Rules!Earlier(o, Origin(c, rule, outputs, name))
             \/ o[1] = Origin(c, rule, outputs, name)[1] /\ ~Supplies(rule, outputs, c, o)
          THEN Unset ELSE Origin(c, rule, outputs, name)
    BY <2>2 DEF BindingAt
  <2>5. Suppliers(c, rule, outputs, name) = S /\ Origin(c, rule, outputs, name) = o
    BY DEF S, o
  <2> QED  BY <2>2, <2>3, <2>4, <2>5
<1>6. IsBound(c, rule, outputs, name, p[1]) <=> \E q \in S : q[1] < p[1]
  BY DEF IsBound
<1> HIDE DEF o, S, name, b
<1>7. b # Unset =>
        /\ b = o /\ o \in Rules!Locals(rule) /\ Rules!At(rule, o).name = name
        /\ BindingAt(c, rule, outputs, o) = o
  BY <1>1, <1>3, <1>5
<1>8. (\E q \in S : q[1] < p[1]) => b # Unset /\ b[1] < p[1]
  <2> SUFFICES ASSUME NEW q \in S, q[1] < p[1] PROVE b # Unset /\ b[1] < p[1]
    OBVIOUS
  <2>1. o \in Nat \X Nat /\ q \in Nat \X Nat /\ (q = o \/ Rules!Earlier(o, q))
    BY <1>1
  <2>2. o[1] < p[1]
    BY <1>2, <2>1 DEF Rules!Earlier
  <2>3. ~Rules!Earlier(p, o) /\ p[1] # o[1]
    BY <1>2, <2>1, <2>2 DEF Rules!Earlier
  <2> QED  BY <1>3, <1>4, <2>2, <2>3
<1>9. b # Unset /\ b[1] < p[1] => \E q \in S : q[1] < p[1]
  BY <1>1, <1>3
<1> QED  BY <1>6, <1>7, <1>8, <1>9 DEF o, name, b

LEMMA BindingsDoHaveOneOrigin ==
  ASSUME NEW c, NEW rule, Rules!IsRule(rule)
  PROVE  Rules!BindingsHaveOneOrigin(c, rule, Rules!Outputs(c, rule), Rules!Analysis(c, rule))
<1> DEFINE outputs == Rules!Outputs(c, rule)
           analysis == Rules!Analysis(c, rule)
           Provides(p) ==
             /\ p[2] > 0
             /\ IF p[1] = 0 THEN rule.kind # "IF" \/ rule.head.database \/ Rules!EventView(c, rule.head) # Unset
                ELSE /\ rule.body[p[1]].kind = "condition" /\ ~rule.body[p[1]].negated
                     /\ Rules!Unit(rule, p[1]).database \/ p \in outputs
           Giving(name) == {p \in Rules!PlacesOf(rule, name) : Provides(p)}
           From(name) == Rules!Foremost(Giving(name))
<1>1. \A p : Provides(p) <=> Supplies(rule, outputs, c, p)
  BY DEF Supplies
<1>2. \A name : Giving(name) = Suppliers(c, rule, outputs, name)
  <2> HIDE DEF Provides
  <2> QED  BY <1>1 DEF Suppliers
<1>3. \A name : From(name) = Origin(c, rule, outputs, name)
  BY <1>2 DEF Origin
<1>4. \A p \in Rules!Locals(rule) : analysis.binding[p] = BindingAt(c, rule, outputs, p)
  BY AnalysisOfRule
<1> HIDE DEF Provides, Giving, From, outputs, analysis
<1>5. ASSUME NEW name, NEW p \in Rules!PlacesOf(rule, name)
      PROVE  analysis.binding[p] =
               IF \/ Giving(name) = {} \/ Rules!Earlier(p, From(name))
                  \/ p[1] = From(name)[1] /\ ~Provides(p)
               THEN Unset ELSE From(name)
  <2>1. p \in Rules!Locals(rule) /\ Rules!At(rule, p).name = name
    BY DEF Rules!PlacesOf
  <2>2. analysis.binding[p] = BindingAt(c, rule, outputs, p)
    BY <1>4, <2>1
  <2>3. BindingAt(c, rule, outputs, p) =
          IF \/ Suppliers(c, rule, outputs, name) = {}
             \/ Rules!Earlier(p, Origin(c, rule, outputs, name))
             \/ p[1] = Origin(c, rule, outputs, name)[1] /\ ~Supplies(rule, outputs, c, p)
          THEN Unset ELSE Origin(c, rule, outputs, name)
    BY <2>1 DEF BindingAt
  <2> QED  BY <1>1, <1>2, <1>3, <2>2, <2>3
<1> QED  BY <1>5 DEF Rules!BindingsHaveOneOrigin, Provides, Giving, From, outputs, analysis

LEMMA TypesDoComeFromBefore ==
  ASSUME NEW c, NEW rule, Rules!IsRule(rule), Unset \notin Nat \X Nat
  PROVE  Rules!TypesComeFromBefore(c, rule, Rules!Outputs(c, rule), Rules!Analysis(c, rule))
<1> DEFINE outputs == Rules!Outputs(c, rule)
           analysis == Rules!Analysis(c, rule)
           Own(p) ==
             IF Rules!At(rule, p).cast # Unset THEN Rules!At(rule, p).cast
             ELSE IF p \in outputs /\ analysis.binding[p] # Unset /\ analysis.binding[p][1] < p[1]
               THEN Unset
             ELSE Rules!EngineType(c, rule, outputs, p)
           Before(p) == {q \in Rules!PlacesOf(rule, Rules!At(rule, p).name) : q[1] < p[1]}
           Agreed(p) == {Own(q) : q \in Before(p)} \ {Unset}
<1>1. /\ \A p \in Rules!Locals(rule) : analysis.binding[p] = BindingAt(c, rule, outputs, p)
      /\ \A p \in Rules!Locals(rule) : analysis.evidence[p] = EvidenceAt(c, rule, outputs, p)
  BY AnalysisOfRule
<1>2. ASSUME NEW p \in Rules!Locals(rule) PROVE Own(p) = OwnType(c, rule, outputs, p)
  <2>1. analysis.binding[p] = BindingAt(c, rule, outputs, p)
    BY <1>1
  <2>2. IsBound(c, rule, outputs, Rules!At(rule, p).name, p[1]) <=>
          analysis.binding[p] # Unset /\ analysis.binding[p][1] < p[1]
    BY <2>1, BindingIs
  <2> HIDE DEF analysis, outputs
  <2> QED  BY <2>2 DEF OwnType
<1> HIDE DEF Own
<1>3. ASSUME NEW p \in Rules!Locals(rule)
      PROVE  Agreed(p) = GivenTo(c, rule, outputs, Above(rule, p[1]), Rules!At(rule, p).name)
  <2>1. Before(p) = {q \in Above(rule, p[1]) : Rules!At(rule, q).name = Rules!At(rule, p).name}
    BY DEF Above, Rules!PlacesOf
  <2>2. \A q \in Before(p) : Own(q) = OwnType(c, rule, outputs, q)
    BY <1>2 DEF Rules!PlacesOf
  <2> HIDE DEF Before
  <2> QED  BY <2>1, <2>2 DEF GivenTo
<1> HIDE DEF Agreed
<1>4. ASSUME NEW p \in Rules!Locals(rule)
      PROVE  analysis.evidence[p] = IF Own(p) # Unset THEN Own(p) ELSE Rules!Only(Agreed(p))
  BY <1>1, <1>2, <1>3 DEF EvidenceAt
<1> HIDE DEF outputs, analysis
<1> QED  BY <1>4 DEF Rules!TypesComeFromBefore, Own, Agreed, outputs, analysis

LEMMA NavigationDoesAgree ==
  ASSUME NEW c, NEW rule, Rules!IsRule(rule), Unset \notin Nat \X Nat
  PROVE  Rules!NavigationAgrees(rule, Rules!Analysis(c, rule))
<1> DEFINE outputs == Rules!Outputs(c, rule)
           analysis == Rules!Analysis(c, rule)
<1>1. \A p \in Rules!Locals(rule) : analysis.binding[p] = BindingAt(c, rule, outputs, p)
  BY AnalysisOfRule
<1> HIDE DEF outputs, analysis
<1> SUFFICES ASSUME NEW p \in Rules!Locals(rule), analysis.binding[p] # Unset
             PROVE  /\ analysis.binding[analysis.binding[p]] = analysis.binding[p]
                    /\ Rules!VariableReferences(rule, analysis, p, FALSE)
                         = Rules!PlacesOf(rule, Rules!At(rule, p).name) \ {analysis.binding[p]}
  BY DEF Rules!NavigationAgrees, Rules!VariableDefinition, analysis
<1> DEFINE name == Rules!At(rule, p).name
           o == Origin(c, rule, outputs, name)
           bound == {q \in Rules!PlacesOf(rule, name) : analysis.binding[q] # Unset}
           f == Rules!Foremost(bound)
<1>2. analysis.binding[p] = BindingAt(c, rule, outputs, p)
  BY <1>1
<1>3. analysis.binding[p] = o /\ o \in Rules!Locals(rule) /\ BindingAt(c, rule, outputs, o) = o
  BY <1>2, BindingIs
<1>4. analysis.binding[o] = o
  BY <1>1, <1>3
<1>5. f \in bound
  <2>1. p \in bound
    BY DEF Rules!PlacesOf
  <2>2. bound \in SUBSET (Nat \X Nat)
    BY LocalsAre DEF Rules!PlacesOf
  <2> HIDE DEF bound
  <2> QED  BY <2>1, <2>2, ForemostLeads DEF Leads
<1>6. analysis.binding[f] = o
  <2> HIDE DEF f
  <2>1. f \in Rules!Locals(rule) /\ Rules!At(rule, f).name = name /\ analysis.binding[f] # Unset
    BY <1>5 DEF Rules!PlacesOf
  <2>2. analysis.binding[f] = BindingAt(c, rule, outputs, f)
    BY <1>1, <2>1
  <2> HIDE DEF name
  <2>3. analysis.binding[f] = Origin(c, rule, outputs, Rules!At(rule, f).name)
    BY <2>1, <2>2, BindingIs
  <2> QED  BY <2>1, <2>3
<1>7. Rules!FactBinding(rule, analysis, name) = o
  <2>1. bound # {}
    BY <1>5
  <2> HIDE DEF o
  <2> QED  BY <1>6, <2>1 DEF Rules!FactBinding
<1>8. Rules!VariableReferences(rule, analysis, p, FALSE) = Rules!PlacesOf(rule, name) \ {o}
  <2> HIDE DEF o
  <2> QED  BY <1>7 DEF Rules!VariableReferences
<1> HIDE DEF o
<1> QED  BY <1>3, <1>4, <1>8

LEMMA HoverDoesFollowNavigation ==
  ASSUME NEW c, NEW rule, Rules!IsRule(rule)
  PROVE  Rules!HoverFollowsNavigation(rule, Rules!Analysis(c, rule))
<1> DEFINE outputs == Rules!Outputs(c, rule)
           analysis == Rules!Analysis(c, rule)
           columns == {Rules!ColumnAt(rule, p) : p \in Rules!Locals(rule)} \ {Unset}
           As(type) == [column \in columns |-> type]
           Displayed(p, type) == Rules!HoverType(rule, analysis, p, As(type))
           Before(p) == {q \in Rules!PlacesOf(rule, Rules!At(rule, p).name) : q[1] < p[1]}
           Seen(p) == {analysis.evidence[q] : q \in Before(p)} \ {Unset}
           Own(p) == OwnType(c, rule, outputs, p)
           Agreed(p) == GivenTo(c, rule, outputs, Above(rule, p[1]), Rules!At(rule, p).name)
<1>1. \A p \in Rules!Locals(rule) : analysis.evidence[p] = EvidenceAt(c, rule, outputs, p)
  BY AnalysisOfRule
<1> HIDE DEF outputs, analysis
<1>2. \A p \in Rules!Locals(rule) :
        analysis.evidence[p] = IF Own(p) # Unset THEN Own(p) ELSE Rules!Only(Agreed(p))
  BY <1>1 DEF EvidenceAt
<1>3. \A p : \A t : t \in Agreed(p) <=> t # Unset /\ \E q \in Before(p) : t = Own(q)
  <2> HIDE DEF Own
  <2> QED  BY DEF GivenTo, Above, Rules!PlacesOf, Own
<1>4. \A p : \A q \in Before(p) : /\ q \in Rules!Locals(rule) /\ q[1] < p[1]
                                  /\ Rules!At(rule, q).name = Rules!At(rule, p).name
  BY DEF Rules!PlacesOf
<1>5. \A p, q, r : q \in Before(p) /\ r \in Before(q) /\ p \in Rules!Locals(rule) => r \in Before(p)
  <2>1. \A p \in Rules!Locals(rule) : p[1] \in Nat
    BY LocalsAre
  <2> TAKE p, q, r
  <2> HAVE q \in Before(p) /\ r \in Before(q) /\ p \in Rules!Locals(rule)
  <2>2. p[1] \in Nat /\ q[1] \in Nat /\ r[1] \in Nat /\ r[1] < q[1] /\ q[1] < p[1]
    BY <1>4, <2>1
  <2>3. r[1] < p[1]
    BY <2>2
  <2> QED  BY <1>4, <2>3 DEF Rules!PlacesOf
<1> HIDE DEF Own, Agreed, Before
<1>6. ASSUME NEW p \in Rules!Locals(rule), Displayed(p, "one") # Displayed(p, "another")
      PROVE  /\ analysis.evidence[p] = Unset
             /\ Rules!ColumnAt(rule, Rules!VariableDefinition(analysis, p)) # Unset
  <2> DEFINE column == IF analysis.binding[p] = Unset THEN Unset ELSE Rules!ColumnAt(rule, analysis.binding[p])
  <2>1. ASSUME NEW type
        PROVE  Displayed(p, type) =
          IF analysis.evidence[p] # Unset THEN analysis.evidence[p]
          ELSE IF column # Unset /\ column \in columns THEN type ELSE Unset
    <3>1. DOMAIN As(type) = columns /\ \A x \in columns : As(type)[x] = type
      OBVIOUS
    <3> HIDE DEF As, columns
    <3> QED  BY <3>1 DEF Rules!HoverType
  <2>2. analysis.evidence[p] = Unset /\ column # Unset
    <3> HIDE DEF Displayed, column, columns
    <3> QED  BY <1>6, <2>1
  <2> QED  BY <2>2 DEF Rules!VariableDefinition
<1>7. ASSUME NEW p \in Rules!Locals(rule), analysis.evidence[p] = Unset
      PROVE  Rules!Only(Seen(p)) = Unset
  <2> SUFFICES ASSUME NEW t, Seen(p) = {t} PROVE FALSE
    BY OnlyIs
  <2>1. t # Unset /\ \E q \in Before(p) : analysis.evidence[q] = t
    <3>1. t \in Seen(p)
      OBVIOUS
    <3> QED  BY <3>1
  <2>2. \A q \in Before(p) : analysis.evidence[q] = t \/ analysis.evidence[q] = Unset
    <3> TAKE q \in Before(p)
    <3>1. analysis.evidence[q] # Unset => analysis.evidence[q] \in Seen(p)
      OBVIOUS
    <3> QED  BY <3>1
  <2> HIDE DEF Seen
  <2>3. \A x : x \in Agreed(p) => x = t
    <3> TAKE x
    <3> HAVE x \in Agreed(p)
    <3>1. PICK q \in Before(p) : x = Own(q) /\ x # Unset
      BY <1>3
    <3>2. analysis.evidence[q] = x
      BY <1>2, <1>4, <3>1
    <3> QED  BY <2>2, <3>1, <3>2
  <2>4. t \in Agreed(p)
    <3>1. PICK q \in Before(p) : analysis.evidence[q] = t
      BY <2>1
    <3>2. q \in Rules!Locals(rule)
      BY <1>4
    <3>3. CASE Own(q) # Unset
      <4>1. Own(q) = t
        BY <1>2, <3>1, <3>2, <3>3
      <4> QED  BY <1>3, <2>1, <4>1
    <3>4. CASE Own(q) = Unset
      <4>1. Rules!Only(Agreed(q)) = t
        BY <1>2, <3>1, <3>2, <3>4
      <4>2. Agreed(q) = {t}
        <5>1. PICK x : Agreed(q) = {x}
          BY <2>1, <4>1, OnlyIs
        <5>2. Rules!Only(Agreed(q)) = x
          BY <5>1, OnlyIs
        <5> QED  BY <4>1, <5>1, <5>2
      <4>3. PICK r \in Before(q) : t = Own(r)
        <5>1. t \in Agreed(q)
          BY <4>2
        <5> QED  BY <1>3, <5>1
      <4>4. r \in Before(p)
        BY <1>5, <4>3
      <4> QED  BY <1>3, <2>1, <4>3, <4>4
    <3> QED  BY <3>3, <3>4
  <2>5. Agreed(p) = {t}
    BY <2>3, <2>4
  <2>6. Rules!Only(Agreed(p)) = t
    BY <2>5, OnlyIs
  <2>7. analysis.evidence[p] # Unset
    BY <1>2, <2>1, <2>6
  <2> QED  BY <1>7, <2>7
<1> HIDE DEF Displayed, Seen
<1>8. \A p \in Rules!Locals(rule) :
        Displayed(p, "one") # Displayed(p, "another") =>
          /\ Rules!ColumnAt(rule, Rules!VariableDefinition(analysis, p)) # Unset
          /\ Rules!Only(Seen(p)) = Unset
  BY <1>6, <1>7
<1> QED  BY <1>8 DEF Rules!HoverFollowsNavigation, Displayed, Seen, Before, analysis

-----------------------------------------------------------------------------
(* Goals.                                                                  *)

\* What stands at a placement is wrong exactly where completion would not
\* offer it.
RulePlacements == {"if", "procedure", "query", "condition", "action"}
Misplaced(c, call, placement) ==
  Rules!KnownKind(c, call) # Unset /\ <<Rules!KnownKind(c, call), placement>> \notin OfferedByCompletion

LEMMA KindsAre ==
  ASSUME NEW c, Rules!IsCatalog(c), NEW call
  PROVE  Rules!KnownKind(c, call) # Unset => Rules!KnownKind(c, call) \in Rules!Kinds
<1>1. Rules!Contract(c, call) # Unset => Rules!Contract(c, call) \in c.contracts
  <2> DEFINE F == Rules!Fitting(c, call)
  <2>1. F \subseteq c.contracts
    BY DEF Rules!Fitting
  <2>2. Rules!Contract(c, call) = Rules!Only(F)
    BY DEF Rules!Contract
  <2> HIDE DEF F
  <2>3. Rules!Only(F) # Unset => Rules!Only(F) \in F
    <3>1. CASE \E x : F = {x}
      <4>1. PICK x : F = {x}
        BY <3>1
      <4>2. Rules!Only(F) = x
        BY <4>1, OnlyIs
      <4> QED  BY <4>1, <4>2
    <3>2. CASE \A x : F # {x}
      BY <3>2, OnlyIs
    <3> QED  BY <3>1, <3>2
  <2> QED  BY <2>1, <2>2, <2>3
<1> QED  BY <1>1 DEF Rules!KnownKind, Rules!IsCatalog, Rules!Kinds

LEMMA OfferedIsAllowed ==
  ASSUME NEW kind \in Rules!Kinds, NEW placement \in RulePlacements
  PROVE  <<kind, placement>> \in OfferedByCompletion <=> Rules!AllowedAt(kind, placement)
<1>1. <<kind, placement>> \in OfferedByCompletion <=> Callables!Allowed(RoleOf(kind), PositionOf(placement))
  BY DEF OfferedByCompletion, RulePlacements
<1>2. CASE kind = "event"
  <2>1. RoleOf(kind) = "event"
    BY <1>2 DEF RoleOf
  <2> QED  BY <1>1, <1>2, <2>1 DEF RulePlacements, PositionOf, Callables!Allowed, Rules!AllowedAt
<1>3. CASE kind \in {"query", "sysquery"}
  <2>1. RoleOf(kind) = "query"
    BY <1>3 DEF RoleOf
  <2> QED  BY <1>1, <1>3, <2>1 DEF RulePlacements, PositionOf, Callables!Allowed, Rules!AllowedAt
<1>4. CASE kind \in {"call", "syscall"}
  <2>1. RoleOf(kind) = "procedure"
    BY <1>4 DEF RoleOf
  <2> QED  BY <1>1, <1>4, <2>1 DEF RulePlacements, PositionOf, Callables!Allowed, Rules!AllowedAt
<1> QED  BY <1>2, <1>3, <1>4 DEF Rules!Kinds

LEMMA RoleIssueIs ==
  ASSUME NEW c, Rules!IsCatalog(c), NEW call, NEW placement \in RulePlacements, NEW negated
  PROVE  "role" \in Rules!PlacementIssues(c, call, placement, negated) <=> Misplaced(c, call, placement)
<1> DEFINE kind == Rules!KnownKind(c, call)
<1>1. "role" \in Rules!PlacementIssues(c, call, placement, negated) <=>
        kind # Unset /\ ~Rules!AllowedAt(kind, placement)
  BY DEF Rules!PlacementIssues
<1>2. kind # Unset => (<<kind, placement>> \in OfferedByCompletion <=> Rules!AllowedAt(kind, placement))
  BY KindsAre, OfferedIsAllowed
<1> HIDE DEF kind
<1> QED  BY <1>1, <1>2 DEF Misplaced, kind

LEMMA RolesAreChecked ==
  ASSUME NEW c, Rules!IsCatalog(c), NEW goal, Rules!IsGoal(goal)
  PROVE  LET bodies == UNION {{<<s.call, s.kind>> : s \in {s \in Rules!ToSet(rule.body) : s.kind # "comparison"}} :
                                rule \in Rules!ToSet(goal.rules)}
             heads == {<<rule.head, Rules!HeadPlacement(rule)>> : rule \in Rules!ToSet(goal.rules)}
             facts == {<<s.call, "action">> : s \in Rules!ToSet(goal.init \o goal.exit)}
         IN  "role" \in Rules!RoleIssues(c, goal) <=>
               \E x \in bodies \cup heads \cup facts : Misplaced(c, x[1], x[2])
<1> DEFINE bodies == UNION {{<<s.call, s.kind>> : s \in {s \in Rules!ToSet(rule.body) : s.kind # "comparison"}} :
                              rule \in Rules!ToSet(goal.rules)}
           heads == {<<rule.head, Rules!HeadPlacement(rule)>> : rule \in Rules!ToSet(goal.rules)}
           facts == {<<s.call, "action">> : s \in Rules!ToSet(goal.init \o goal.exit)}
           R == Rules!ToSet(goal.rules)
           F == Rules!ToSet(goal.init \o goal.exit)
           B(rule) == {s \in Rules!ToSet(rule.body) : s.kind # "comparison"}
<1>1. \A rule \in R : /\ Rules!HeadPlacement(rule) \in RulePlacements
                      /\ \A s \in B(rule) : s.kind \in RulePlacements
  BY DEF Rules!IsGoal, Rules!IsRule, Rules!HeadPlacement, RulePlacements
<1>2. "role" \in Rules!RoleIssues(c, goal) <=>
        \/ \E s \in F : "role" \in Rules!PlacementIssues(c, s.call, "action", s.negated)
        \/ \E rule \in R :
             \/ "role" \in Rules!PlacementIssues(c, rule.head, Rules!HeadPlacement(rule), FALSE)
             \/ \E s \in B(rule) : "role" \in Rules!PlacementIssues(c, s.call, s.kind, s.negated)
  <2> DEFINE Called == UNION {B(rule) : rule \in R}
             inFacts == {Rules!PlacementIssues(c, s.call, "action", s.negated) : s \in F}
             inHeads == {Rules!PlacementIssues(c, rule.head, Rules!HeadPlacement(rule), FALSE) : rule \in R}
             inBodies == {Rules!PlacementIssues(c, s.call, s.kind, s.negated) : s \in Called}
  <2>1. Rules!RoleIssues(c, goal) = UNION (inFacts \cup inHeads \cup inBodies)
    BY DEF Rules!RoleIssues
  <2>2. (\E X \in inFacts : "role" \in X) <=>
          \E s \in F : "role" \in Rules!PlacementIssues(c, s.call, "action", s.negated)
    <3> HIDE DEF F
    <3> QED  OBVIOUS
  <2>3. (\E X \in inHeads : "role" \in X) <=>
          \E rule \in R : "role" \in Rules!PlacementIssues(c, rule.head, Rules!HeadPlacement(rule), FALSE)
    <3> HIDE DEF R
    <3> QED  OBVIOUS
  <2>4. (\E X \in inBodies : "role" \in X) <=>
          \E s \in Called : "role" \in Rules!PlacementIssues(c, s.call, s.kind, s.negated)
    <3> HIDE DEF Called
    <3> QED  OBVIOUS
  <2>5. \A s : s \in Called <=> \E rule \in R : s \in B(rule)
    <3> HIDE DEF R, B
    <3> QED  OBVIOUS
  <2> HIDE DEF inFacts, inHeads, inBodies, Called, F, R, B
  <2>6. "role" \in Rules!RoleIssues(c, goal) <=>
          \/ \E X \in inFacts : "role" \in X
          \/ \E X \in inHeads : "role" \in X
          \/ \E X \in inBodies : "role" \in X
    BY <2>1
  <2>7. (\E s \in Called : "role" \in Rules!PlacementIssues(c, s.call, s.kind, s.negated)) <=>
          \E rule \in R : \E s \in B(rule) : "role" \in Rules!PlacementIssues(c, s.call, s.kind, s.negated)
    BY <2>5
  <2> QED  BY <2>2, <2>3, <2>4, <2>6, <2>7
<1>3. (\E x \in bodies \cup heads \cup facts : Misplaced(c, x[1], x[2])) <=>
        \/ \E s \in F : Misplaced(c, s.call, "action")
        \/ \E rule \in R :
             \/ Misplaced(c, rule.head, Rules!HeadPlacement(rule))
             \/ \E s \in B(rule) : Misplaced(c, s.call, s.kind)
  <2>1. (\E x \in facts : Misplaced(c, x[1], x[2])) <=> \E s \in F : Misplaced(c, s.call, "action")
    <3>0. facts = {<<s.call, "action">> : s \in F}
      OBVIOUS
    <3> HIDE DEF F, facts
    <3>1. \A s \in F : <<s.call, "action">> \in facts
      BY <3>0
    <3>2. \A x \in facts : \E s \in F : x[1] = s.call /\ x[2] = "action"
      BY <3>0
    <3>3. \A s : <<s.call, "action">>[1] = s.call /\ <<s.call, "action">>[2] = "action"
      OBVIOUS
    <3> QED  BY <3>1, <3>2, <3>3
  <2>2. (\E x \in heads : Misplaced(c, x[1], x[2])) <=>
          \E rule \in R : Misplaced(c, rule.head, Rules!HeadPlacement(rule))
    <3>0. heads = {<<rule.head, Rules!HeadPlacement(rule)>> : rule \in R}
      OBVIOUS
    <3> HIDE DEF R, heads
    <3>1. \A rule \in R : <<rule.head, Rules!HeadPlacement(rule)>> \in heads
      BY <3>0
    <3>2. \A x \in heads : \E rule \in R : x[1] = rule.head /\ x[2] = Rules!HeadPlacement(rule)
      BY <3>0
    <3>3. \A rule : LET x == <<rule.head, Rules!HeadPlacement(rule)>>
                    IN  x[1] = rule.head /\ x[2] = Rules!HeadPlacement(rule)
      OBVIOUS
    <3> QED  BY <3>1, <3>2, <3>3
  <2>3. (\E x \in bodies : Misplaced(c, x[1], x[2])) <=>
          \E rule \in R : \E s \in B(rule) : Misplaced(c, s.call, s.kind)
    <3> HIDE DEF R, B
    <3>0. bodies = UNION {{<<s.call, s.kind>> : s \in B(rule)} : rule \in R}
      BY DEF B, R
    <3> HIDE DEF bodies
    <3>1. \A rule \in R : \A s \in B(rule) : <<s.call, s.kind>> \in bodies
      BY <3>0
    <3>2. \A x \in bodies : \E rule \in R : \E s \in B(rule) : x[1] = s.call /\ x[2] = s.kind
      <4> TAKE x \in bodies
      <4>1. PICK rule \in R : x \in {<<s.call, s.kind>> : s \in B(rule)}
        BY <3>0
      <4> QED  BY <4>1
    <3>3. \A s : <<s.call, s.kind>>[1] = s.call /\ <<s.call, s.kind>>[2] = s.kind
      OBVIOUS
    <3> QED  BY <3>1, <3>2, <3>3
  <2> HIDE DEF bodies, heads, facts, F, R, B
  <2> QED  BY <2>1, <2>2, <2>3
<1>4. "action" \in RulePlacements
  BY DEF RulePlacements
<1> HIDE DEF F, R, B
<1>5. "role" \in Rules!RoleIssues(c, goal) <=>
        \E x \in bodies \cup heads \cup facts : Misplaced(c, x[1], x[2])
  <2> HIDE DEF bodies, heads, facts
  <2> QED  BY <1>1, <1>2, <1>3, <1>4, RoleIssueIs
<1> QED  BY <1>5

-----------------------------------------------------------------------------
(* Sorting and concatenation in OsirisRules are those of its libraries.    *)
LEMMA SameLists ==
  ASSUME NEW s
  PROVE  /\ Rules!Sorted(s) = Sorted(s)
         /\ Rules!FlattenSeq(s) = FlattenSeq(s)
<1>1. \A S : Rules!Cardinality(S) = Cardinality(S)
  BY Zenon DEF Rules!Cardinality, Cardinality
<1>2. \A S, e : Rules!Arranged(S, e) = Arranged(S, e)
  BY <1>1 DEF Rules!Arranged, Arranged
<1>3. [x \in s |-> Rules!Cardinality({y \in s : y < x})] = [x \in s |-> Cardinality({y \in s : y < x})]
  BY <1>1
<1>4. Rules!Sorted(s) = Sorted(s)
  BY <1>2, <1>3 DEF Rules!Sorted, Sorted
<1>5. Rules!FlattenSeq(s) = FlattenSeq(s)
  BY DEF Rules!FlattenSeq, FlattenSeq
<1> QED  BY <1>4, <1>5

IsList(s) == \E T : s \in Seq(T)

LEMMA ListsAre ==
  /\ \A s, t : IsList(s) /\ IsList(t) => IsList(s \o t)
  /\ \A x : IsList(<<x>>)
  /\ IsList(<<>>)
  /\ \A s : IsList(s) => s \in Seq({s[i] : i \in DOMAIN s}) /\ DOMAIN s = 1 .. Len(s) /\ Len(s) \in Nat
<1>1. ASSUME NEW s, NEW t, IsList(s), IsList(t) PROVE IsList(s \o t)
  <2>1. PICK S : s \in Seq(S)
    BY <1>1 DEF IsList
  <2>2. PICK T : t \in Seq(T)
    BY <1>1 DEF IsList
  <2>3. s \in Seq(S \cup T) /\ t \in Seq(S \cup T)
    BY <2>1, <2>2
  <2>4. s \o t \in Seq(S \cup T)
    BY <2>3
  <2> QED  BY <2>4 DEF IsList
<1>2. ASSUME NEW x PROVE IsList(<<x>>)
  <2>1. <<x>> \in Seq({x})
    OBVIOUS
  <2> QED  BY <2>1 DEF IsList
<1>3. IsList(<<>>)
  <2>1. <<>> \in Seq({})
    OBVIOUS
  <2> QED  BY <2>1 DEF IsList
<1>4. ASSUME NEW s, IsList(s)
      PROVE  s \in Seq({s[i] : i \in DOMAIN s}) /\ DOMAIN s = 1 .. Len(s) /\ Len(s) \in Nat
  <2>1. PICK T : s \in Seq(T)
    BY <1>4 DEF IsList
  <2>2. s \in [1 .. Len(s) -> T] /\ DOMAIN s = 1 .. Len(s) /\ Len(s) \in Nat
    BY <2>1
  <2> DEFINE R == {s[i] : i \in DOMAIN s}
  <2>3. s \in [1 .. Len(s) -> R]
    BY <2>2
  <2> HIDE DEF R
  <2>4. s \in Seq(R)
    BY <2>2, <2>3, SeqDef
  <2> QED  BY <2>2, <2>4 DEF R
<1> QED  BY <1>1, <1>2, <1>3, <1>4

LEMMA TablesAreLists ==
  ASSUME NEW n \in Nat, NEW f, f = [i \in 1 .. n |-> f[i]]
  PROVE  IsList(f)
<1> DEFINE T == {f[i] : i \in 1 .. n}
<1>1. [i \in 1 .. n |-> f[i]] \in [1 .. n -> T]
  OBVIOUS
<1>2. f \in [1 .. n -> T]
  BY <1>1
<1> HIDE DEF T
<1>3. f \in Seq(T)
  BY <1>2, SeqDef
<1> QED  BY <1>3 DEF IsList

LEMMA SortedIsList ==
  ASSUME NEW n \in Nat, NEW S, S \subseteq 1 .. n
  PROVE  /\ IsList(Rules!Sorted(S))
         /\ {Rules!Sorted(S)[i] : i \in DOMAIN Rules!Sorted(S)} = S
<1> DEFINE list == Sorted(S)
<1>1. Arranges(list, S, Rising(S))
  <2>1. IsFiniteSet(1 .. n)
    <3>1. 1 \in Int /\ n \in Int
      OBVIOUS
    <3> QED  BY <3>1, FS_Interval
  <2>2. IsFiniteSet(S)
    BY <2>1, FS_Subset
  <2>3. S \in SUBSET Nat
    OBVIOUS
  <2> QED  BY <2>2, <2>3, SortedArranges
<1> HIDE DEF list
<1>2. list \in Seq(S) /\ \A x \in S : \E i \in 1 .. Len(list) : list[i] = x
  BY <1>1 DEF Arranges
<1>3. DOMAIN list = 1 .. Len(list) /\ \A i \in DOMAIN list : list[i] \in S
  BY <1>2
<1>4. {list[i] : i \in DOMAIN list} = S
  BY <1>2, <1>3
<1>5. IsList(list)
  BY <1>2 DEF IsList
<1> QED  BY <1>4, <1>5, SameLists DEF list

LEMMA FactCallsAreListed ==
  ASSUME NEW statements, IsList(statements)
  PROVE  IsList(Rules!FactCalls(statements))
<1>1. DOMAIN statements = 1 .. Len(statements) /\ Len(statements) \in Nat
  BY ListsAre
<1> DEFINE f == Rules!FactCalls(statements)
<1>2. f = [k \in DOMAIN statements |-> f[k]]
  BY DEF Rules!FactCalls
<1> HIDE DEF f
<1>3. IsList(f)
  BY <1>1, <1>2, TablesAreLists
<1> QED  BY <1>3 DEF f

LEMMA CallsAreListed ==
  ASSUME NEW c, NEW rule, Rules!IsRule(rule)
  PROVE  IsList(Rules!CallsOf(c, rule))
<1> DEFINE evidence == Rules!Analysis(c, rule).evidence
           Of(u, role) ==
             [call |-> Rules!Unit(rule, u), role |-> role, placement |-> IF u = 0 THEN "if" ELSE rule.body[u].kind,
              evidence |-> [i \in 1 .. Rules!Arity(Rules!Unit(rule, u)) |->
                              IF <<u, i>> \in Rules!Locals(rule) THEN evidence[<<u, i>>] ELSE Unset]]
           called == Rules!Sorted({u \in 1 .. Len(rule.body) : rule.body[u].kind # "comparison"})
           head == IF rule.kind = "IF" THEN <<Of(0, "read")>> ELSE <<>>
           body == [k \in DOMAIN called |->
                      Of(called[k], IF rule.body[called[k]].kind = "condition" THEN "read"
                                    ELSE Rules!StatementRole(rule.body[called[k]].negated, Rules!Unit(rule, called[k])))]
<1>1. Rules!CallsOf(c, rule) = head \o body
  BY DEF Rules!CallsOf
<1>2. IsList(called)
  <2>1. Len(rule.body) \in Nat
    BY DEF Rules!IsRule
  <2>2. {u \in 1 .. Len(rule.body) : rule.body[u].kind # "comparison"} \subseteq 1 .. Len(rule.body)
    OBVIOUS
  <2> QED  BY <2>1, <2>2, SortedIsList
<1>3. IsList(body)
  <2> HIDE DEF Of, called
  <2>1. DOMAIN called = 1 .. Len(called) /\ Len(called) \in Nat
    BY <1>2, ListsAre
  <2>2. body = [k \in 1 .. Len(called) |-> body[k]]
    BY <2>1
  <2> HIDE DEF body
  <2> QED  BY <2>1, <2>2, TablesAreLists
<1>4. IsList(head)
  <2> HIDE DEF Of
  <2> QED  BY ListsAre
<1> HIDE DEF head, body
<1> QED  BY <1>1, <1>3, <1>4, ListsAre

LEMMA CallsOfGoalAreListed ==
  ASSUME NEW c, NEW goal, Rules!IsGoal(goal)
  PROVE  IsList(Rules!CallsOfGoal(c, goal))
<1> DEFINE R == Rules!ToSet(goal.rules)
           seqs == [r \in DOMAIN goal.rules |-> Rules!CallsOf(c, goal.rules[r])]
           Members(s) == {s[i] : i \in DOMAIN s}
           T == UNION {Members(Rules!CallsOf(c, rule)) : rule \in R}
<1>1. /\ IsList(goal.init) /\ IsList(goal.exit) /\ goal.rules \in Seq(R)
      /\ \A rule \in R : Rules!IsRule(rule)
  BY DEF Rules!IsGoal, IsList
<1>2. ASSUME NEW rule \in R PROVE Rules!CallsOf(c, rule) \in Seq(T)
  <2> DEFINE s == Rules!CallsOf(c, rule)
  <2>1. IsList(s)
    BY <1>1, CallsAreListed
  <2>2. Members(s) \subseteq T
    <3> HIDE DEF Members, R
    <3> QED  OBVIOUS
  <2> HIDE DEF s, T
  <2>3. s \in Seq(Members(s))
    BY <2>1, ListsAre
  <2> HIDE DEF Members
  <2>4. s \in Seq(T)
    BY <2>2, <2>3
  <2> QED  BY <2>4 DEF s
<1> HIDE DEF T, R
<1>3. seqs \in Seq(Seq(T))
  <2>1. DOMAIN goal.rules = 1 .. Len(goal.rules) /\ Len(goal.rules) \in Nat
        /\ \A r \in DOMAIN goal.rules : goal.rules[r] \in R
    BY <1>1
  <2>2. seqs \in [1 .. Len(goal.rules) -> Seq(T)]
    BY <1>2, <2>1
  <2> QED  BY <2>1, <2>2, SeqDef
<1> HIDE DEF seqs
<1>4. IsList(FlattenSeq(seqs))
  <2>1. FlattenSeq(seqs) \in Seq(T)
    BY <1>3, FlattenType
  <2> QED  BY <2>1 DEF IsList
<1>5. Rules!CallsOfGoal(c, goal) =
        Rules!FactCalls(goal.init) \o FlattenSeq(seqs) \o Rules!FactCalls(goal.exit)
  <2>1. Rules!FlattenSeq(seqs) = FlattenSeq(seqs)
    BY SameLists
  <2> QED  BY <2>1 DEF Rules!CallsOfGoal, seqs
<1>6. IsList(Rules!FactCalls(goal.init)) /\ IsList(Rules!FactCalls(goal.exit))
  BY <1>1, FactCallsAreListed
<1>7. IsList(Rules!FactCalls(goal.init) \o FlattenSeq(seqs))
  BY <1>4, <1>6, ListsAre
<1> QED  BY <1>5, <1>6, <1>7, ListsAre

LEMMA OccurrencesAre ==
  ASSUME NEW calls, IsList(calls)
  PROVE  Rules!ToSet(Rules!OccurrencesIn(calls)) =
           {Rules!DatabaseOccurrence(k.call, k.role, k.evidence) :
              k \in {k \in Rules!ToSet(calls) : k.call.database}}
<1> DEFINE D == {k \in DOMAIN calls : calls[k].call.database}
           databases == Rules!Sorted(D)
           Of(k) == Rules!DatabaseOccurrence(calls[k].call, calls[k].role, calls[k].evidence)
           list == [i \in DOMAIN databases |-> Of(databases[i])]
<1>1. Rules!OccurrencesIn(calls) = list
  BY DEF Rules!OccurrencesIn
<1>2. {databases[i] : i \in DOMAIN databases} = D
  <2>1. D \subseteq 1 .. Len(calls) /\ Len(calls) \in Nat
    BY ListsAre
  <2> HIDE DEF D
  <2> QED  BY <2>1, SortedIsList
<1> HIDE DEF databases
<1>3. Rules!ToSet(list) = {Of(k) : k \in D}
  <2> HIDE DEF Of, D
  <2>1. Rules!ToSet(list) = {Of(databases[i]) : i \in DOMAIN databases}
    BY DEF Rules!ToSet
  <2> QED  BY <1>2, <2>1
<1>4. {Of(k) : k \in D} = {Rules!DatabaseOccurrence(k.call, k.role, k.evidence) :
                             k \in {k \in Rules!ToSet(calls) : k.call.database}}
  BY DEF Rules!ToSet
<1> QED  BY <1>1, <1>3, <1>4


(* The databases a goal declares, and those it refers to as written.       *)
WrittenBy(calls) ==
  {<<k.call.name, Rules!Arity(k.call)>> : k \in {k \in Rules!ToSet(calls) : k.call.database /\ k.role = "write"}}

LEMMA WrittenAreDeclared ==
  ASSUME NEW goal, NEW calls, IsList(calls)
  PROVE  {<<d.name, d.arity>> :
            d \in {d \in Rules!Declarations(goal) \cup Rules!Anchors(Rules!OccurrencesIn(calls)) :
                     d.kind = "OsirisDatabase"}} = WrittenBy(calls)
<1> DEFINE occurrences == Rules!OccurrencesIn(calls)
           all == Rules!ToSet(occurrences)
           written == {<<o.name, o.arity>> : o \in {o \in all : o.role = "write"}}
           anchors == Rules!Anchors(occurrences)
           declared == Rules!Declarations(goal)
<1>1. \A d \in declared : d.kind # "OsirisDatabase"
  BY DEF Rules!Declarations
<1>2. /\ \A d \in anchors : \E key \in written : d.kind = "OsirisDatabase" /\ d.name = key[1] /\ d.arity = key[2]
      /\ \A key \in written : \E d \in anchors : d.kind = "OsirisDatabase" /\ d.name = key[1] /\ d.arity = key[2]
  <2> DEFINE Writing(key) == Rules!SelectSeq(occurrences, LAMBDA o : <<o.name, o.arity>> = key /\ o.role = "write")
             Reading(key) == Rules!SelectSeq(occurrences, LAMBDA o : <<o.name, o.arity>> = key /\ o.role = "read")
  <2> DEFINE Of(key) ==
        [kind |-> "OsirisDatabase", name |-> key[1], arity |-> key[2], reads |-> Len(Reading(key)),
         writes |-> Len(Writing(key)),
         parameters |-> [i \in 1 .. key[2] |->
                           Rules!Summary({o.types[i] : o \in Rules!ToSet(Writing(key))} \ {Unset})]]
  <2>1. anchors = {Of(key) : key \in written}
    BY DEF Rules!Anchors
  <2>2. \A key : Of(key).kind = "OsirisDatabase" /\ Of(key).name = key[1] /\ Of(key).arity = key[2]
    OBVIOUS
  <2> HIDE DEF Of, anchors, written
  <2>3. \A key \in written : Of(key) \in anchors
    BY <2>1
  <2>4. \A d \in anchors : \E key \in written : d = Of(key)
    BY <2>1
  <2> QED  BY <2>2, <2>3, <2>4
<1>3. all = {Rules!DatabaseOccurrence(k.call, k.role, k.evidence) :
               k \in {k \in Rules!ToSet(calls) : k.call.database}}
  BY OccurrencesAre
<1>4. written = WrittenBy(calls)
  <2>1. \A call, role, evidence :
          LET o == Rules!DatabaseOccurrence(call, role, evidence)
          IN  o.name = call.name /\ o.arity = Rules!Arity(call) /\ o.role = role
    BY DEF Rules!DatabaseOccurrence
  <2> HIDE DEF all
  <2>2. \A x : x \in written <=> \E o \in all : o.role = "write" /\ x = <<o.name, o.arity>>
    OBVIOUS
  <2>3. \A x : x \in WrittenBy(calls) <=>
          \E k \in Rules!ToSet(calls) : k.call.database /\ k.role = "write" /\ x = <<k.call.name, Rules!Arity(k.call)>>
    BY DEF WrittenBy
  <2>4. \A x : x \in written <=>
          \E k \in Rules!ToSet(calls) : k.call.database /\ k.role = "write" /\ x = <<k.call.name, Rules!Arity(k.call)>>
    BY <1>3, <2>1, <2>2
  <2> HIDE DEF written
  <2> QED  BY <2>3, <2>4
<1>5. \A key \in written : key = <<key[1], key[2]>>
  OBVIOUS
<1> HIDE DEF anchors, declared, written
<1>6. {<<d.name, d.arity>> : d \in {d \in declared \cup anchors : d.kind = "OsirisDatabase"}} = written
  <2>1. \A x : x \in {<<d.name, d.arity>> : d \in {d \in declared \cup anchors : d.kind = "OsirisDatabase"}} <=>
          \E d \in anchors : d.kind = "OsirisDatabase" /\ x = <<d.name, d.arity>>
    BY <1>1
  <2>2. \A x : (\E d \in anchors : d.kind = "OsirisDatabase" /\ x = <<d.name, d.arity>>) <=> x \in written
    BY <1>2, <1>5
  <2> QED  BY <2>1, <2>2
<1> QED  BY <1>4, <1>6 DEF anchors, declared, occurrences

LEMMA WrittenAreReferredTo ==
  ASSUME NEW c, NEW goal, NEW calls
  PROVE  {<<r.name, r.arity>> :
            r \in {r \in {r \in Rules!ReferencesIn(c, goal, calls) : ~goal.errors \/ r.tag # "string"} :
                     r.tag = "database" /\ r.context = "write"}} = WrittenBy(calls)
<1> DEFINE K == Rules!ToSet(calls)
           Main(k) == [tag |-> IF k.call.database THEN "database" ELSE "callable", name |-> k.call.name,
                       arity |-> Rules!Arity(k.call), context |-> k.role]
           parents == {[tag |-> "goal", name |-> parent, arity |-> 0, context |-> "parent"] : parent \in goal.parents}
           Of(k) == Rules!CallReferences(c, k.call, k.role, k.placement)
           refs == Rules!ReferencesIn(c, goal, calls)
           S == {r \in {r \in refs : ~goal.errors \/ r.tag # "string"} : r.tag = "database" /\ r.context = "write"}
<1>1. \A r : r \in refs <=> (\E k \in K : r \in Of(k)) \/ r \in parents
  <2>1. refs = (UNION {Of(k) : k \in K}) \cup parents
    BY DEF Rules!ReferencesIn
  <2> HIDE DEF Of, K, parents, refs
  <2> QED  BY <2>1
<1>2. \A r \in parents : r.tag # "database"
  OBVIOUS
<1>3. \A k : \A r \in Rules!StringReferences(c, k.call, k.placement) : r.tag # "database"
  <2> TAKE k
  <2> TAKE r \in Rules!StringReferences(c, k.call, k.placement)
  <2>1. r.tag = "string"
    BY DEF Rules!StringReferences
  <2> QED  BY <2>1
<1>4. \A k : \A r : r \in Of(k) /\ r.tag = "database" => r = Main(k)
  <2> TAKE k
  <2> TAKE r
  <2>1. Of(k) = {Main(k)} \cup Rules!StringReferences(c, k.call, k.placement)
    BY DEF Rules!CallReferences
  <2> HIDE DEF Of, Main
  <2> QED  BY <1>3, <2>1
<1>5. \A k : Main(k) \in Of(k)
  BY DEF Rules!CallReferences
<1>6. \A k : /\ Main(k).tag = "database" <=> k.call.database
             /\ Main(k).name = k.call.name /\ Main(k).arity = Rules!Arity(k.call) /\ Main(k).context = k.role
  OBVIOUS
<1> HIDE DEF K, Main, parents, Of, refs
<1>7. \A r : r \in S <=> \E k \in K : r = Main(k) /\ k.call.database /\ k.role = "write"
  <2> TAKE r
  <2>1. r \in S <=> r \in refs /\ r.tag = "database" /\ r.context = "write"
    OBVIOUS
  <2> HIDE DEF S
  <2>2. r \in S => \E k \in K : r = Main(k) /\ k.call.database /\ k.role = "write"
    BY <1>1, <1>2, <1>4, <1>6, <2>1
  <2>3. ASSUME NEW k \in K, r = Main(k), k.call.database, k.role = "write" PROVE r \in S
    BY <1>1, <1>5, <1>6, <2>1, <2>3
  <2> QED  BY <2>2, <2>3
<1> HIDE DEF S
<1>8. \A x : x \in {<<r.name, r.arity>> : r \in S} <=>
        \E k \in K : k.call.database /\ k.role = "write" /\ x = <<k.call.name, Rules!Arity(k.call)>>
  <2>1. \A x : x \in {<<r.name, r.arity>> : r \in S} <=> \E r \in S : x = <<r.name, r.arity>>
    OBVIOUS
  <2> QED  BY <1>6, <1>7, <2>1
<1>9. \A x : x \in WrittenBy(calls) <=>
        \E k \in K : k.call.database /\ k.role = "write" /\ x = <<k.call.name, Rules!Arity(k.call)>>
  BY DEF WrittenBy, K
<1>10. {<<r.name, r.arity>> : r \in S} = WrittenBy(calls)
  BY <1>8, <1>9
<1> QED  BY <1>10 DEF S, refs

LEMMA GoalsDoAgree ==
  ASSUME NEW c, Rules!IsCatalog(c), NEW goal, Rules!IsGoal(goal)
  PROVE  Rules!GoalsAreConsistent(c, goal, Rules!ParseGoal(c, goal), OfferedByCompletion)
<1> DEFINE calls == Rules!CallsOfGoal(c, goal)
           syntax == IF goal.errors THEN {"syntax"} ELSE {}
           parsed == Rules!ParseGoal(c, goal)
           names == {<<d.name, d.arity>> : d \in {d \in parsed.definitions : d.kind = "OsirisDatabase"}}
           written == {<<r.name, r.arity>> :
                         r \in {r \in parsed.references : r.tag = "database" /\ r.context = "write"}}
           bodies == UNION {{<<s.call, s.kind>> : s \in {s \in Rules!ToSet(rule.body) : s.kind # "comparison"}} :
                              rule \in Rules!ToSet(goal.rules)}
           heads == {<<rule.head, Rules!HeadPlacement(rule)>> : rule \in Rules!ToSet(goal.rules)}
           facts == {<<s.call, "action">> : s \in Rules!ToSet(goal.init \o goal.exit)}
<1>1. parsed = IF ~goal.complete THEN Rules!Nothing(syntax)
               ELSE Rules!Declare(goal, Rules!OccurrencesIn(calls), Rules!ReferencesIn(c, goal, calls),
                                  syntax \cup Rules!RoleIssues(c, goal))
  BY DEF Rules!ParseGoal, Rules!ParseCalls
<1>2. IsList(calls)
  BY CallsOfGoalAreListed
<1> HIDE DEF calls
<1>3. CASE ~goal.complete
  <2>1. parsed.definitions = {} /\ parsed.references = {}
    BY <1>1, <1>3 DEF Rules!Nothing
  <2>2. names = written
    BY <2>1
  <2> QED  BY <1>3, <2>2 DEF Rules!GoalsAreConsistent
<1>4. CASE goal.complete
  <2>1. /\ parsed.definitions = Rules!Declarations(goal) \cup Rules!Anchors(Rules!OccurrencesIn(calls))
        /\ parsed.references = {r \in Rules!ReferencesIn(c, goal, calls) : ~goal.errors \/ r.tag # "string"}
        /\ parsed.issues = syntax \cup Rules!RoleIssues(c, goal)
    BY <1>1, <1>4 DEF Rules!Declare
  <2> HIDE DEF parsed
  <2>2. names = WrittenBy(calls)
    BY <1>2, <2>1, WrittenAreDeclared
  <2>3. written = WrittenBy(calls)
    BY <2>1, WrittenAreReferredTo
  <2>4. "role" \in parsed.issues <=> "role" \in Rules!RoleIssues(c, goal)
    BY <2>1
  <2>5. "role" \in Rules!RoleIssues(c, goal) <=>
          \E x \in bodies \cup heads \cup facts : Misplaced(c, x[1], x[2])
    BY RolesAreChecked
  <2>6. "role" \in parsed.issues <=> \E x \in bodies \cup heads \cup facts : Misplaced(c, x[1], x[2])
    BY <2>4, <2>5
  <2>7. \A x \in bodies \cup heads \cup facts :
          Misplaced(c, x[1], x[2]) <=>
            Rules!KnownKind(c, x[1]) # Unset /\ <<Rules!KnownKind(c, x[1]), x[2]>> \notin OfferedByCompletion
    BY DEF Misplaced
  <2> HIDE DEF names, written, bodies, heads, facts
  <2> QED  BY <2>2, <2>3, <2>6, <2>7 DEF Rules!GoalsAreConsistent, names, written, bodies, heads, facts, parsed
<1> QED  BY <1>3, <1>4

-----------------------------------------------------------------------------
(* Whatever is installed and however its packages are named: what they     *)
(* declare does not depend on the names, nothing that is rejected or tied  *)
(* stands above it, and the readers of one installation agree (thoth.rs,   *)
(* thoth_facts.rs, thoth_api.rs, osiris_api.rs, packaged_stats.rs).        *)
THEOREM InstalledEvidenceHolds == ReadersSpec => []InstalledEvidence
<1>1. ReadersInv => InstalledEvidence
  BY EvidenceHolds DEF ReadersInv
<1> QED  BY <1>1, Invariant, PTL

(* Whatever goals, installed packages and catalogs declare: what is        *)
(* completed is what signature help and hover show (language.rs, lib.rs).  *)
THEOREM CallablesAgree == ReadersSpec => []CallableViewsAgree
<1>1. ReadersInv => CallableViewsAgree
  <2> SUFFICES ASSUME ReadersInv, input.tag = "callables"
               PROVE  Callables!ViewsAgree(input.w, CallableNames, Positions)
    BY DEF CallableViewsAgree
  <2>1. Callables!IsWorkspace(input.w) /\ Positions \in SUBSET Nat
    BY ReadersAssumption DEF ReadersInv, CallablesInput
  <2> QED  BY <2>1, ViewsAlwaysAgree
<1> QED  BY <1>1, Invariant, PTL

(* Whatever goal files hold, and however they grow: a column is ambiguous  *)
(* exactly if files of one goal name disagree on it, and otherwise an      *)
(* error is reported for it exactly if two of its types exclude each other *)
(* (fold_osiris_database_records in lib.rs, diagnostics.rs).               *)
THEOREM MismatchesFound == ReadersSpec => []SchemaMismatchesAreReported
<1>1. ReadersInv => SchemaMismatchesAreReported
  BY MismatchesReported DEF ReadersInv, SchemasInput, SchemaMismatchesAreReported
<1> QED  BY <1>1, Invariant, PTL

(* Whatever rules and goals say, and whatever contracts the catalogs hold: *)
(* a variable's value has one origin, the first place of the rule that     *)
(* supplies it, and its type is its own or what earlier units agree on;    *)
(* definition, references and hover go by that; a goal declares exactly    *)
(* the databases it refers to as written, and an issue about its calls     *)
(* arises exactly where completion would not offer one (parser.rs, lib.rs).*)
THEOREM RulesReadInOrder == ReadersSpec => []RulesAreRead
<1>1. ReadersInv => RulesAreRead
  <2> SUFFICES ASSUME ReadersInv PROVE RulesAreRead
    OBVIOUS
  <2>1. Unset \notin Nat \X Nat
    BY ReadersAssumption
  <2>2. ASSUME input.tag = "rule"
        PROVE  RuleIsRead(input.catalog, input.rule, Rules!Outputs(input.catalog, input.rule),
                          Rules!Analysis(input.catalog, input.rule))
    <3>1. Rules!IsRule(input.rule)
      BY <2>2, ReadersAssumption DEF ReadersInv, RuleInput
    <3> QED  BY <2>1, <3>1, BindingsDoHaveOneOrigin, TypesDoComeFromBefore, NavigationDoesAgree,
                HoverDoesFollowNavigation DEF RuleIsRead
  <2>3. ASSUME input.tag = "goal"
        PROVE  Rules!GoalsAreConsistent(input.catalog, input.goal,
                                        Rules!ParseGoal(input.catalog, input.goal), OfferedByCompletion)
    <3>1. Rules!IsGoal(input.goal) /\ Rules!IsCatalog(input.catalog)
      BY <2>3, ReadersAssumption DEF ReadersInv, GoalInput
    <3> QED  BY <3>1, GoalsDoAgree
  <2> QED  BY <2>2, <2>3 DEF RulesAreRead
<1> QED  BY <1>1, Invariant, PTL
=============================================================================
