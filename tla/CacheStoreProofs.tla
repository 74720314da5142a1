-------------------------- MODULE CacheStoreProofs --------------------------
(***************************************************************************)
(* Proofs about the cache: CacheStore, for every set of calls and          *)
(* processes, any assignment of the calls to processes, any texts and      *)
(* number of edits, and CatalogCache, for every set of packages and of     *)
(* tasks, whatever they have to load, and any number of changes.           *)
(***************************************************************************)
EXTENDS MCCacheStore, TLAPS

Before == {"idle", "stat", "probe", "read"}
After  == {"object", "manifest", "done"} \cup Renaming

(* A call has a text from its hit or its read on.                          *)
ShapeInv ==
  /\ TypeOK
  /\ disk <= MaxEdits
  /\ \A b \in Builders :
       /\ pc[b] \in Before => text[b] = None
       /\ pc[b] \in After => text[b] # None

(* The inode i is to be found under the name n: as the file, as one of its *)
(* temporary files, or open for a call that writes it.                     *)
Linked(i, n) ==
  \/ file[n] = i
  \/ \E p \in Processes : temp[TempName(n, p)] = i
  \/ \E b \in Builders : fd[b] = i /\ Target(b) = n

(* No inode is linked under two names: what is written for one is never    *)
(* renamed to another.                                                     *)
OneName == \A i \in Inodes, n, m \in Names : Linked(i, n) /\ Linked(i, m) => n = m

(* A text belongs to a stamp if the file had it when, or since, it had the *)
(* stamp.                                                                  *)
Belongs(s, t, now) == \E n \in s .. now : t = TextOf(n)

(* What is linked under an object's name is that object, and under the     *)
(* manifest's name an entry whose text belongs to its stamp.               *)
DataInv ==
  \A i \in Inodes : data[i] # None =>
    /\ \A t \in Objects : Linked(i, t) => data[i] = Object(t)
    /\ Linked(i, Manifest) => Belongs(data[i].stamp, data[i].text, disk)

(* So do the entries the calls have read and the texts they have taken.    *)
CallInv ==
  \A b \in Builders :
    /\ entry[b] # None => Belongs(entry[b].stamp, entry[b].text, disk)
    /\ text[b] # None => Belongs(stamp[b], text[b], disk)
    /\ begun[b] <= disk
    /\ pc[b] \in {"probe", "read"} \cup After => begun[b] <= stamp[b] /\ stamp[b] <= disk
    /\ text[b] # None => begun[b] <= stamp[b]

IInv == ShapeInv /\ OneName /\ DataInv /\ CallInv

-----------------------------------------------------------------------------
(* What keeps each part.                                                   *)

LEMMA ValueFields ==
  ASSUME NEW s, NEW t, NEW v, v = [stamp |-> s, text |-> t]
  PROVE  v.stamp = s /\ v.text = t /\ (s \in Nat /\ t \in Objects => v \in Values)
  BY DEF Values

LEMMA EntryBelongs ==
  ASSUME NEW s, NEW t, NEW v, NEW now, v = [stamp |-> s, text |-> t], Belongs(s, t, now)
  PROVE  Belongs(v.stamp, v.text, now)
  BY ValueFields

LEMMA BelongsStays ==
  ASSUME NEW now \in Nat, NEW later \in Nat, now <= later, NEW s \in Nat, NEW t, Belongs(s, t, now)
  PROVE  Belongs(s, t, later)
<1>1. PICK n \in s .. now : t = TextOf(n)
  BY DEF Belongs
<1>2. n \in s .. later
  OBVIOUS
<1> QED  BY <1>1, <1>2 DEF Belongs

(* Links only go away when files are removed and writers close theirs.     *)
LEMMA LinksShrink ==
  ASSUME \A d \in Builders : fd'[d] # None => fd'[d] = fd[d] /\ pc'[d] = pc[d] /\ text'[d] = text[d],
         \A n \in Names : file'[n] \in {None, file[n]},
         \A t \in Temps : temp'[t] \in {None, temp[t]}
  PROVE  \A i \in Inodes, n \in Names : Linked(i, n)' => Linked(i, n)
<1> SUFFICES ASSUME NEW i \in Inodes, NEW n \in Names, Linked(i, n)' PROVE Linked(i, n)
  OBVIOUS
<1>0. i # None
  BY CacheAssumption
<1>1. CASE file'[n] = i
  BY <1>0, <1>1 DEF Linked
<1>2. CASE \E p \in Processes : temp'[TempName(n, p)] = i
  BY <1>0, <1>2 DEF Linked, TempName, Temps
<1>3. CASE \E b \in Builders : fd'[b] = i /\ Target(b)' = n
  <2>1. PICK b \in Builders : fd'[b] = i /\ Target(b)' = n
    BY <1>3
  <2>2. fd[b] = i /\ Target(b) = n
    BY <1>0, <2>1 DEF Target
  <2> QED  BY <2>2 DEF Linked
<1> QED  BY <1>1, <1>2, <1>3 DEF Linked

LEMMA DataKept ==
  ASSUME TypeOK, OneName, DataInv, disk' \in Nat, disk <= disk',
         \A i \in Inodes, n \in Names : Linked(i, n)' => Linked(i, n),
         \A i \in Inodes : data'[i] \in {None, data[i]}
  PROVE  OneName' /\ DataInv'
<1>1. OneName'
  BY DEF OneName
<1>2. DataInv'
  <2> SUFFICES ASSUME NEW i \in Inodes, data'[i] # None
               PROVE  /\ \A t \in Objects : Linked(i, t)' => data'[i] = Object(t)
                      /\ Linked(i, Manifest)' => Belongs(data'[i].stamp, data'[i].text, disk')
    BY DEF DataInv
  <2>1. data'[i] = data[i] /\ data[i] \in Values /\ data[i].stamp \in Nat
    BY DEF TypeOK, Values
  <2>2. Manifest \in Names /\ \A t \in Objects : t \in Names
    BY DEF Names
  <2>3. \A t \in Objects : Linked(i, t)' => data'[i] = Object(t)
    BY <2>1, <2>2 DEF DataInv
  <2>4. ASSUME Linked(i, Manifest)' PROVE Belongs(data'[i].stamp, data'[i].text, disk')
    <3>1. Belongs(data[i].stamp, data[i].text, disk)
      BY <2>1, <2>2, <2>4 DEF DataInv
    <3>2. disk \in Nat
      BY DEF TypeOK
    <3>3. Belongs(data[i].stamp, data[i].text, disk')
      BY <2>1, <3>1, <3>2, BelongsStays
    <3> QED  BY <2>1, <3>3
  <2> QED  BY <2>3, <2>4
<1> QED  BY <1>1, <1>2

LEMMA CallsKept ==
  ASSUME TypeOK, CallInv, disk' \in Nat, disk <= disk', UNCHANGED <<entry, begun, stamp, text>>,
         \A d \in Builders :
           pc'[d] \in {"probe", "read"} \cup After => pc[d] \in {"probe", "read"} \cup After
  PROVE  CallInv'
<1> SUFFICES ASSUME NEW b \in Builders
             PROVE  /\ entry[b] # None => Belongs(entry[b].stamp, entry[b].text, disk')
                    /\ text[b] # None => Belongs(stamp[b], text[b], disk')
                    /\ begun[b] <= disk'
                    /\ pc'[b] \in {"probe", "read"} \cup After => begun[b] <= stamp[b] /\ stamp[b] <= disk'
                    /\ text[b] # None => begun[b] <= stamp[b]
  BY DEF CallInv, Belongs
<1>1. disk \in Nat /\ begun[b] \in Nat /\ stamp[b] \in Nat
  BY DEF TypeOK
<1>2. entry[b] # None => Belongs(entry[b].stamp, entry[b].text, disk')
  <2>1. entry[b] # None => entry[b].stamp \in Nat
    BY DEF TypeOK, Values
  <2> QED  BY <1>1, <2>1, BelongsStays DEF CallInv, Belongs
<1>3. text[b] # None => Belongs(stamp[b], text[b], disk')
  BY <1>1, BelongsStays DEF CallInv, Belongs
<1>4. /\ begun[b] <= disk'
      /\ pc'[b] \in {"probe", "read"} \cup After => begun[b] <= stamp[b] /\ stamp[b] <= disk'
      /\ text[b] # None => begun[b] <= stamp[b]
  BY <1>1 DEF CallInv
<1> QED  BY <1>2, <1>3, <1>4

LEMMA OthersKept ==
  ASSUME CallInv, NEW b \in Builders, disk' = disk,
         \A d \in Builders \ {b} : /\ pc'[d] = pc[d] /\ text'[d] = text[d] /\ entry'[d] = entry[d]
                                  /\ begun'[d] = begun[d] /\ stamp'[d] = stamp[d],
         entry'[b] # None => Belongs(entry'[b].stamp, entry'[b].text, disk),
         text'[b] # None => Belongs(stamp'[b], text'[b], disk),
         begun'[b] <= disk,
         pc'[b] \in {"probe", "read"} \cup After => begun'[b] <= stamp'[b] /\ stamp'[b] <= disk,
         text'[b] # None => begun'[b] <= stamp'[b]
  PROVE  CallInv'
  BY DEF CallInv

(* A temporary file is created, or the one that is there truncated: its    *)
(* inode is linked under no other name.                                    *)
LEMMA CreateLinks ==
  ASSUME TypeOK, OneName, DataInv, NEW b \in Builders, NEW n \in Names, Create(b, n),
         file' = file, disk' = disk, fd[b] = None, Target(b)' = n,
         \A d \in Builders \ {b} : pc'[d] = pc[d] /\ text'[d] = text[d]
  PROVE  /\ OneName' /\ DataInv'
         /\ temp' \in [Temps -> Inodes \cup {None}]
         /\ data' \in [Inodes -> Values \cup {None}]
         /\ fd' \in [Builders -> Inodes \cup {None}]
         /\ \A d \in Builders \ {b} : fd'[d] = fd[d]
<1> DEFINE t == TempName(n, ProcessOf[b])
           i == IF temp[t] = None THEN CHOOSE j \in Unused : TRUE ELSE temp[t]
<1>1. ProcessOf[b] \in Processes /\ t \in Temps
  BY CacheAssumption DEF TempName, Temps
<1>2. /\ temp' = [temp EXCEPT ![t] = i]
      /\ data' = [data EXCEPT ![i] = None]
      /\ fd' = [fd EXCEPT ![b] = i]
      /\ temp[t] = None => Unused # {}
  BY DEF Create
<1>3. /\ i \in Inodes
      /\ temp[t] = None => i \in Unused
      /\ temp[t] # None => i = temp[t]
  <2>1. CASE temp[t] = None
    <3>1. (CHOOSE j \in Unused : TRUE) \in Unused
      BY <1>2, <2>1
    <3> QED  BY <2>1, <3>1 DEF Unused
  <2>2. CASE temp[t] # None
    BY <1>1, <2>2 DEF TypeOK
  <2> QED  BY <2>1, <2>2
<1> HIDE DEF i
<1>4. \A m \in Names : Linked(i, m) => m = n
  <2>1. CASE temp[t] = None
    BY <1>3, <2>1 DEF Linked, Unused, TempName, Temps
  <2>2. CASE temp[t] # None
    <3>1. Linked(i, n)
      BY <1>1, <1>3, <2>2 DEF Linked
    <3> QED  BY <1>3, <3>1 DEF OneName
  <2> QED  BY <2>1, <2>2
<1>5. \A j \in Inodes, m \in Names : Linked(j, m)' => Linked(j, m) \/ (j = i /\ m = n)
  <2> SUFFICES ASSUME NEW j \in Inodes, NEW m \in Names, Linked(j, m)', ~(j = i /\ m = n)
               PROVE  Linked(j, m)
    OBVIOUS
  <2>1. CASE file'[m] = j
    BY <2>1 DEF Linked
  <2>2. CASE \E p \in Processes : temp'[TempName(m, p)] = j
    <3>1. PICK p \in Processes : temp'[TempName(m, p)] = j
      BY <2>2
    <3>2. TempName(m, p) \in Temps /\ (TempName(m, p) = t => m = n)
      BY DEF TempName, Temps
    <3>3. TempName(m, p) # t
      BY <1>1, <1>2, <3>1, <3>2 DEF TypeOK
    <3>4. temp[TempName(m, p)] = j
      BY <1>2, <3>1, <3>2, <3>3 DEF TypeOK
    <3> QED  BY <3>4 DEF Linked
  <2>3. CASE \E d \in Builders : fd'[d] = j /\ Target(d)' = m
    <3>1. PICK d \in Builders : fd'[d] = j /\ Target(d)' = m
      BY <2>3
    <3>2. d # b
      BY <1>2, <3>1 DEF TypeOK
    <3>3. fd[d] = j /\ Target(d) = m
      BY <1>2, <3>1, <3>2 DEF TypeOK, Target
    <3> QED  BY <3>3 DEF Linked
  <2> QED  BY <2>1, <2>2, <2>3 DEF Linked
<1>6. OneName'
  BY <1>4, <1>5 DEF OneName
<1>7. data'[i] = None /\ \A j \in Inodes \ {i} : data'[j] = data[j]
  BY <1>2, <1>3 DEF TypeOK
<1>8. DataInv'
  <2>1. Manifest \in Names /\ \A o \in Objects : o \in Names
    BY DEF Names
  <2> QED  BY <1>5, <1>7, <2>1 DEF DataInv, Belongs
<1>9. /\ temp' \in [Temps -> Inodes \cup {None}]
      /\ data' \in [Inodes -> Values \cup {None}]
      /\ fd' \in [Builders -> Inodes \cup {None}]
  BY <1>1, <1>2, <1>3 DEF TypeOK
<1>10. \A d \in Builders \ {b} : fd'[d] = fd[d]
  BY <1>2 DEF TypeOK
<1> QED  BY <1>6, <1>8, <1>9, <1>10

-----------------------------------------------------------------------------
LEMMA CacheInit == Init => IInv
<1> SUFFICES ASSUME Init PROVE IInv
  OBVIOUS
<1>1. PICK present \in {{}, {Manifest, TextOf(0)}} \cup {{o} : o \in Objects} :
        /\ file = [n \in Names |-> IF n \in present THEN n ELSE None]
        /\ data = [i \in Inodes |->
             IF i \notin present THEN None
             ELSE IF i = Manifest THEN [stamp |-> 0, text |-> TextOf(0)] ELSE Object(i)]
        /\ old \in {{}, present \ {Manifest}}
  BY DEF Init
<1>2. TextOf(0) \in Objects /\ present \subseteq Names /\ present \ {Manifest} \subseteq Objects
  <2>1. 0 \in 0 .. MaxEdits
    BY CacheAssumption
  <2> QED  BY <2>1, CacheAssumption, <1>1 DEF Names
<1>3. file \in [Names -> Inodes \cup {None}]
  BY <1>1 DEF Inodes
<1>4. data \in [Inodes -> Values \cup {None}]
  <2>1. \A i \in present : i # Manifest => Object(i) \in Values
    BY <1>2 DEF Object, Values
  <2>2. [stamp |-> 0, text |-> TextOf(0)] \in Values
    BY <1>2 DEF Values
  <2> QED  BY <1>1, <2>1, <2>2
<1>5. ShapeInv
  <2>1. TypeOK
    <3>1. disk \in Nat /\ losses \in Nat /\ sweep \in (SUBSET Objects) \cup {None}
      BY DEF Init
    <3>2. /\ temp \in [Temps -> Inodes \cup {None}]
          /\ pc \in [Builders -> PCs]
          /\ entry \in [Builders -> Values \cup {None}]
          /\ begun \in [Builders -> Nat]
          /\ stamp \in [Builders -> Nat]
          /\ text \in [Builders -> Objects \cup {None}]
          /\ fd \in [Builders -> Inodes \cup {None}]
      BY DEF Init, PCs
    <3>3. \A b \in Builders : fd[b] = None
      BY DEF Init
    <3>4. old \subseteq Objects
      BY <1>1, <1>2
    <3> QED  BY <1>3, <1>4, <3>1, <3>2, <3>3, <3>4 DEF TypeOK
  <2> QED  BY <2>1, CacheAssumption DEF Init, ShapeInv, Before, After, Renaming
<1>6. \A i \in Inodes, n \in Names : Linked(i, n) => file[n] = i /\ n = i /\ n \in present
  <2>1. \A n \in Names, p \in Processes : temp[TempName(n, p)] = None
    BY DEF Init, TempName, Temps
  <2>2. \A b \in Builders : fd[b] = None
    BY DEF Init
  <2> QED  BY <1>1, <2>1, <2>2, CacheAssumption DEF Linked
<1>7. OneName
  BY <1>6 DEF OneName
<1>8. DataInv
  <2>1. Belongs(0, TextOf(0), disk)
    BY DEF Belongs, Init
  <2>2. \A i \in Inodes : Linked(i, Manifest) => data[i] = [stamp |-> 0, text |-> TextOf(0)]
    BY <1>1, <1>6 DEF Names
  <2>3. \A i \in Inodes, o \in Objects : Linked(i, o) => data[i] = Object(o)
    BY <1>1, <1>6, CacheAssumption DEF Names
  <2> QED  BY <2>1, <2>2, <2>3 DEF DataInv
<1>9. CallInv
  BY DEF Init, CallInv, After, Renaming
<1> QED  BY <1>5, <1>7, <1>8, <1>9 DEF IInv

(* The steps of a call that write no file.                                 *)
LEMMA ReadingStep ==
  ASSUME IInv, NEW b \in Builders, Start(b) \/ Stat(b) \/ Probe(b) \/ Read(b)
  PROVE  IInv'
<1>0. TypeOK /\ ShapeInv /\ OneName /\ DataInv /\ CallInv
  BY DEF IInv, ShapeInv
<1>n. disk \in Nat /\ disk <= MaxEdits
  BY <1>0 DEF ShapeInv, TypeOK
<1>1. /\ UNCHANGED <<disk, dirVars, fd, old, sweep, losses>>
      /\ pc[b] \in Before /\ text[b] = None /\ fd[b] = None
      /\ \A d \in Builders \ {b} : /\ pc'[d] = pc[d] /\ text'[d] = text[d] /\ entry'[d] = entry[d]
                                   /\ begun'[d] = begun[d] /\ stamp'[d] = stamp[d]
  BY <1>0 DEF ShapeInv, TypeOK, Before, Start, Stat, Probe, Read, Goto
<1>2. \A n \in Names : /\ Envelope(n) \in Values \cup {None}
                       /\ Envelope(n) # None => \E i \in Inodes : Linked(i, n) /\ data[i] = Envelope(n)
  BY <1>0, CacheAssumption DEF Envelope, TypeOK, Linked
<1>3. OneName' /\ DataInv'
  <2>1. \A i \in Inodes, n \in Names : Linked(i, n)' => Linked(i, n)
    BY <1>0, <1>1, LinksShrink DEF dirVars
  <2>2. disk' = disk /\ \A i \in Inodes : data'[i] \in {None, data[i]}
    BY <1>1 DEF dirVars
  <2> QED  BY <1>0, <1>n, <2>1, <2>2, DataKept
<1>4. /\ disk \in Nat /\ disk <= MaxEdits /\ TextOf(disk) \in Objects
      /\ begun[b] \in Nat /\ stamp[b] \in Nat
  <2>1. disk \in 0 .. MaxEdits
    BY <1>n, CacheAssumption
  <2>2. begun[b] \in Nat /\ stamp[b] \in Nat
    BY <1>0 DEF TypeOK
  <2> QED  BY <1>n, <2>1, <2>2, CacheAssumption
<1>5. CASE Start(b)
  <2>1. /\ pc' = [pc EXCEPT ![b] = "stat"] /\ entry' = [entry EXCEPT ![b] = Envelope(Manifest)]
        /\ begun' = [begun EXCEPT ![b] = disk] /\ UNCHANGED <<stamp, text>>
    BY <1>5 DEF Start, Goto
  <2>2. Envelope(Manifest) \in Values \cup {None}
    BY <1>2 DEF Names
  <2>3. Envelope(Manifest) # None => Belongs(Envelope(Manifest).stamp, Envelope(Manifest).text, disk)
    BY <1>0, <1>2 DEF Names, DataInv
  <2>4. ShapeInv'
    <3>1. TypeOK'
      BY <1>0, <1>1, <2>1, <2>2 DEF TypeOK, dirVars, PCs
    <3> QED  BY <1>0, <1>1, <3>1, <2>1 DEF ShapeInv, TypeOK, Before, After, Renaming
  <2>5. CallInv'
    <3>1. /\ entry'[b] = Envelope(Manifest) /\ begun'[b] = disk /\ text'[b] = None
          /\ pc'[b] = "stat" /\ "stat" \notin {"probe", "read"} \cup After
      BY <1>0, <1>1, <2>1 DEF TypeOK, After, Renaming
    <3> QED  BY <1>0, <1>n, <1>1, <2>3, <3>1, OthersKept
  <2> QED  BY <1>3, <2>4, <2>5 DEF IInv
<1>6. CASE Stat(b)
  <2>1. /\ pc[b] = "stat" /\ pc' = [pc EXCEPT ![b] = "probe"] /\ stamp' = [stamp EXCEPT ![b] = disk]
        /\ UNCHANGED <<entry, begun, text>>
    BY <1>6 DEF Stat, Goto
  <2>2. ShapeInv'
    <3>1. TypeOK'
      BY <1>0, <1>1, <2>1 DEF TypeOK, dirVars, PCs
    <3> QED  BY <1>0, <1>1, <3>1, <2>1 DEF ShapeInv, TypeOK, Before, After, Renaming
  <2>3. CallInv'
    <3>1. /\ entry'[b] = entry[b] /\ begun'[b] = begun[b] /\ stamp'[b] = disk /\ text'[b] = None
          /\ begun[b] <= disk
      BY <1>0, <1>1, <2>1 DEF TypeOK, CallInv
    <3> QED  BY <1>0, <1>n, <1>1, <3>1, OthersKept DEF CallInv
  <2> QED  BY <1>3, <2>2, <2>3 DEF IInv
<1>7. ASSUME pc[b] \in {"probe", "read"}, NEW to \in {"manifest", "object"}, NEW t \in Objects,
             pc' = [pc EXCEPT ![b] = to], text' = [text EXCEPT ![b] = t],
             UNCHANGED <<entry, begun, stamp>>, Belongs(stamp[b], t, disk)
      PROVE  IInv'
  <2>1. t # None
    BY CacheAssumption DEF Inodes, Names
  <2>2. ShapeInv'
    <3>1. TypeOK'
      BY <1>0, <1>1, <1>7 DEF TypeOK, dirVars, PCs
    <3> QED  BY <1>0, <1>1, <1>7, <3>1, <2>1 DEF ShapeInv, TypeOK, Before, After, Renaming
  <2>3. CallInv'
    <3>1. /\ entry'[b] = entry[b] /\ begun'[b] = begun[b] /\ stamp'[b] = stamp[b] /\ text'[b] = t
          /\ begun[b] <= stamp[b] /\ stamp[b] <= disk /\ begun[b] <= disk
      BY <1>0, <1>1, <1>4, <1>7 DEF TypeOK, CallInv
    <3> QED  BY <1>0, <1>n, <1>1, <1>7, <3>1, OthersKept DEF CallInv
  <2> QED  BY <1>3, <2>2, <2>3 DEF IInv
<1>8. CASE Probe(b)
  <2>1. CASE Hits(b)
    <3>1. /\ pc[b] = "probe" /\ pc' = [pc EXCEPT ![b] = "manifest"]
          /\ text' = [text EXCEPT ![b] = Envelope(entry[b].text).text]
          /\ UNCHANGED <<entry, begun, stamp>>
      BY <1>8, <2>1 DEF Probe, Goto
    <3>2. entry[b] # None /\ entry[b].stamp = stamp[b] /\ entry[b].text \in Objects
      BY <1>0, <2>1 DEF Hits, TypeOK, Values
    <3>3. Envelope(entry[b].text) = Object(entry[b].text)
      BY <1>0, <1>2, <2>1, <3>2 DEF Hits, DataInv, Names
    <3>4. Envelope(entry[b].text).text = entry[b].text
      BY <3>3 DEF Object
    <3>5. Belongs(stamp[b], entry[b].text, disk)
      BY <1>0, <3>2 DEF CallInv
    <3> QED  BY <1>7, <3>1, <3>2, <3>4, <3>5
  <2>2. CASE ~Hits(b)
    <3>1. pc[b] = "probe" /\ pc' = [pc EXCEPT ![b] = "read"] /\ UNCHANGED <<entry, begun, stamp, text>>
      BY <1>8, <2>2 DEF Probe, Goto
    <3>2. ShapeInv'
      <4>1. TypeOK'
        BY <1>0, <1>1, <3>1 DEF TypeOK, dirVars, PCs
      <4> QED  BY <1>0, <1>1, <3>1, <4>1 DEF ShapeInv, TypeOK, Before, After, Renaming
    <3>3. CallInv'
      <4>1. \A d \in Builders : pc'[d] = pc[d] \/ (d = b /\ pc[d] = "probe" /\ pc'[d] = "read")
        BY <1>0, <3>1 DEF TypeOK
      <4> QED  BY <1>0, <1>n, <1>1, <3>1, <4>1, CallsKept
    <3> QED  BY <1>3, <3>2, <3>3 DEF IInv
  <2> QED  BY <2>1, <2>2
<1>9. CASE Read(b)
  <2>1. /\ pc[b] = "read" /\ pc' = [pc EXCEPT ![b] = "object"]
        /\ text' = [text EXCEPT ![b] = TextOf(disk)]
        /\ UNCHANGED <<entry, begun, stamp>>
    BY <1>9 DEF Read, Goto
  <2>2. Belongs(stamp[b], TextOf(disk), disk)
    BY <1>0, <1>4, <2>1 DEF CallInv, Belongs
  <2> QED  BY <1>4, <1>7, <2>1, <2>2
<1> QED  BY <1>5, <1>6, <1>8, <1>9

(* The steps of a call that write an object or the manifest.               *)
LEMMA WritingStep ==
  ASSUME IInv, NEW b \in Builders, WriteObject(b) \/ WriteManifest(b) \/ Write(b) \/ Rename(b)
  PROVE  IInv'
<1>0. TypeOK /\ ShapeInv /\ OneName /\ DataInv /\ CallInv
  BY DEF IInv, ShapeInv
<1>n. disk \in Nat /\ disk <= MaxEdits
  BY <1>0 DEF ShapeInv, TypeOK
<1>1. /\ UNCHANGED <<disk, entry, begun, stamp, text, sweep, losses>>
      /\ pc[b] \in After /\ text[b] # None /\ text[b] \in Objects
  BY <1>0 DEF ShapeInv, TypeOK, After, Renaming, WriteObject, WriteManifest, Write, Rename
<1>2. Manifest \in Names /\ text[b] \in Names /\ text[b] # Manifest
  BY <1>1, CacheAssumption DEF Names
<1>3. ASSUME NEW to \in After \cup {"failed"}, pc' = [pc EXCEPT ![b] = to], TypeOK'
      PROVE  ShapeInv' /\ CallInv'
  <2>1. CallInv'
    <3>1. \A d \in Builders : pc'[d] = pc[d] \/ (pc[d] \in After /\ pc'[d] \in After \cup {"failed"})
      BY <1>0, <1>1, <1>3 DEF TypeOK
    <3>2. "failed" \notin {"probe", "read"} \cup After
      BY DEF After, Renaming
    <3> QED  BY <1>0, <1>n, <1>1, <3>1, <3>2, CallsKept
  <2> QED  BY <1>0, <1>1, <1>3, <2>1 DEF ShapeInv, TypeOK, Before, After, Renaming
<1>4. ASSUME NEW n \in Names, NEW to \in {"write object", "write manifest"}, Create(b, n),
             UNCHANGED <<file, old>>, fd[b] = None, pc' = [pc EXCEPT ![b] = to],
             n = IF to = "write object" THEN text[b] ELSE Manifest
      PROVE  IInv'
  <2>1. Target(b)' = n /\ \A d \in Builders \ {b} : pc'[d] = pc[d] /\ text'[d] = text[d]
    BY <1>0, <1>1, <1>4 DEF Target, TypeOK
  <2>2. /\ OneName' /\ DataInv'
        /\ temp' \in [Temps -> Inodes \cup {None}]
        /\ data' \in [Inodes -> Values \cup {None}]
        /\ fd' \in [Builders -> Inodes \cup {None}]
        /\ \A d \in Builders \ {b} : fd'[d] = fd[d]
    BY <1>0, <1>1, <1>4, <2>1, CreateLinks
  <2>3. TypeOK'
    BY <1>0, <1>1, <1>4, <2>1, <2>2 DEF TypeOK, PCs, Renaming
  <2>4. to \in After
    BY DEF After, Renaming
  <2> QED  BY <1>3, <1>4, <2>2, <2>3, <2>4 DEF IInv
<1>5. CASE WriteObject(b)
  <2>1. pc[b] = "object" /\ fd[b] = None
    BY <1>0, <1>5 DEF WriteObject, TypeOK
  <2>2. CASE file[text[b]] # None
    <3>1. pc' = [pc EXCEPT ![b] = "manifest"] /\ UNCHANGED <<file, temp, data, fd, old>>
      BY <1>5, <2>2 DEF WriteObject, Goto
    <3>2. TypeOK'
      BY <1>0, <1>1, <2>1, <3>1 DEF TypeOK, PCs
    <3>3. \A i \in Inodes, n \in Names : Linked(i, n)' => Linked(i, n)
      BY <1>0, <1>1, <2>1, <3>1, LinksShrink DEF TypeOK
    <3>4. OneName' /\ DataInv'
      <4>1. disk' = disk /\ \A i \in Inodes : data'[i] \in {None, data[i]}
        BY <1>1, <3>1
      <4> QED  BY <1>0, <1>n, <3>3, <4>1, DataKept
    <3> QED  BY <1>3, <3>1, <3>2, <3>4 DEF IInv, After
  <2>3. CASE file[text[b]] = None
    <3>1. /\ pc' = [pc EXCEPT ![b] = "write object"] /\ Create(b, text[b])
          /\ UNCHANGED <<file, old>>
      BY <1>5, <2>3 DEF WriteObject, Goto
    <3> QED  BY <1>2, <1>4, <2>1, <3>1
  <2> QED  BY <2>2, <2>3
<1>6. CASE WriteManifest(b)
  <2>1. /\ fd[b] = None /\ pc' = [pc EXCEPT ![b] = "write manifest"] /\ Create(b, Manifest)
        /\ UNCHANGED <<file, old>>
    BY <1>0, <1>6 DEF WriteManifest, Goto, TypeOK
  <2> QED  BY <1>2, <1>4, <2>1
<1>7. CASE Write(b)
  <2>1. PICK v \in {Value(b), None} : data' = [data EXCEPT ![fd[b]] = v]
    BY <1>7 DEF Write
  <2>2. PICK to \in {"rename object", "rename manifest"} : pc' = [pc EXCEPT ![b] = to]
    BY <1>7 DEF Write, Goto
  <2>3. fd' = [fd EXCEPT ![b] = None] /\ UNCHANGED <<file, temp, old>>
    BY <1>7 DEF Write
  <2>4. /\ Target(b) \in Names
        /\ Target(b) = Manifest => Value(b) = [stamp |-> stamp[b], text |-> text[b]]
        /\ Target(b) # Manifest => Target(b) \in Objects /\ Value(b) = Object(Target(b))
    BY <1>1, <1>2 DEF Target, Value, Entry
  <2>5. Value(b) \in Values
    <3>1. stamp[b] \in Nat /\ 0 \in Nat
      BY <1>0 DEF TypeOK
    <3>2. \E s \in Nat, t \in Objects : Value(b) = [stamp |-> s, text |-> t]
      BY <1>1, <2>4, <3>1 DEF Object
    <3> QED  BY <3>2, ValueFields
  <2>6. TypeOK'
    BY <1>0, <1>1, <2>1, <2>2, <2>3, <2>5 DEF TypeOK, PCs, Renaming
  <2>7. \A i \in Inodes, n \in Names : Linked(i, n)' => Linked(i, n)
    BY <1>0, <1>1, <2>2, <2>3, LinksShrink DEF TypeOK
  <2>8. OneName'
    BY <1>0, <2>7 DEF OneName
  <2>9. DataInv'
    <3> SUFFICES ASSUME NEW i \in Inodes, data'[i] # None
                 PROVE  /\ \A t \in Objects : Linked(i, t)' => data'[i] = Object(t)
                        /\ Linked(i, Manifest)' => Belongs(data'[i].stamp, data'[i].text, disk)
      BY <1>1 DEF DataInv, Belongs
    <3>1. \A t \in Objects : t \in Names
      BY DEF Names
    <3>2. CASE i # fd[b]
      <4>1. data'[i] = data[i]
        BY <1>0, <2>1, <3>2 DEF TypeOK
      <4> QED  BY <1>0, <1>2, <2>7, <3>1, <4>1 DEF DataInv
    <3>3. CASE i = fd[b]
      <4>1. data'[i] = Value(b)
        BY <1>0, <2>1, <3>3 DEF TypeOK
      <4>2. Linked(i, Target(b))
        BY <3>3 DEF Linked
      <4>3. \A n \in Names : Linked(i, n)' => n = Target(b)
        BY <1>0, <2>4, <2>7, <4>2 DEF OneName
      <4>4. ASSUME NEW t \in Objects, Linked(i, t)' PROVE data'[i] = Object(t)
        BY <2>4, <3>1, <4>1, <4>3, <4>4, CacheAssumption
      <4>5. ASSUME Linked(i, Manifest)' PROVE Belongs(data'[i].stamp, data'[i].text, disk)
        <5>1. data'[i] = [stamp |-> stamp[b], text |-> text[b]]
          BY <1>2, <2>4, <4>1, <4>3, <4>5
        <5>2. Belongs(stamp[b], text[b], disk)
          BY <1>0, <1>1 DEF CallInv
        <5> QED  BY <5>1, <5>2, EntryBelongs
      <4> QED  BY <4>4, <4>5
    <3> QED  BY <3>2, <3>3
  <2>10. to \in After
    BY DEF After, Renaming
  <2> QED  BY <1>3, <2>2, <2>6, <2>8, <2>9, <2>10 DEF IInv
<1>8. CASE Rename(b)
  <2> DEFINE t == TempName(Target(b), ProcessOf[b])
  <2>1. fd[b] = None /\ Target(b) \in Names /\ t \in Temps /\ ProcessOf[b] \in Processes
    BY <1>0, <1>2, <1>8, CacheAssumption DEF Rename, TypeOK, Target, TempName, Temps
  <2>2. PICK to \in {"failed", "done", "manifest"} :
          /\ pc' = [pc EXCEPT ![b] = to]
          /\ UNCHANGED <<data, fd>>
          /\ \/ UNCHANGED <<file, temp, old>>
             \/ /\ temp[t] # None
                /\ file' = [file EXCEPT ![Target(b)] = temp[t]]
                /\ temp' = [temp EXCEPT ![t] = None]
                /\ old' = old \ {Target(b)}
    BY <1>8 DEF Rename, Goto
  <2>3. TypeOK'
    BY <1>0, <1>1, <2>1, <2>2 DEF TypeOK, PCs
  <2>4. \A i \in Inodes, n \in Names : Linked(i, n)' => Linked(i, n)
    <3> SUFFICES ASSUME NEW i \in Inodes, NEW n \in Names, Linked(i, n)' PROVE Linked(i, n)
      OBVIOUS
    <3>0. i # None
      BY CacheAssumption
    <3>1. CASE file'[n] = i
      <4>1. file[n] = i \/ (n = Target(b) /\ temp[t] = i)
        BY <1>0, <2>1, <2>2, <3>1 DEF TypeOK
      <4> QED  BY <2>1, <4>1 DEF Linked
    <3>2. CASE \E p \in Processes : temp'[TempName(n, p)] = i
      <4>1. PICK p \in Processes : temp'[TempName(n, p)] = i
        BY <3>2
      <4>2. TempName(n, p) \in Temps
        BY DEF TempName, Temps
      <4>3. temp[TempName(n, p)] = i
        BY <1>0, <2>1, <2>2, <3>0, <4>1, <4>2 DEF TypeOK
      <4> QED  BY <4>3 DEF Linked
    <3>3. CASE \E d \in Builders : fd'[d] = i /\ Target(d)' = n
      <4>1. PICK d \in Builders : fd'[d] = i /\ Target(d)' = n
        BY <3>3
      <4>2. d # b
        BY <2>1, <2>2, <3>0, <4>1
      <4>3. fd[d] = i /\ Target(d) = n
        BY <1>0, <1>1, <2>2, <4>1, <4>2 DEF Target, TypeOK
      <4> QED  BY <4>3 DEF Linked
    <3> QED  BY <3>1, <3>2, <3>3 DEF Linked
  <2>5. OneName' /\ DataInv'
    <3>1. disk' = disk /\ \A i \in Inodes : data'[i] \in {None, data[i]}
      BY <1>1, <2>2
    <3> QED  BY <1>0, <1>n, <2>4, <3>1, DataKept
  <2>6. to \in After \cup {"failed"}
    BY DEF After
  <2> QED  BY <1>3, <2>2, <2>3, <2>5, <2>6 DEF IInv
<1> QED  BY <1>5, <1>6, <1>7, <1>8

(* The steps around the calls.                                             *)
LEMMA OtherStep ==
  ASSUME IInv,
         \/ Edit \/ RemoveTemporaryFile \/ Mark \/ Sweep \/ Lose
         \/ \E p \in Processes : Crash(p)
         \/ UNCHANGED vars
  PROVE  IInv'
<1>0. TypeOK /\ ShapeInv /\ OneName /\ DataInv /\ CallInv
  BY DEF IInv, ShapeInv
<1>n. disk \in Nat /\ disk <= MaxEdits
  BY <1>0 DEF ShapeInv, TypeOK
<1>1. /\ UNCHANGED <<entry, begun, stamp, text>>
      /\ disk' \in Nat /\ disk <= disk' /\ disk' <= MaxEdits
  <2>1. UNCHANGED <<entry, begun, stamp, text>>
    BY DEF Edit, RemoveTemporaryFile, Mark, Sweep, Lose, Crash, vars, callVars
  <2>2. disk' = disk \/ (disk < MaxEdits /\ disk' = disk + 1)
    BY DEF Edit, RemoveTemporaryFile, Mark, Sweep, Lose, Crash, vars
  <2> QED  BY <1>n, <2>1, <2>2, CacheAssumption
<1>2. /\ pc' \in [Builders -> PCs] /\ fd' \in [Builders -> Inodes \cup {None}]
      /\ \A d \in Builders :
           /\ pc'[d] \in {pc[d], "crashed"}
           /\ fd'[d] # None => fd'[d] = fd[d] /\ pc'[d] = pc[d]
  <2>1. CASE \E p \in Processes : Crash(p)
    <3>1. PICK p \in Processes : Crash(p)
      BY <2>1
    <3>2. ASSUME NEW d \in Builders, fd[d] # None PROVE pc[d] \notin {"done", "failed"}
      BY <1>0, <3>2 DEF TypeOK
    <3> QED  BY <1>0, <3>1, <3>2 DEF Crash, TypeOK, PCs
  <2>2. CASE UNCHANGED <<pc, fd>>
    BY <1>0, <2>2 DEF TypeOK
  <2> QED  BY <2>1, <2>2 DEF Edit, RemoveTemporaryFile, Mark, Sweep, Lose, vars, callVars
<1>3. /\ file' \in [Names -> Inodes \cup {None}] /\ \A n \in Names : file'[n] \in {None, file[n]}
      /\ temp' \in [Temps -> Inodes \cup {None}] /\ \A t \in Temps : temp'[t] \in {None, temp[t]}
      /\ data' \in [Inodes -> Values \cup {None}] /\ \A i \in Inodes : data'[i] \in {None, data[i]}
  <2>1. CASE UNCHANGED dirVars
    BY <1>0, <2>1 DEF TypeOK, dirVars
  <2>2. CASE RemoveTemporaryFile
    BY <1>0, <2>2 DEF TypeOK, RemoveTemporaryFile
  <2>3. CASE Sweep
    BY <1>0, <2>3 DEF TypeOK, Sweep
  <2>4. CASE Lose
    BY <1>0, <2>4 DEF TypeOK, Lose
  <2> QED  BY <2>1, <2>2, <2>3, <2>4 DEF Edit, Mark, Crash, vars
<1>4. old' \subseteq Objects /\ sweep' \in (SUBSET Objects) \cup {None} /\ losses' \in Nat
  <2>1. Envelope(Manifest) # None => Envelope(Manifest).text \in Objects
    BY <1>0 DEF Envelope, TypeOK, Names, Values
  <2>2. /\ old' \subseteq old
        /\ sweep' = sweep \/ sweep' = {} \/ (Envelope(Manifest) # None /\ sweep' = {Envelope(Manifest).text})
        /\ losses' \in {losses, losses + 1}
    BY DEF Edit, RemoveTemporaryFile, Mark, Sweep, Lose, Crash, vars
  <2>3. old \subseteq Objects /\ sweep \in (SUBSET Objects) \cup {None} /\ losses \in Nat
    BY <1>0 DEF TypeOK
  <2>4. sweep' \in (SUBSET Objects) \cup {None}
    BY <2>1, <2>2, <2>3
  <2> QED  BY <2>2, <2>3, <2>4
<1>5. TypeOK'
  BY <1>0, <1>1, <1>2, <1>3, <1>4 DEF TypeOK
<1>6. ShapeInv'
  BY <1>0, <1>1, <1>2, <1>5 DEF ShapeInv, Before, After, Renaming
<1>7. CallInv'
  <2>1. "crashed" \notin {"probe", "read"} \cup After
    BY DEF After, Renaming
  <2> QED  BY <1>0, <1>n, <1>1, <1>2, <2>1, CallsKept
<1>8. \A i \in Inodes, n \in Names : Linked(i, n)' => Linked(i, n)
  BY <1>1, <1>2, <1>3, LinksShrink
<1>9. OneName' /\ DataInv'
  BY <1>0, <1>1, <1>3, <1>8, DataKept
<1> QED  BY <1>6, <1>7, <1>9 DEF IInv

LEMMA CacheCorrect == Spec => []IInv
<1>1. IInv /\ [Next]_vars => IInv'
  BY ReadingStep, WritingStep, OtherStep DEF Next, Call
<1> QED  BY CacheInit, <1>1, PTL DEF Spec

-----------------------------------------------------------------------------
(* Every reachable state is well typed, and only a call that is writing    *)
(* has a file open.                                                        *)
THEOREM CacheTypes == Spec => []TypeOK
<1>1. IInv => TypeOK
  BY DEF IInv, ShapeInv
<1> QED  BY <1>1, CacheCorrect, PTL

(* An object that reads was parsed from the text that names it.            *)
THEOREM ObjectsAreGenuine == Spec => []ObjectsMatchNames
<1>1. IInv => ObjectsMatchNames
  <2> SUFFICES ASSUME IInv, NEW t \in Objects, Envelope(t) # None PROVE Envelope(t) = Object(t)
    BY DEF ObjectsMatchNames
  <2>1. t \in Names /\ file[t] \in Inodes /\ Envelope(t) = data[file[t]]
    BY DEF Names, Envelope, IInv, ShapeInv, TypeOK
  <2>2. Linked(file[t], t)
    BY DEF Linked
  <2> QED  BY <2>1, <2>2 DEF IInv, DataInv
<1> QED  BY <1>1, CacheCorrect, PTL

(* A manifest that reads never gives the file's present stamp to a text    *)
(* other than its present one.                                             *)
THEOREM ManifestsAreCurrent == Spec => []ManifestIsCurrent
<1>1. IInv => ManifestIsCurrent
  <2> SUFFICES ASSUME IInv, Envelope(Manifest) # None, Envelope(Manifest).stamp = disk
               PROVE  Envelope(Manifest).text = TextOf(disk)
    BY DEF ManifestIsCurrent
  <2>1. Manifest \in Names /\ file[Manifest] \in Inodes /\ Envelope(Manifest) = data[file[Manifest]]
    BY DEF Names, Envelope, IInv, ShapeInv, TypeOK
  <2>2. Linked(file[Manifest], Manifest)
    BY DEF Linked
  <2>3. disk \in Nat /\ Belongs(disk, Envelope(Manifest).text, disk)
    BY <2>1, <2>2 DEF IInv, DataInv, ShapeInv, TypeOK
  <2> QED  BY <2>3 DEF Belongs
<1> QED  BY <1>1, CacheCorrect, PTL

(* What a build takes for the file's text was its text since the build     *)
(* began.                                                                  *)
THEOREM BuildsTakeNoStaleText == Spec => []BuildsAreCurrent
<1>1. IInv => BuildsAreCurrent
  <2> SUFFICES ASSUME IInv, NEW b \in Builders, text[b] # None
               PROVE  \E n \in begun[b] .. disk : text[b] = TextOf(n)
    BY DEF BuildsAreCurrent
  <2>1. begun[b] \in Nat /\ stamp[b] \in Nat /\ disk \in Nat /\ begun[b] <= stamp[b]
    BY DEF IInv, ShapeInv, TypeOK, CallInv
  <2>2. PICK n \in stamp[b] .. disk : text[b] = TextOf(n)
    BY DEF IInv, CallInv, Belongs
  <2>3. n \in begun[b] .. disk
    BY <2>1
  <2> QED  BY <2>2, <2>3
<1> QED  BY <1>1, CacheCorrect, PTL

-----------------------------------------------------------------------------
(* What is held of files at each point of a load.                          *)
TaskTypes ==
  /\ versions \in [Catalogs!Files -> Nat]
  /\ DOMAIN plan = Tasks /\ DOMAIN at = Tasks /\ DOMAIN listed = Tasks /\ DOMAIN schema = Tasks
  /\ DOMAIN stamps = Tasks /\ DOMAIN reading = Tasks /\ DOMAIN parts = Tasks
  /\ DOMAIN loaded = Tasks /\ DOMAIN began = Tasks
  /\ \A t \in Tasks :
       /\ began[t] \in [Catalogs!Files -> Nat]
       /\ \A f \in Catalogs!Files : began[t][f] <= versions[f]

LoadInv(t) ==
  /\ listed[t] \subseteq Catalogs!Files
  /\ plan[t] = <<>> => at[t] = "next" /\ DOMAIN stamps[t] = {}
  /\ at[t] # "read" => DOMAIN parts[t] = {}
  /\ at[t] = "read" =>
       /\ plan[t] # <<>>
       /\ DOMAIN stamps[t] = Catalogs!Inputs(t)
       /\ DOMAIN parts[t] \subseteq reading[t]
       /\ Catalogs!Load(t) = "stats" => reading[t] = listed[t]
       /\ Catalogs!Load(t) \in Catalogs!Optional =>
            reading[t] = {} \/ reading[t] = listed[t]
  /\ at[t] # "next" /\ Catalogs!Load(t) \in Catalogs!Optional =>
       listed[t] \subseteq {Catalogs!PackageOf(Catalogs!Load(t))}
  /\ at[t] # "next" /\ Catalogs!Load(t) = "schemas" =>
       schema[t] \in began[t][Catalogs!Schemas] .. versions[Catalogs!Schemas]

(* A stamp is of a version since the task began, a part of versions since  *)
(* its stamp.                                                              *)
StampInv(t) ==
  \A p \in DOMAIN stamps[t] :
    p \in Catalogs!Files /\ stamps[t][p] \in began[t][p] .. versions[p]
PartInv(t) ==
  \A p \in DOMAIN parts[t] :
    /\ p \in Catalogs!Files /\ parts[t][p] \subseteq 0 .. versions[p]
    /\ p \in DOMAIN stamps[t] => parts[t][p] \subseteq stamps[t][p] .. versions[p]

(* So is what was loaded.                                                  *)
LoadedInv(t) ==
  \A load \in DOMAIN loaded[t] :
    /\ Catalogs!IsCurrent(t, load, loaded[t][load].of, loaded[t][load].value)
    /\ load \in Catalogs!Packaged \cup Catalogs!Optional => loaded[t][load].of \subseteq Catalogs!Files

(* So is what the cache holds, where each value is of what names it.       *)
Genuine(load, of, kept) ==
  /\ load = "schemas" => kept.value.schema = of
  /\ load \in Catalogs!Facts => kept.value = Catalogs!FactsOf(of)
  /\ load \in Catalogs!Packaged \cup Catalogs!Optional =>
       \A p \in of \cap DOMAIN kept.value.parts :
         /\ p \in DOMAIN kept.stamps /\ p \in Catalogs!Files
         /\ kept.value.parts[p] \subseteq kept.stamps[p] .. versions[p]
  /\ load \in {"stats"} \cup Catalogs!Optional => DOMAIN kept.value.parts = of

EntriesInv ==
  \A load, of : <<load, of>> \in DOMAIN cache => Genuine(load, of, cache[<<load, of>>])

CatalogInv ==
  /\ TaskTypes
  /\ \A t \in Tasks : LoadInv(t) /\ StampInv(t) /\ PartInv(t) /\ LoadedInv(t)
  /\ EntriesInv

LEMMA CatalogInit == Catalogs!Init => CatalogInv
<1> SUFFICES ASSUME Catalogs!Init PROVE CatalogInv
  OBVIOUS
<1>1. TaskTypes
  BY DEF Catalogs!Init, TaskTypes
<1>2. \A t \in Tasks : LoadInv(t) /\ StampInv(t) /\ PartInv(t) /\ LoadedInv(t)
  BY DEF Catalogs!Init, Catalogs!Nothing, LoadInv, StampInv, PartInv, LoadedInv
<1>3. EntriesInv
  BY DEF Catalogs!Init, Catalogs!Nothing, EntriesInv
<1> QED  BY <1>1, <1>2, <1>3 DEF CatalogInv

(* Versions only grow, so what lay between began's and the present ones    *)
(* still does.                                                             *)
LEMMA InstallationStep ==
  ASSUME CatalogInv, NEW now, NEW present, Catalogs!Change(now, present),
         now \in [Catalogs!Files -> Nat], \A f \in Catalogs!Files : versions[f] <= now[f]
  PROVE  CatalogInv'
<1>0. /\ TaskTypes /\ versions' = now
      /\ UNCHANGED <<cache, plan, starts, at, listed, schema, stamps, reading, parts, loaded, began>>
  BY DEF Catalogs!Change, Catalogs!work, CatalogInv
<1>1. TaskTypes'
  BY <1>0 DEF TaskTypes
<1>2. Catalogs!Schemas \in Catalogs!Files
  BY DEF Catalogs!Files
<1>3. ASSUME NEW a, NEW f \in Catalogs!Files PROVE a .. versions[f] \subseteq a .. versions'[f]
  BY <1>0 DEF TaskTypes
<1>4. \A t \in Tasks : LoadInv(t)'
  <2> SUFFICES ASSUME NEW t \in Tasks PROVE LoadInv(t)'
    OBVIOUS
  <2>1. Catalogs!Load(t)' = Catalogs!Load(t) /\ Catalogs!Inputs(t)' = Catalogs!Inputs(t)
    BY <1>0 DEF Catalogs!Load, Catalogs!Inputs
  <2>2. schema[t] \in began[t][Catalogs!Schemas] .. versions[Catalogs!Schemas]
          => schema[t] \in began[t][Catalogs!Schemas] .. versions'[Catalogs!Schemas]
    BY <1>2, <1>3
  <2> QED  BY <1>0, <2>1, <2>2 DEF CatalogInv, LoadInv
<1>5. \A t \in Tasks : StampInv(t)' /\ PartInv(t)'
  BY <1>0, <1>3 DEF CatalogInv, StampInv, PartInv
<1>6. EntriesInv'
  <2> SUFFICES ASSUME NEW load, NEW of, <<load, of>> \in DOMAIN cache
               PROVE  Genuine(load, of, cache[<<load, of>>])'
    BY <1>0 DEF EntriesInv
  <2>1. Genuine(load, of, cache[<<load, of>>])
    BY DEF CatalogInv, EntriesInv
  <2> QED  BY <1>0, <1>3, <2>1 DEF Genuine
<1>7. \A t \in Tasks : LoadedInv(t)'
  <2> SUFFICES ASSUME NEW t \in Tasks, NEW load \in DOMAIN loaded[t]
               PROVE  /\ Catalogs!IsCurrent(t, load, loaded[t][load].of, loaded[t][load].value)'
                      /\ load \in Catalogs!Packaged \cup Catalogs!Optional
                           => loaded[t][load].of \subseteq Catalogs!Files
    BY <1>0 DEF LoadedInv
  <2>1. /\ Catalogs!IsCurrent(t, load, loaded[t][load].of, loaded[t][load].value)
        /\ load \in Catalogs!Packaged \cup Catalogs!Optional
             => loaded[t][load].of \subseteq Catalogs!Files
    BY DEF CatalogInv, LoadedInv
  <2> QED  BY <1>0, <1>2, <1>3, <2>1 DEF Catalogs!IsCurrent, Catalogs!Lies
<1> QED  BY <1>1, <1>4, <1>5, <1>6, <1>7 DEF CatalogInv

(* A step of one task leaves what the others hold alone.                   *)
LEMMA OtherTasks ==
  ASSUME CatalogInv, NEW t \in Tasks, UNCHANGED versions,
         \A u \in Tasks \ {t} :
           /\ plan'[u] = plan[u] /\ at'[u] = at[u] /\ listed'[u] = listed[u] /\ schema'[u] = schema[u]
           /\ stamps'[u] = stamps[u] /\ reading'[u] = reading[u] /\ parts'[u] = parts[u]
           /\ loaded'[u] = loaded[u] /\ began'[u] = began[u]
  PROVE  \A u \in Tasks \ {t} : (LoadInv(u) /\ StampInv(u) /\ PartInv(u) /\ LoadedInv(u))'
<1> SUFFICES ASSUME NEW u \in Tasks \ {t} PROVE (LoadInv(u) /\ StampInv(u) /\ PartInv(u) /\ LoadedInv(u))'
  OBVIOUS
<1>0. LoadInv(u) /\ StampInv(u) /\ PartInv(u) /\ LoadedInv(u)
  BY DEF CatalogInv
<1>1. Catalogs!Load(u)' = Catalogs!Load(u) /\ Catalogs!Inputs(u)' = Catalogs!Inputs(u)
  BY DEF Catalogs!Load, Catalogs!Inputs
<1>2. LoadInv(u)'
  BY <1>0, <1>1 DEF LoadInv
<1>3. StampInv(u)' /\ PartInv(u)'
  BY <1>0 DEF StampInv, PartInv
<1>4. LoadedInv(u)'
  BY <1>0 DEF LoadedInv, Catalogs!IsCurrent, Catalogs!Lies
<1> QED  BY <1>2, <1>3, <1>4

(* A load ends: what it held is dropped, and what it loaded lies between.  *)
LEMMA TurnStep ==
  ASSUME CatalogInv, NEW t \in Tasks, plan[t] # <<>>, Catalogs!Turn(t), UNCHANGED versions,
         UNCHANGED began, TaskTypes', listed'[t] \subseteq Catalogs!Files
  PROVE  (LoadInv(t) /\ StampInv(t) /\ PartInv(t))'
<1>1. DOMAIN stamps'[t] = {} /\ DOMAIN parts'[t] = {} /\ at'[t] = "next"
  BY DEF Catalogs!Turn, Catalogs!Drop, Catalogs!Goto, Catalogs!Nothing, CatalogInv, TaskTypes
<1> QED  BY <1>1 DEF LoadInv, StampInv, PartInv

LEMMA OneTask ==
  ASSUME CatalogInv, NEW t \in Tasks, UNCHANGED <<versions, cache>>, TaskTypes',
         \A u \in Tasks \ {t} :
           /\ plan'[u] = plan[u] /\ at'[u] = at[u] /\ listed'[u] = listed[u] /\ schema'[u] = schema[u]
           /\ stamps'[u] = stamps[u] /\ reading'[u] = reading[u] /\ parts'[u] = parts[u]
           /\ loaded'[u] = loaded[u] /\ began'[u] = began[u],
         (LoadInv(t) /\ StampInv(t) /\ PartInv(t) /\ LoadedInv(t))'
  PROVE  CatalogInv'
<1>1. \A u \in Tasks : (LoadInv(u) /\ StampInv(u) /\ PartInv(u) /\ LoadedInv(u))'
  BY OtherTasks
<1>2. EntriesInv'
  <2> SUFFICES ASSUME NEW load, NEW of, <<load, of>> \in DOMAIN cache
               PROVE  Genuine(load, of, cache[<<load, of>>])'
    BY DEF EntriesInv
  <2>1. Genuine(load, of, cache[<<load, of>>])
    BY DEF CatalogInv, EntriesInv
  <2> QED  BY <2>1 DEF Genuine
<1> QED  BY <1>1, <1>2 DEF CatalogInv

LEMMA LoadedKept ==
  ASSUME CatalogInv, NEW t \in Tasks, UNCHANGED <<versions, began, loaded>>
  PROVE  LoadedInv(t)'
<1>1. LoadedInv(t)
  BY DEF CatalogInv
<1> QED  BY <1>1 DEF LoadedInv, Catalogs!IsCurrent, Catalogs!Lies

(* The steps around a load.                                                *)
LEMMA AroundStep ==
  ASSUME CatalogInv, NEW t \in Tasks,
         \/ Catalogs!Start(t) \/ Catalogs!List(t) \/ Catalogs!TakePrevious(t) \/ Catalogs!Begin(t)
         \/ Catalogs!Lack(t) \/ Catalogs!Fail(t)
  PROVE  CatalogInv'
<1>0. TaskTypes /\ LoadInv(t) /\ StampInv(t) /\ PartInv(t) /\ LoadedInv(t)
  BY DEF CatalogInv
<1>1. Catalogs!Schemas \in Catalogs!Files /\ \A load : Catalogs!PackageOf(load) \in Catalogs!Files
  BY DEF Catalogs!Files, Catalogs!PackageOf
<1>2. CASE Catalogs!Start(t)
  <2>0. plan[t] = <<>> /\ at[t] = "next"
    BY <1>0, <1>2 DEF Catalogs!Start, LoadInv
  <2>1. /\ UNCHANGED <<versions, cache, at, stamps, reading, parts>>
        /\ listed' = [listed EXCEPT ![t] = {}] /\ schema' = [schema EXCEPT ![t] = 0]
        /\ loaded' = [loaded EXCEPT ![t] = Catalogs!Nothing]
        /\ began' = [began EXCEPT ![t] = versions]
        /\ \E p \in Plans : plan' = [plan EXCEPT ![t] = Catalogs!PlanOf[p]]
    BY <1>2 DEF Catalogs!Start, Catalogs!installation
  <2>2. TaskTypes'
    BY <1>0, <2>1 DEF TaskTypes
  <2>3. DOMAIN stamps[t] = {} /\ DOMAIN parts[t] = {} /\ listed'[t] = {} /\ DOMAIN loaded'[t] = {}
    BY <1>0, <2>0, <2>1 DEF LoadInv, TaskTypes, Catalogs!Nothing
  <2>4. (LoadInv(t) /\ StampInv(t) /\ PartInv(t) /\ LoadedInv(t))'
    BY <2>0, <2>1, <2>3 DEF LoadInv, StampInv, PartInv, LoadedInv
  <2> QED  BY <1>0, <2>1, <2>2, <2>4, OneTask DEF TaskTypes
<1>3. CASE Catalogs!List(t)
  <2>1. /\ plan[t] # <<>> /\ Catalogs!Turn(t) /\ UNCHANGED <<versions, cache, schema, loaded, began>>
        /\ listed' = [listed EXCEPT ![t] = Packages \cap there]
    BY <1>3 DEF Catalogs!List, Catalogs!Is, Catalogs!installation
  <2>2. TaskTypes'
    BY <1>0, <2>1 DEF TaskTypes, Catalogs!Turn, Catalogs!Drop, Catalogs!Goto
  <2>3. listed'[t] \subseteq Catalogs!Files
    BY <1>0, <2>1 DEF TaskTypes, Catalogs!Files
  <2>4. (LoadInv(t) /\ StampInv(t) /\ PartInv(t) /\ LoadedInv(t))'
    BY <2>1, <2>2, <2>3, TurnStep, LoadedKept
  <2> QED  BY <1>0, <2>1, <2>2, <2>4, OneTask
           DEF TaskTypes, Catalogs!Turn, Catalogs!Drop, Catalogs!Goto
<1>4. CASE Catalogs!TakePrevious(t)
  <2>1. /\ plan[t] # <<>> /\ Catalogs!Turn(t) /\ UNCHANGED <<versions, cache, listed, loaded, began>>
        /\ \E s : schema' = [schema EXCEPT ![t] = s]
    BY <1>4 DEF Catalogs!TakePrevious, Catalogs!Is, Catalogs!installation
  <2>2. TaskTypes'
    BY <1>0, <2>1 DEF TaskTypes, Catalogs!Turn, Catalogs!Drop, Catalogs!Goto
  <2>3. listed'[t] \subseteq Catalogs!Files
    BY <1>0, <2>1 DEF LoadInv
  <2>4. (LoadInv(t) /\ StampInv(t) /\ PartInv(t) /\ LoadedInv(t))'
    BY <2>1, <2>2, <2>3, TurnStep, LoadedKept
  <2> QED  BY <1>0, <2>1, <2>2, <2>4, OneTask
           DEF TaskTypes, Catalogs!Turn, Catalogs!Drop, Catalogs!Goto
<1>5. CASE Catalogs!Begin(t)
  <2>0. /\ plan[t] # <<>> /\ at[t] = "next"
        /\ UNCHANGED <<versions, cache, plan, stamps, reading, parts, loaded, began>>
        /\ schema' = [schema EXCEPT ![t] =
             IF Catalogs!Load(t) = "schemas" THEN versions[Catalogs!Schemas] ELSE @]
        /\ listed' = [listed EXCEPT ![t] =
             IF Catalogs!Load(t) \in Catalogs!Optional
               THEN {Catalogs!PackageOf(Catalogs!Load(t))} \cap there
               ELSE @]
        /\ at' = [at EXCEPT ![t] = "examine"]
    BY <1>5 DEF Catalogs!Begin, Catalogs!Is, Catalogs!installation, Catalogs!Goto
  <2>1. TaskTypes'
    BY <1>0, <2>0 DEF TaskTypes
  <2>2. Catalogs!Load(t)' = Catalogs!Load(t) /\ at'[t] = "examine" /\ DOMAIN parts'[t] = {}
    BY <1>0, <2>0 DEF Catalogs!Load, TaskTypes, LoadInv
  <2>3. listed'[t] \subseteq Catalogs!Files
    BY <1>0, <1>1, <2>0 DEF LoadInv, TaskTypes
  <2>4. Catalogs!Load(t) \in Catalogs!Optional =>
          listed'[t] \subseteq {Catalogs!PackageOf(Catalogs!Load(t))}
    BY <1>0, <2>0 DEF TaskTypes
  <2>5. Catalogs!Load(t) = "schemas" =>
          schema'[t] \in began'[t][Catalogs!Schemas] .. versions'[Catalogs!Schemas]
    BY <1>0, <1>1, <2>0 DEF TaskTypes
  <2>6. LoadInv(t)'
    BY <2>0, <2>2, <2>3, <2>4, <2>5 DEF LoadInv
  <2>7. StampInv(t)' /\ PartInv(t)'
    BY <1>0, <2>0 DEF StampInv, PartInv
  <2> QED  BY <1>0, <2>0, <2>1, <2>6, <2>7, OneTask, LoadedKept DEF TaskTypes
<1>6. CASE Catalogs!Lack(t)
  <2>1. plan[t] # <<>> /\ Catalogs!Turn(t) /\ UNCHANGED <<versions, cache, listed, schema, loaded, began>>
    BY <1>6 DEF Catalogs!Lack, Catalogs!Is, Catalogs!installation
  <2>2. TaskTypes'
    BY <1>0, <2>1 DEF TaskTypes, Catalogs!Turn, Catalogs!Drop, Catalogs!Goto
  <2>3. listed'[t] \subseteq Catalogs!Files
    BY <1>0, <2>1 DEF LoadInv
  <2>4. (LoadInv(t) /\ StampInv(t) /\ PartInv(t) /\ LoadedInv(t))'
    BY <2>1, <2>2, <2>3, TurnStep, LoadedKept
  <2> QED  BY <1>0, <2>1, <2>2, <2>4, OneTask
           DEF TaskTypes, Catalogs!Turn, Catalogs!Drop, Catalogs!Goto
<1>7. CASE Catalogs!Fail(t)
  <2>1. /\ UNCHANGED <<versions, cache, listed, schema, began>>
        /\ plan' = [plan EXCEPT ![t] = <<>>] /\ at' = [at EXCEPT ![t] = "next"]
        /\ loaded' = [loaded EXCEPT ![t] = Catalogs!Nothing]
        /\ stamps' = [stamps EXCEPT ![t] = Catalogs!Nothing]
        /\ reading' = [reading EXCEPT ![t] = {}] /\ parts' = [parts EXCEPT ![t] = Catalogs!Nothing]
    BY <1>7 DEF Catalogs!Fail, Catalogs!Goto, Catalogs!Drop, Catalogs!installation
  <2>2. TaskTypes'
    BY <1>0, <2>1 DEF TaskTypes
  <2>3. /\ DOMAIN stamps'[t] = {} /\ DOMAIN parts'[t] = {} /\ DOMAIN loaded'[t] = {}
        /\ at'[t] = "next" /\ listed'[t] \subseteq Catalogs!Files
    BY <1>0, <2>1 DEF TaskTypes, LoadInv, Catalogs!Nothing
  <2>4. (LoadInv(t) /\ StampInv(t) /\ PartInv(t) /\ LoadedInv(t))'
    BY <2>3 DEF LoadInv, StampInv, PartInv, LoadedInv
  <2> QED  BY <1>0, <2>1, <2>2, <2>4, OneTask DEF TaskTypes
<1> QED  BY <1>2, <1>3, <1>4, <1>5, <1>6, <1>7

(* A look at a package: at its stamp, or at its content.                   *)
LEMMA PackageStep ==
  ASSUME CatalogInv, NEW t \in Tasks, NEW p \in Catalogs!Files,
         Catalogs!Examine(t, p) \/ Catalogs!Read(t, p)
  PROVE  CatalogInv'
<1>0. TaskTypes /\ LoadInv(t) /\ StampInv(t) /\ PartInv(t)
  BY DEF CatalogInv
<1>1. versions[p] \in Nat /\ began[t][p] \in Nat /\ began[t][p] <= versions[p]
  BY <1>0 DEF TaskTypes
<1>2. CASE Catalogs!Examine(t, p)
  <2>1. /\ plan[t] # <<>> /\ at[t] # "read" /\ p \notin DOMAIN stamps[t]
        /\ UNCHANGED <<versions, cache, plan, at, listed, schema, reading, parts, loaded, began>>
        /\ stamps' = [stamps EXCEPT ![t] = Catalogs!With(@, p, versions[p])]
    BY <1>2 DEF Catalogs!Examine, Catalogs!Examines, Catalogs!Is, Catalogs!installation
  <2>2. TaskTypes'
    BY <1>0, <2>1 DEF TaskTypes
  <2>3. Catalogs!Load(t)' = Catalogs!Load(t)
    BY <2>1 DEF Catalogs!Load
  <2>4. LoadInv(t)'
    BY <1>0, <2>1, <2>3 DEF LoadInv
  <2>5. /\ DOMAIN stamps'[t] = DOMAIN stamps[t] \cup {p} /\ stamps'[t][p] = versions[p]
        /\ \A q \in DOMAIN stamps[t] : stamps'[t][q] = stamps[t][q]
    BY <1>0, <2>1 DEF TaskTypes, Catalogs!With
  <2>6. StampInv(t)'
    BY <1>0, <1>1, <2>1, <2>5 DEF StampInv
  <2>7. PartInv(t)'
    BY <1>0, <2>1 DEF PartInv, LoadInv
  <2> QED  BY <1>0, <2>1, <2>2, <2>4, <2>6, <2>7, OneTask, LoadedKept DEF TaskTypes
<1>3. CASE Catalogs!Read(t, p)
  <2>1. /\ at[t] = "read" /\ p \in reading[t]
        /\ UNCHANGED <<versions, cache, plan, at, listed, schema, stamps, reading, loaded, began>>
        /\ parts' = [parts EXCEPT ![t] = Catalogs!With(@, p, Catalogs!Met(t, p) \cup {versions[p]})]
    BY <1>3 DEF Catalogs!Read, Catalogs!installation
  <2>2. TaskTypes'
    BY <1>0, <2>1 DEF TaskTypes
  <2>3. /\ DOMAIN parts'[t] = DOMAIN parts[t] \cup {p}
        /\ parts'[t][p] = Catalogs!Met(t, p) \cup {versions[p]}
        /\ \A q \in DOMAIN parts[t] \ {p} : parts'[t][q] = parts[t][q]
    BY <1>0, <2>1 DEF TaskTypes, Catalogs!With
  <2>4. Catalogs!Load(t)' = Catalogs!Load(t) /\ Catalogs!Inputs(t)' = Catalogs!Inputs(t)
    BY <2>1 DEF Catalogs!Load, Catalogs!Inputs
  <2>5. LoadInv(t)'
    BY <1>0, <2>1, <2>3, <2>4 DEF LoadInv
  <2>6. StampInv(t)'
    BY <1>0, <2>1 DEF StampInv
  <2>7. /\ Catalogs!Met(t, p) \subseteq 0 .. versions[p]
        /\ p \in DOMAIN stamps[t] => Catalogs!Met(t, p) \subseteq stamps[t][p] .. versions[p]
    BY <1>0 DEF Catalogs!Met, PartInv
  <2>8. /\ versions[p] \in 0 .. versions[p]
        /\ p \in DOMAIN stamps[t] => versions[p] \in stamps[t][p] .. versions[p]
    BY <1>0, <1>1 DEF StampInv
  <2>9. PartInv(t)'
    BY <1>0, <2>1, <2>3, <2>7, <2>8 DEF PartInv
  <2> QED  BY <1>0, <2>1, <2>2, <2>5, <2>6, <2>9, OneTask, LoadedKept DEF TaskTypes
<1> QED  BY <1>2, <1>3

(* A value that is genuine under the stamps the task examined is current.  *)
LEMMA GenuineIsCurrent ==
  ASSUME CatalogInv, NEW t \in Tasks, NEW kept, kept.stamps = stamps[t],
         Genuine(Catalogs!Load(t), Catalogs!Of(t), kept),
         Catalogs!Load(t) = "schemas" =>
           schema[t] \in began[t][Catalogs!Schemas] .. versions[Catalogs!Schemas]
  PROVE  Catalogs!IsCurrent(t, Catalogs!Load(t), Catalogs!Of(t), kept.value)
<1> DEFINE load == Catalogs!Load(t)
           of == Catalogs!Of(t)
<1>0. TaskTypes /\ StampInv(t)
  BY DEF CatalogInv
<1>1. CASE load = "schemas"
  <2>1. of = schema[t]
    BY <1>1 DEF Catalogs!Of, Catalogs!Facts
  <2>2. load \notin Catalogs!Facts \cup Catalogs!Packaged \cup Catalogs!Optional \cup {"stats"}
    BY <1>1 DEF Catalogs!Facts, Catalogs!Packaged, Catalogs!Relisted, Catalogs!Optional
  <2> QED  BY <1>1, <2>1, <2>2 DEF Genuine, Catalogs!IsCurrent, Catalogs!Lies
<1>2. CASE load # "schemas"
  <2>1. ASSUME load \in Catalogs!Packaged \cup Catalogs!Optional,
               NEW p \in of \cap DOMAIN kept.value.parts
        PROVE  Catalogs!Lies(t, p, kept.value.parts[p])
    <3>1. /\ p \in DOMAIN stamps[t] /\ p \in Catalogs!Files
          /\ kept.value.parts[p] \subseteq stamps[t][p] .. versions[p]
      BY <2>1 DEF Genuine
    <3>2. stamps[t][p] \in began[t][p] .. versions[p]
      BY <1>0, <3>1 DEF StampInv
    <3>3. stamps[t][p] .. versions[p] \subseteq began[t][p] .. versions[p]
      BY <1>0, <3>1, <3>2 DEF TaskTypes
    <3> QED  BY <3>1, <3>3 DEF Catalogs!Lies
  <2> QED  BY <1>2, <2>1 DEF Genuine, Catalogs!IsCurrent
<1> QED  BY <1>1, <1>2

(* What a task takes is added to what it loaded.                           *)
LEMMA TakeStep ==
  ASSUME CatalogInv, NEW t \in Tasks, NEW value, plan[t] # <<>>, Catalogs!Take(t, value),
         UNCHANGED <<versions, listed, schema, began>>,
         Catalogs!IsCurrent(t, Catalogs!Load(t), Catalogs!Of(t), value)
  PROVE  /\ TaskTypes' /\ (LoadInv(t) /\ StampInv(t) /\ PartInv(t) /\ LoadedInv(t))'
         /\ \A u \in Tasks \ {t} :
              /\ plan'[u] = plan[u] /\ at'[u] = at[u] /\ listed'[u] = listed[u] /\ schema'[u] = schema[u]
              /\ stamps'[u] = stamps[u] /\ reading'[u] = reading[u] /\ parts'[u] = parts[u]
              /\ loaded'[u] = loaded[u] /\ began'[u] = began[u]
<1> DEFINE load == Catalogs!Load(t)
<1>0. TaskTypes /\ LoadInv(t) /\ LoadedInv(t)
  BY DEF CatalogInv
<1>1. /\ Catalogs!Turn(t)
      /\ loaded' = [loaded EXCEPT ![t] = Catalogs!With(@, load, [of |-> Catalogs!Of(t), value |-> value])]
  BY DEF Catalogs!Take
<1>2. TaskTypes'
  BY <1>0, <1>1 DEF TaskTypes, Catalogs!Turn, Catalogs!Drop, Catalogs!Goto
<1>3. listed'[t] \subseteq Catalogs!Files
  BY <1>0 DEF LoadInv
<1>4. (LoadInv(t) /\ StampInv(t) /\ PartInv(t))'
  BY <1>1, <1>2, <1>3, TurnStep
<1>5. LoadedInv(t)'
  <2> SUFFICES ASSUME NEW l \in DOMAIN loaded'[t]
               PROVE  /\ Catalogs!IsCurrent(t, l, loaded[t][l].of, loaded[t][l].value)'
                      /\ l \in Catalogs!Packaged \cup Catalogs!Optional
                           => loaded'[t][l].of \subseteq Catalogs!Files
    BY DEF LoadedInv
  <2>1. loaded'[t] = Catalogs!With(loaded[t], load, [of |-> Catalogs!Of(t), value |-> value])
    BY <1>0, <1>1 DEF TaskTypes
  <2>2. CASE l = load
    <3>1. loaded'[t][l] = [of |-> Catalogs!Of(t), value |-> value]
      BY <2>1, <2>2 DEF Catalogs!With
    <3>2. Catalogs!IsCurrent(t, l, loaded[t][l].of, loaded[t][l].value)'
      <4>1. Catalogs!IsCurrent(t, l, Catalogs!Of(t), value)
        BY <2>2
      <4>2. loaded'[t][l].of = Catalogs!Of(t) /\ loaded'[t][l].value = value
        BY <3>1
      <4> HIDE DEF load
      <4> QED  BY <4>1, <4>2 DEF Catalogs!IsCurrent, Catalogs!Lies
    <3>3. l \in Catalogs!Packaged \cup Catalogs!Optional => Catalogs!Of(t) = listed[t]
      BY <2>2 DEF Catalogs!Of, Catalogs!Facts, Catalogs!Packaged, Catalogs!Relisted, Catalogs!Optional
    <3>4. l \in Catalogs!Packaged \cup Catalogs!Optional => loaded'[t][l].of \subseteq Catalogs!Files
      BY <1>0, <3>1, <3>3 DEF LoadInv
    <3> QED  BY <3>2, <3>4
  <2>3. CASE l # load
    <3>1. l \in DOMAIN loaded[t] /\ loaded'[t][l] = loaded[t][l]
      BY <2>1, <2>3 DEF Catalogs!With
    <3> QED  BY <1>0, <3>1 DEF LoadedInv, Catalogs!IsCurrent, Catalogs!Lies
  <2> QED  BY <2>2, <2>3
<1>6. \A u \in Tasks \ {t} :
        /\ plan'[u] = plan[u] /\ at'[u] = at[u] /\ listed'[u] = listed[u] /\ schema'[u] = schema[u]
        /\ stamps'[u] = stamps[u] /\ reading'[u] = reading[u] /\ parts'[u] = parts[u]
        /\ loaded'[u] = loaded[u] /\ began'[u] = began[u]
  BY <1>0, <1>1 DEF TaskTypes, Catalogs!Turn, Catalogs!Drop, Catalogs!Goto
<1> QED  BY <1>2, <1>4, <1>5, <1>6

(* The end of a load: what the cache holds, or what was read.              *)
LEMMA LookStep ==
  ASSUME CatalogInv, NEW t \in Tasks, Catalogs!Look(t)
  PROVE  CatalogInv'
<1>0. TaskTypes /\ LoadInv(t) /\ StampInv(t) /\ PartInv(t) /\ EntriesInv
  BY DEF CatalogInv
<1>1. /\ plan[t] # <<>> /\ at[t] # "read" /\ DOMAIN stamps[t] = Catalogs!Inputs(t)
      /\ at[t] = "next" => Catalogs!Load(t) # "schemas"
      /\ Catalogs!Load(t) \in Catalogs!Optional => at[t] = "examine"
      /\ UNCHANGED <<versions, cache, listed, schema, began>>
  BY DEF Catalogs!Look, Catalogs!Examines, Catalogs!Is, Catalogs!installation,
         Catalogs!Packaged, Catalogs!Relisted, Catalogs!Facts, Catalogs!Optional
<1>2. CASE Catalogs!Matches(t) /\ Catalogs!Take(t, cache[Catalogs!Name(t)].value)
  <2> DEFINE kept == cache[Catalogs!Name(t)]
  <2>1. Catalogs!Name(t) \in DOMAIN cache /\ kept.stamps = stamps[t]
    BY <1>2 DEF Catalogs!Matches
  <2>2. Genuine(Catalogs!Load(t), Catalogs!Of(t), kept)
    BY <1>0, <2>1 DEF EntriesInv, Catalogs!Name
  <2>3. Catalogs!IsCurrent(t, Catalogs!Load(t), Catalogs!Of(t), kept.value)
    BY <1>0, <1>1, <2>1, <2>2, GenuineIsCurrent DEF LoadInv
  <2> HIDE DEF kept
  <2>4. Catalogs!Take(t, kept.value)
    BY <1>2 DEF kept
  <2> QED  BY <1>1, <2>3, <2>4, TakeStep, OneTask
<1>3. CASE /\ reading' = [reading EXCEPT ![t] = Catalogs!Relist(t)]
           /\ Catalogs!Goto(t, "read")
           /\ UNCHANGED <<plan, stamps, parts, loaded>>
  <2>1. TaskTypes'
    BY <1>0, <1>1, <1>3 DEF TaskTypes, Catalogs!Goto
  <2>2. /\ Catalogs!Load(t)' = Catalogs!Load(t) /\ Catalogs!Inputs(t)' = Catalogs!Inputs(t)
        /\ at'[t] = "read" /\ reading'[t] = Catalogs!Relist(t)
    BY <1>0, <1>1, <1>3 DEF Catalogs!Load, Catalogs!Inputs, Catalogs!Goto, TaskTypes
  <2>3. Catalogs!Load(t) = "stats" => Catalogs!Relist(t) = listed[t]
    BY DEF Catalogs!Relist, Catalogs!Inputs, Catalogs!Packaged, Catalogs!Relisted
  <2>4. Catalogs!Load(t) \in Catalogs!Optional =>
          /\ listed[t] \subseteq {Catalogs!PackageOf(Catalogs!Load(t))}
          /\ Catalogs!Relist(t) = {} \/ Catalogs!Relist(t) = listed[t]
    <3> SUFFICES ASSUME Catalogs!Load(t) \in Catalogs!Optional
                 PROVE  /\ listed[t] \subseteq {Catalogs!PackageOf(Catalogs!Load(t))}
                        /\ Catalogs!Relist(t) = {} \/ Catalogs!Relist(t) = listed[t]
      OBVIOUS
    <3>1. listed[t] \subseteq {Catalogs!PackageOf(Catalogs!Load(t))}
      BY <1>0, <1>1 DEF LoadInv
    <3>2. Catalogs!Relist(t) \in {listed[t], listed[t] \cap there}
      BY DEF Catalogs!Relist, Catalogs!Inputs, Catalogs!Relisted, Catalogs!Optional
    <3> QED  BY <3>1, <3>2
  <2>5. LoadInv(t)'
    BY <1>0, <1>1, <1>3, <2>2, <2>3, <2>4 DEF LoadInv
  <2>6. StampInv(t)' /\ PartInv(t)'
    BY <1>0, <1>1, <1>3 DEF StampInv, PartInv
  <2> QED  BY <1>0, <1>1, <1>3, <2>1, <2>5, <2>6, OneTask, LoadedKept DEF TaskTypes, Catalogs!Goto
<1> QED  BY <1>2, <1>3 DEF Catalogs!Look

LEMMA WriteStep ==
  ASSUME CatalogInv, NEW t \in Tasks, Catalogs!Write(t)
  PROVE  CatalogInv'
<1> DEFINE load == Catalogs!Load(t)
           of == Catalogs!Of(t)
           kept == [stamps |-> Catalogs!StampsOfEntry(t), value |-> Catalogs!Value(t)]
<1>0. TaskTypes /\ LoadInv(t) /\ StampInv(t) /\ PartInv(t) /\ EntriesInv
  BY DEF CatalogInv
<1>1. /\ plan[t] # <<>> /\ at[t] = "read" /\ DOMAIN parts[t] = reading[t]
      /\ load \in Catalogs!Optional => reading[t] # {}
      /\ cache' = Catalogs!With(cache, Catalogs!Name(t), kept)
      /\ Catalogs!Take(t, Catalogs!Value(t))
      /\ UNCHANGED <<versions, listed, schema, began>>
  BY <1>0 DEF Catalogs!Write, Catalogs!installation, LoadInv
<1>2. Genuine(load, of, kept)
  <2>1. kept.stamps = stamps[t] /\ kept.value = Catalogs!Value(t)
    BY DEF Catalogs!StampsOfEntry
  <2>2. CASE load = "schemas"
    <3>1. of = schema[t] /\ Catalogs!Value(t).schema = schema[t]
      BY <2>2 DEF Catalogs!Of, Catalogs!Value, Catalogs!Facts
    <3>2. load \notin Catalogs!Facts \cup Catalogs!Packaged \cup Catalogs!Optional \cup {"stats"}
      BY <2>2 DEF Catalogs!Facts, Catalogs!Packaged, Catalogs!Relisted, Catalogs!Optional
    <3> QED  BY <2>1, <3>1, <3>2 DEF Genuine
  <2>3. CASE load \in Catalogs!Facts
    <3>1. Catalogs!Value(t) = Catalogs!FactsOf(of)
      BY <2>3 DEF Catalogs!Value, Catalogs!Facts
    <3>2. load \notin {"schemas", "stats"} \cup Catalogs!Packaged \cup Catalogs!Optional
      BY <2>3 DEF Catalogs!Facts, Catalogs!Packaged, Catalogs!Relisted, Catalogs!Optional
    <3> QED  BY <2>1, <3>1, <3>2 DEF Genuine
  <2>4. CASE load \notin {"schemas"} \cup Catalogs!Facts
    <3>1. Catalogs!Value(t).parts = parts[t] /\ of = listed[t]
      BY <2>4 DEF Catalogs!Value, Catalogs!Of
    <3>2. ASSUME load \in Catalogs!Packaged \cup Catalogs!Optional, NEW p \in of \cap DOMAIN parts[t]
          PROVE  /\ p \in DOMAIN stamps[t] /\ p \in Catalogs!Files
                 /\ parts[t][p] \subseteq stamps[t][p] .. versions[p]
      <4>1. p \in DOMAIN stamps[t]
        BY <1>0, <1>1, <3>1, <3>2 DEF LoadInv, Catalogs!Inputs
      <4> QED  BY <1>0, <3>2, <4>1 DEF PartInv
    <3>3. load \in {"stats"} \cup Catalogs!Optional => DOMAIN parts[t] = of
      BY <1>0, <1>1, <3>1 DEF LoadInv
    <3> QED  BY <2>1, <2>4, <3>1, <3>2, <3>3 DEF Genuine
  <2> QED  BY <2>2, <2>3, <2>4
<1>3. Catalogs!IsCurrent(t, load, of, Catalogs!Value(t))
  <2>1. kept.stamps = stamps[t] /\ kept.value = Catalogs!Value(t)
    BY DEF Catalogs!StampsOfEntry
  <2>2. load = "schemas" =>
          schema[t] \in began[t][Catalogs!Schemas] .. versions[Catalogs!Schemas]
    BY <1>0, <1>1 DEF LoadInv
  <2> HIDE DEF kept
  <2> QED  BY <1>2, <2>1, <2>2, GenuineIsCurrent
<1>4. /\ TaskTypes' /\ (LoadInv(t) /\ StampInv(t) /\ PartInv(t) /\ LoadedInv(t))'
      /\ \A u \in Tasks \ {t} :
           /\ plan'[u] = plan[u] /\ at'[u] = at[u] /\ listed'[u] = listed[u] /\ schema'[u] = schema[u]
           /\ stamps'[u] = stamps[u] /\ reading'[u] = reading[u] /\ parts'[u] = parts[u]
           /\ loaded'[u] = loaded[u] /\ began'[u] = began[u]
  BY <1>1, <1>3, TakeStep
<1>5. EntriesInv'
  <2> SUFFICES ASSUME NEW l, NEW o, <<l, o>> \in DOMAIN cache'
               PROVE  Genuine(l, o, cache[<<l, o>>])'
    BY DEF EntriesInv
  <2> HIDE DEF kept
  <2>1. CASE <<l, o>> = Catalogs!Name(t)
    <3>1. l = load /\ o = of
      BY <2>1 DEF Catalogs!Name
    <3>2. cache'[<<l, o>>] = kept
      BY <1>1, <2>1 DEF Catalogs!With
    <3> QED  BY <1>1, <1>2, <3>1, <3>2 DEF Genuine
  <2>2. CASE <<l, o>> # Catalogs!Name(t)
    <3>1. <<l, o>> \in DOMAIN cache /\ cache'[<<l, o>>] = cache[<<l, o>>]
      BY <1>1, <2>2 DEF Catalogs!With
    <3>2. Genuine(l, o, cache[<<l, o>>])
      BY <1>0, <3>1 DEF EntriesInv
    <3> QED  BY <1>1, <3>1, <3>2 DEF Genuine
  <2> QED  BY <2>1, <2>2
<1>6. \A u \in Tasks : (LoadInv(u) /\ StampInv(u) /\ PartInv(u) /\ LoadedInv(u))'
  BY <1>1, <1>4, OtherTasks
<1> QED  BY <1>4, <1>5, <1>6 DEF CatalogInv

LEMMA CatalogStep ==
  ASSUME CatalogInv, [Catalogs!Next]_(Catalogs!vars)
  PROVE  CatalogInv'
<1>0. TaskTypes
  BY DEF CatalogInv
<1>1. CASE \E f \in Volatile : Catalogs!Install(f) \/ Catalogs!Remove(f) \/ Catalogs!PutBack(f)
  <2>1. PICK f \in Volatile : Catalogs!Install(f) \/ Catalogs!Remove(f) \/ Catalogs!PutBack(f)
    BY <1>1
  <2>2. PICK now, present : /\ Catalogs!Change(now, present)
                            /\ now \in {versions, [versions EXCEPT ![f] = @ + 1]}
    BY <2>1 DEF Catalogs!Install, Catalogs!Remove, Catalogs!PutBack
  <2>3. now \in [Catalogs!Files -> Nat] /\ \A g \in Catalogs!Files : versions[g] <= now[g]
    BY <1>0, <2>2 DEF TaskTypes
  <2> QED  BY <2>2, <2>3, InstallationStep
<1>2. ASSUME NEW t \in Tasks, Catalogs!Task(t) PROVE CatalogInv'
  BY <1>2, AroundStep, PackageStep, LookStep, WriteStep DEF Catalogs!Task
<1>3. CASE UNCHANGED Catalogs!vars
  <2>1. UNCHANGED <<versions, cache, plan, at, listed, schema, stamps, reading, parts, loaded, began>>
    BY <1>3 DEF Catalogs!vars, Catalogs!installation, Catalogs!work
  <2>2. TaskTypes'
    BY <1>0, <2>1 DEF TaskTypes
  <2>3. ASSUME NEW t \in Tasks PROVE (LoadInv(t) /\ StampInv(t) /\ PartInv(t) /\ LoadedInv(t))'
    <3>1. Catalogs!Load(t)' = Catalogs!Load(t) /\ Catalogs!Inputs(t)' = Catalogs!Inputs(t)
      BY <2>1 DEF Catalogs!Load, Catalogs!Inputs
    <3>2. (LoadInv(t) /\ StampInv(t) /\ PartInv(t))'
      BY <2>1, <3>1 DEF CatalogInv, LoadInv, StampInv, PartInv
    <3> QED  BY <2>1, <3>2, LoadedKept
  <2>4. EntriesInv'
    BY <2>1 DEF CatalogInv, EntriesInv, Genuine
  <2> QED  BY <2>2, <2>3, <2>4 DEF CatalogInv
<1> QED  BY <1>1, <1>2, <1>3 DEF Catalogs!Next

(* What a task loads from a file it listed is what the file held since the *)
(* task began, whatever other tasks wrote to the cache and files changed.  *)
THEOREM CatalogsFollowPackages == Catalogs!Spec => []CatalogsAreCurrent
<1>1. CatalogInv => CatalogsAreCurrent
  BY DEF CatalogInv, LoadedInv, CatalogsAreCurrent, Catalogs!CatalogsAreCurrent
<1> QED  BY <1>1, CatalogInit, CatalogStep, PTL DEF Catalogs!Spec
=============================================================================
