----------------------------- MODULE CacheStore -----------------------------
(***************************************************************************)
(* crates/bg3-index/src/cache.rs: CacheStore::build_module for one source  *)
(* file of one module, with every file system call of read_envelope and    *)
(* write_envelope a step, made by builders of several processes that share *)
(* the cache directory, against CacheStore::new removing temporary files,  *)
(* garbage_collect, crashes and writes that do not survive one.            *)
(*                                                                         *)
(* The parser's context (schema, grammar, language) is fixed, so an object *)
(* is keyed by the text of the file.  A stamp is the size and modification *)
(* time of the file: every edit makes a new one, an assumption on the file *)
(* system's clock that the code makes too.                                 *)
(***************************************************************************)
EXTENDS Naturals, FiniteSets

CONSTANTS
  Builders,   \* calls of build_module
  Processes,  \* processes that share the cache
  ProcessOf,  \* the process of each call
  Objects,    \* the texts the file may have, which key the objects
  TextOf(_),  \* the text an edit gives the file
  MaxEdits,   \* bound: edits of the file
  MaxLosses,  \* bound: files a power loss truncates
  Spares,     \* bound: inodes besides those of the files there at the start
  None        \* no such file, or one that does not read as an envelope

Manifest == "manifest"
Names == Objects \cup {Manifest}
Inodes == Names \cup Spares

ASSUME CacheAssumption ==
  /\ IsFiniteSet(Builders)
  /\ ProcessOf \in [Builders -> Processes]
  /\ Manifest \notin Objects
  /\ \A n \in 0 .. MaxEdits : TextOf(n) \in Objects
  /\ MaxEdits \in Nat /\ MaxLosses \in Nat
  /\ None \notin Inodes

VARIABLES
  disk,     \* the stamp of the source file
  file,     \* inode of each cache file
  temp,     \* inode of each temporary file
  data,     \* envelope each inode holds
  pc,       \* where each call is
  entry,    \* the old manifest's entry, as the call read it
  begun,    \* history: stamp when the call began
  stamp,    \* the stamp the call read
  text,     \* the text its result was parsed from
  fd,       \* inode it has open for writing
  old,      \* objects older than 30 days
  sweep,    \* objects garbage_collect found referenced, or None
  losses    \* files truncated so far

dirVars == <<file, temp, data>>
callVars == <<pc, entry, begun, stamp, text, fd>>
vars == <<disk, dirVars, callVars, old, sweep, losses>>

(* An object records the text it was parsed from, a manifest entry the     *)
(* stamp and the text of its source.                                       *)
Values == [stamp : Nat, text : Objects]
Object(t) == [stamp |-> 0, text |-> t]

(* write_envelope's temporary name: the final one and the process id.      *)
TempPerProcess(n, p) == <<Manifest, p>>

TempName(n, p) == <<n, p>>

Temps == Names \X Processes
Renaming == {"write object", "rename object", "write manifest", "rename manifest"}
PCs == {"idle", "stat", "probe", "read", "object", "manifest", "done", "failed", "crashed"}
       \cup Renaming

TypeOK ==
  /\ disk \in Nat
  /\ file \in [Names -> Inodes \cup {None}]
  /\ temp \in [Temps -> Inodes \cup {None}]
  /\ data \in [Inodes -> Values \cup {None}]
  /\ pc \in [Builders -> PCs]
  /\ entry \in [Builders -> Values \cup {None}]
  /\ begun \in [Builders -> Nat]
  /\ stamp \in [Builders -> Nat]
  /\ text \in [Builders -> Objects \cup {None}]
  /\ fd \in [Builders -> Inodes \cup {None}]
  /\ \A b \in Builders : fd[b] # None => pc[b] \in {"write object", "write manifest"}
  /\ old \subseteq Objects
  /\ sweep \in (SUBSET Objects) \cup {None}
  /\ losses \in Nat

(* The directory is empty, holds an object no manifest names, or is what a *)
(* build of the present file left; its objects are young or abandoned.     *)
Init ==
  /\ disk = 0
  /\ temp = [t \in Temps |-> None]
  /\ \E there \in {{}, {Manifest, TextOf(0)}} \cup {{t} : t \in Objects} :
       /\ file = [n \in Names |-> IF n \in there THEN n ELSE None]
       /\ data = [i \in Inodes |->
            IF i \notin there THEN None
            ELSE IF i = Manifest THEN [stamp |-> 0, text |-> TextOf(0)] ELSE Object(i)]
       /\ old \in {{}, there \ {Manifest}}
  /\ pc = [b \in Builders |-> "idle"]
  /\ entry = [b \in Builders |-> None]
  /\ begun = [b \in Builders |-> 0]
  /\ stamp = [b \in Builders |-> 0]
  /\ text = [b \in Builders |-> None]
  /\ fd = [b \in Builders |-> None]
  /\ sweep = None
  /\ losses = 0

-----------------------------------------------------------------------------
(* The directory.                                                          *)

(* read_envelope: an absent, truncated or corrupt file is an error.        *)
Envelope(n) == IF file[n] = None THEN None ELSE data[file[n]]

Unused == Inodes \ ({file[n] : n \in Names} \cup {temp[t] : t \in Temps} \cup {fd[b] : b \in Builders})

(* The source file is edited.                                              *)
Edit ==
  /\ disk < MaxEdits
  /\ disk' = disk + 1
  /\ UNCHANGED <<dirVars, callVars, old, sweep, losses>>

Goto(b, to) == pc' = [pc EXCEPT ![b] = to]

-----------------------------------------------------------------------------
(* build_module.                                                           *)

Start(b) ==
  /\ pc[b] = "idle"
  /\ entry' = [entry EXCEPT ![b] = Envelope(Manifest)]
  /\ begun' = [begun EXCEPT ![b] = disk]
  /\ Goto(b, "stat")
  /\ UNCHANGED <<disk, dirVars, stamp, text, fd, old, sweep, losses>>

Stat(b) ==
  /\ pc[b] = "stat"
  /\ stamp' = [stamp EXCEPT ![b] = disk]
  /\ Goto(b, "probe")
  /\ UNCHANGED <<disk, dirVars, entry, begun, text, fd, old, sweep, losses>>

(* A hit needs an entry of this stamp and a readable object.               *)
HitsAnyStamp(b) == entry[b] # None /\ Envelope(entry[b].text) # None

Hits(b) ==
  /\ entry[b] # None
  /\ entry[b].stamp = stamp[b]
  /\ Envelope(entry[b].text) # None

Probe(b) ==
  /\ pc[b] = "probe"
  /\ IF Hits(b)
       THEN text' = [text EXCEPT ![b] = Envelope(entry[b].text).text] /\ Goto(b, "manifest")
       ELSE UNCHANGED text /\ Goto(b, "read")
  /\ UNCHANGED <<disk, dirVars, entry, begun, stamp, fd, old, sweep, losses>>

(* The text is read after its stamp.                                       *)
Read(b) ==
  /\ pc[b] = "read"
  /\ text' = [text EXCEPT ![b] = TextOf(disk)]
  /\ Goto(b, "object")
  /\ UNCHANGED <<disk, dirVars, entry, begun, stamp, fd, old, sweep, losses>>

(* write_envelope: create, or truncate, the temporary file ...             *)
Target(b) == IF pc[b] \in {"write object", "rename object"} THEN text[b] ELSE Manifest

Create(b, n) ==
  LET t == TempName(n, ProcessOf[b])
      i == IF temp[t] = None THEN CHOOSE j \in Unused : TRUE ELSE temp[t]
  IN  /\ temp[t] = None => Unused # {}
      /\ temp' = [temp EXCEPT ![t] = i]
      /\ data' = [data EXCEPT ![i] = None]
      /\ fd' = [fd EXCEPT ![b] = i]

(* write_object: a file of that name is taken as written already.          *)
WriteObject(b) ==
  /\ pc[b] = "object"
  /\ IF file[text[b]] # None
       THEN Goto(b, "manifest") /\ UNCHANGED <<temp, data, fd>>
       ELSE Goto(b, "write object") /\ Create(b, text[b])
  /\ UNCHANGED <<disk, file, entry, begun, stamp, text, old, sweep, losses>>

(* The entry of the new manifest: the old one when it hit, else the stamp  *)
(* read before the text.                                                   *)
Entry(b) == [stamp |-> stamp[b], text |-> text[b]]

WriteManifest(b) ==
  /\ pc[b] = "manifest"
  /\ Goto(b, "write manifest")
  /\ Create(b, Manifest)
  /\ UNCHANGED <<disk, file, entry, begun, stamp, text, old, sweep, losses>>

(* ... write it; over what another call of the process wrote to the same   *)
(* file the two may not read as one envelope ...                           *)
Value(b) == IF Target(b) = Manifest THEN Entry(b) ELSE Object(text[b])

Write(b) ==
  /\ pc[b] \in {"write object", "write manifest"}
  /\ LET before == data[fd[b]] IN
       \E v \in {Value(b)} \cup (IF before \in {None, Value(b)} THEN {} ELSE {None}) :
         data' = [data EXCEPT ![fd[b]] = v]
  /\ Goto(b, IF Target(b) = Manifest THEN "rename manifest" ELSE "rename object")
  /\ fd' = [fd EXCEPT ![b] = None]
  /\ UNCHANGED <<disk, file, temp, entry, begun, stamp, text, old, sweep, losses>>

(* ... and rename it, whoever wrote it last, or fail when it is gone.      *)
Rename(b) ==
  /\ pc[b] \in {"rename object", "rename manifest"}
  /\ LET t == TempName(Target(b), ProcessOf[b]) IN
       IF temp[t] = None
         THEN Goto(b, "failed") /\ UNCHANGED <<file, temp, old>>
         ELSE /\ file' = [file EXCEPT ![Target(b)] = temp[t]]
              /\ temp' = [temp EXCEPT ![t] = None]
              /\ old' = old \ {Target(b)}
              /\ Goto(b, IF Target(b) = Manifest THEN "done" ELSE "manifest")
  /\ UNCHANGED <<disk, data, entry, begun, stamp, text, fd, sweep, losses>>

-----------------------------------------------------------------------------
(* CacheStore::new removes every temporary file it finds.  It runs at the  *)
(* start of every build and of every clean-up, in every process.           *)
RemoveTemporaryFile ==
  /\ \E t \in Temps :
       /\ temp[t] # None
       /\ temp' = [temp EXCEPT ![t] = None]
  /\ UNCHANGED <<disk, file, data, callVars, old, sweep, losses>>

(* garbage_collect reads the manifests, then removes objects one by one.   *)
Mark ==
  /\ sweep = None
  /\ sweep' = IF Envelope(Manifest) = None THEN {} ELSE {Envelope(Manifest).text}
  /\ UNCHANGED <<disk, dirVars, callVars, old, losses>>

Sweep ==
  /\ sweep # None
  /\ \E t \in old \ sweep :
       /\ file[t] # None
       /\ file' = [file EXCEPT ![t] = None]
       /\ old' = old \ {t}
  /\ UNCHANGED <<disk, temp, data, callVars, sweep, losses>>

(* A process dies: its files are closed, its temporary files stay.         *)
Crash(p) ==
  /\ \E b \in Builders : ProcessOf[b] = p /\ pc[b] \notin {"idle", "done", "failed", "crashed"}
  /\ pc' = [b \in Builders |->
       IF ProcessOf[b] = p /\ pc[b] \notin {"done", "failed"} THEN "crashed" ELSE pc[b]]
  /\ fd' = [b \in Builders |-> IF ProcessOf[b] = p THEN None ELSE fd[b]]
  /\ UNCHANGED <<disk, dirVars, entry, begun, stamp, text, old, sweep, losses>>

(* A renamed file was not synced and is found truncated.                   *)
Lose ==
  /\ losses < MaxLosses
  /\ losses' = losses + 1
  /\ \E n \in Names : file[n] # None /\ data' = [data EXCEPT ![file[n]] = None]
  /\ UNCHANGED <<disk, file, temp, callVars, old, sweep>>

-----------------------------------------------------------------------------
Call(b) ==
  \/ Start(b) \/ Stat(b) \/ Probe(b) \/ Read(b)
  \/ WriteObject(b) \/ WriteManifest(b) \/ Write(b) \/ Rename(b)

Next ==
  \/ Edit
  \/ \E b \in Builders : Call(b)
  \/ RemoveTemporaryFile \/ Mark \/ Sweep
  \/ \E p \in Processes : Crash(p)
  \/ Lose

Spec == Init /\ [][Next]_vars

-----------------------------------------------------------------------------
(* Properties.                                                             *)

(* What a build takes for the file's text was its text at some moment      *)
(* since the build began, whichever processes wrote or lost the manifest   *)
(* and the objects in the meantime: a hit is never stale.                  *)
BuildsAreCurrent ==
  \A b \in Builders : text[b] # None => \E n \in begun[b] .. disk : text[b] = TextOf(n)

(* A manifest that reads never names another text for the file's present   *)
(* stamp than its present text.                                            *)
ManifestIsCurrent ==
  LET m == Envelope(Manifest)
  IN  m # None /\ m.stamp = disk => m.text = TextOf(disk)

(* An object that reads was parsed from the text that names it, whatever   *)
(* two calls of one process did to a temporary file they shared.           *)
ObjectsMatchNames ==
  \A t \in Objects : Envelope(t) # None => Envelope(t) = Object(t)
=============================================================================
