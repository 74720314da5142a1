----------------------------- MODULE Publishing -----------------------------
(***************************************************************************)
(* crates/bg3-ls/src/conversion.rs, and catalog generate in main.rs: the   *)
(* commands that write one file, each through a temporary file beside its  *)
(* destination.  Several run at once on the same source and destination,   *)
(* next to other programs, and may be killed at any point.                 *)
(***************************************************************************)
EXTENDS Naturals, FiniteSets

CONSTANTS
  Commands,      \* running commands
  Kinds,         \* what they may be: convert, force (convert --force), generate
  MaxChanges     \* bound: what other programs do

Absent == [text |-> "absent", mode |-> "none", synced |-> TRUE]
Texts == {"first", "second", "malformed"}
File(text, mode, synced) == [text |-> text, mode |-> mode, synced |-> synced]

VARIABLES
  kind,          \* which command each is
  source,        \* the text of the source file
  destination,   \* what the destination holds, who may read it, whether it is on disk
  pc,            \* of each command
  text,          \* what a command has read
  temporary,     \* its temporary file
  changes,       \* changes by other programs
  modes,         \* the modes the destination has had since the command began
  seen           \* the texts the source has had since the command began

vars == <<kind, source, destination, pc, text, temporary, changes, modes, seen>>

Init ==
  /\ kind \in [Commands -> Kinds]
  /\ source \in Texts
  /\ destination \in {Absent, File("other", "shared", TRUE)}
  /\ pc = [c \in Commands |-> "start"]
  /\ text = [c \in Commands |-> "none"]
  /\ temporary = [c \in Commands |-> Absent]
  /\ changes = 0
  /\ modes = [c \in Commands |-> {destination.mode}]
  /\ seen = [c \in Commands |-> {source}]

-----------------------------------------------------------------------------
(* One command.                                                            *)

Go(c, from, to) == pc[c] = from /\ pc' = [pc EXCEPT ![c] = to]

(* The temporary file goes when its owner returns.                         *)
Fail(c) ==
  /\ pc' = [pc EXCEPT ![c] = "failed"]
  /\ temporary' = [temporary EXCEPT ![c] = Absent]
  /\ UNCHANGED <<kind, source, destination, text, changes, modes, seen>>

(* Any file system call may fail.                                          *)
Breaks(c) == pc[c] \notin {"done", "failed", "killed"} /\ Fail(c)

(* Refuses an existing destination; generate does not look.                *)
Inspect(c) ==
  /\ IF kind[c] = "convert" /\ destination # Absent
     THEN pc[c] = "start" /\ Fail(c)
     ELSE /\ Go(c, "start", IF kind[c] = "generate" THEN "read" ELSE "validate")
          /\ UNCHANGED <<kind, source, destination, text, temporary, changes, modes, seen>>

(* validate_lsx, a pass over the file of its own.                          *)
Validate(c) ==
  /\ IF source = "malformed" THEN pc[c] = "validate" /\ Fail(c)
     ELSE /\ Go(c, "validate", "read")
          /\ UNCHANGED <<kind, source, destination, text, temporary, changes, modes, seen>>

Read(c) ==
  /\ IF source = "malformed" THEN pc[c] = "read" /\ Fail(c)
     ELSE /\ Go(c, "read", "create")
          /\ text' = [text EXCEPT ![c] = source]
          /\ UNCHANGED <<kind, source, destination, temporary, changes, modes, seen>>

Create(c) ==
  /\ Go(c, "create", "write")
  /\ temporary' = [temporary EXCEPT ![c] = File("part", "private", FALSE)]
  /\ UNCHANGED <<kind, source, destination, text, changes, modes, seen>>

Write(c) ==
  /\ Go(c, "write", IF kind[c] = "generate" THEN "persist" ELSE "sync")
  /\ temporary' = [temporary EXCEPT ![c].text = text[c]]
  /\ UNCHANGED <<kind, source, destination, text, changes, modes, seen>>

SyncSkipped(c) ==
  /\ Go(c, "sync", IF kind[c] = "force" THEN "permissions" ELSE "persist")
  /\ UNCHANGED <<kind, source, destination, text, temporary, changes, modes, seen>>

Sync(c) ==
  /\ Go(c, "sync", IF kind[c] = "force" THEN "permissions" ELSE "persist")
  /\ temporary' = [temporary EXCEPT ![c].synced = TRUE]
  /\ UNCHANGED <<kind, source, destination, text, changes, modes, seen>>

Permissions(c) ==
  /\ Go(c, "permissions", "persist")
  /\ temporary' = [temporary EXCEPT ![c].mode = IF destination = Absent THEN @ ELSE destination.mode]
  /\ UNCHANGED <<kind, source, destination, text, changes, modes, seen>>

(* persist replaces the destination; persist_noclobber creates it.         *)
Replace(c) ==
  /\ Go(c, "persist", "done")
  /\ destination' = temporary[c]
  /\ temporary' = [temporary EXCEPT ![c] = Absent]
  /\ modes' = [d \in Commands |-> modes[d] \cup {temporary[c].mode}]
  /\ UNCHANGED <<kind, source, text, changes, seen>>

Persist(c) ==
  IF kind[c] = "convert" /\ destination # Absent THEN pc[c] = "persist" /\ Fail(c)
  ELSE Replace(c)

Kill(c) ==
  /\ pc[c] \notin {"done", "failed", "killed"}
  /\ pc' = [pc EXCEPT ![c] = "killed"]
  /\ UNCHANGED <<kind, source, destination, text, temporary, changes, modes, seen>>

-----------------------------------------------------------------------------
(* Other programs, and the power.                                          *)

Changes ==
  /\ changes < MaxChanges
  /\ changes' = changes + 1
  /\ UNCHANGED <<kind, pc, text, temporary>>

EditSource(t) ==
  /\ Changes /\ source' = t
  /\ seen' = [c \in Commands |-> seen[c] \cup {t}]
  /\ UNCHANGED <<kind, destination, modes>>

Place(f) ==
  /\ Changes /\ destination' = f
  /\ modes' = [c \in Commands |-> modes[c] \cup {f.mode}]
  /\ UNCHANGED <<kind, source, seen>>

(* What was not synced may be lost under its name.                         *)
PowerLoss ==
  /\ \E c \in Commands : pc[c] # "killed"
  /\ pc' = [c \in Commands |-> "killed"]
  /\ destination' = IF destination.synced THEN destination
                    ELSE File("part", destination.mode, TRUE)
  /\ UNCHANGED <<kind, source, text, temporary, changes, modes, seen>>

Next ==
  \/ \E c \in Commands :
       \/ Inspect(c) \/ Validate(c) \/ Read(c) \/ Create(c) \/ Write(c)
       \/ Sync(c) \/ Permissions(c) \/ Persist(c) \/ Breaks(c) \/ Kill(c)
  \/ \E t \in Texts : EditSource(t)
  \/ \E f \in {Absent, File("other", "shared", TRUE), File("other", "owned", TRUE)} : Place(f)
  \/ PowerLoss

Spec == Init /\ [][Next]_vars

-----------------------------------------------------------------------------
(* Properties.                                                             *)

TypeOK ==
  /\ source \in Texts
  /\ temporary \in [Commands -> [text : Texts \cup {"absent", "part"},
                                 mode : {"none", "private", "shared", "owned"}, synced : BOOLEAN]]
  /\ text \in [Commands -> Texts \cup {"none"}]
  /\ changes \in 0 .. MaxChanges

(* "It refuses to replace an existing destination unless --force is        *)
(* present", even one that another command or program puts there while the *)
(* conversion runs (README.md, conversion.rs).                             *)
OthersAreKept ==
  [][\A c \in Commands : kind[c] = "convert" /\ pc[c] # "done" /\ pc'[c] = "done" =>
       destination = Absent /\ destination'.text \in seen[c]]_vars

(* "Conversion writes a temporary file beside the destination and publishes*)
(* it only after the complete output is written": what converters leave at *)
(* the destination is whole, however they are killed and even if the power *)
(* fails, and a replaced file keeps the mode it had while they ran.        *)
ConversionsAreWhole ==
  (\A c \in Commands : kind[c] # "generate") =>
    /\ destination.text \in {"absent", "other", "first", "second"}
    /\ \A c \in Commands :
         kind[c] = "force" /\ pc[c] = "persist" =>
           \/ temporary[c].mode \in modes[c]
           \/ "none" \in modes[c]
=============================================================================
