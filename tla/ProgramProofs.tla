--------------------------- MODULE ProgramProofs ---------------------------
(***************************************************************************)
(* Proofs about the whole program: a session, for any number of requests   *)
(* and misread probes, and the commands that write a file, for any commands*)
(* of any kinds, any number of changes by others, kills and power losses.  *)
(***************************************************************************)
EXTENDS MCProgram, TLAPS

-----------------------------------------------------------------------------
(* Publishing: the commands.                                              *)

Modes == {"none", "private", "shared", "owned"}
Files == [text : Texts \cup {"absent", "part", "other"}, mode : Modes, synced : BOOLEAN]
Steps == {"start", "validate", "read", "create", "write", "sync", "permissions", "persist",
          "done", "failed", "killed"}

TypeInv ==
  /\ source \in Texts
  /\ destination \in Files
  /\ pc \in [Commands -> Steps]
  /\ text \in [Commands -> Texts \cup {"none"}]
  /\ temporary \in [Commands -> Files]
  /\ modes \in [Commands -> SUBSET Modes]
  /\ seen \in [Commands -> SUBSET Texts]

(* What the history variables remember includes what is there now.         *)
HistoryInv ==
  \A c \in Commands : destination.mode \in modes[c] /\ source \in seen[c]

(* What a command has read, written and synced at each of its steps.       *)
HasRead == {"create", "write", "sync", "permissions", "persist"}
HasWritten == {"sync", "permissions", "persist"}

CommandInv(c) ==
  /\ pc[c] \in HasRead => text[c] \in seen[c] /\ text[c] # "malformed"
  /\ pc[c] \in HasWritten => temporary[c].text = text[c]
  /\ pc[c] = "permissions" => temporary[c].synced = TRUE
  /\ pc[c] = "persist" /\ kind[c] # "generate" => temporary[c].synced = TRUE
  /\ pc[c] = "persist" /\ kind[c] = "force" =>
       temporary[c].mode \in modes[c] \/ "none" \in modes[c]

Whole == {"absent", "other", "first", "second"}
WholeInv ==
  (\A c \in Commands : kind[c] # "generate") => destination.synced = TRUE /\ destination.text \in Whole

IInv == TypeInv /\ HistoryInv /\ WholeInv /\ \A c \in Commands : CommandInv(c)

-----------------------------------------------------------------------------
(* Files.                                                                  *)

LEMMA FileType ==
  ASSUME NEW t \in Texts \cup {"absent", "part", "other"}, NEW m \in Modes, NEW s \in BOOLEAN
  PROVE  /\ File(t, m, s) \in Files
         /\ File(t, m, s).text = t /\ File(t, m, s).mode = m /\ File(t, m, s).synced = s
  BY DEF File, Files

LEMMA FileFields ==
  ASSUME NEW f \in Files
  PROVE  /\ f.text \in Texts \cup {"absent", "part", "other"} /\ f.mode \in Modes /\ f.synced \in BOOLEAN
         /\ f = File(f.text, f.mode, f.synced)
  BY DEF File, Files

LEMMA FileChanges ==
  ASSUME NEW f \in Files, NEW t, NEW m, NEW s
  PROVE  /\ [f EXCEPT !.text = t] = File(t, f.mode, f.synced)
         /\ [f EXCEPT !.mode = m] = File(f.text, m, f.synced)
         /\ [f EXCEPT !.synced = s] = File(f.text, f.mode, s)
  BY DEF File, Files

LEMMA AbsentType ==
  Absent \in Files /\ Absent.text = "absent" /\ Absent.mode = "none" /\ Absent.synced = TRUE
  BY DEF Absent, Files, Modes

-----------------------------------------------------------------------------
(* Steps of one command.                                                   *)

(* A command that reads or writes its temporary file leaves the others and *)
(* the destination alone.                                                  *)
LEMMA PrivateStep ==
  ASSUME IInv, NEW c \in Commands, UNCHANGED <<kind, source, destination, modes, seen>>,
         NEW to \in Steps, NEW t \in Texts \cup {"none"}, NEW f \in Files,
         pc' = [pc EXCEPT ![c] = to], text' = [text EXCEPT ![c] = t],
         temporary' = [temporary EXCEPT ![c] = f],
         to \in HasRead => t \in seen[c] /\ t # "malformed",
         to \in HasWritten => f.text = t,
         to = "permissions" => f.synced = TRUE,
         to = "persist" /\ kind[c] # "generate" => f.synced = TRUE,
         to = "persist" /\ kind[c] = "force" => f.mode \in modes[c] \/ "none" \in modes[c]
  PROVE  IInv'
<1>0. TypeInv /\ HistoryInv /\ WholeInv /\ \A d \in Commands : CommandInv(d)
  BY DEF IInv
<1>1. TypeInv'
  BY <1>0 DEF TypeInv
<1>2. HistoryInv' /\ WholeInv'
  BY <1>0 DEF HistoryInv, WholeInv
<1>3. pc'[c] = to /\ text'[c] = t /\ temporary'[c] = f
  BY <1>0 DEF TypeInv
<1>4. CommandInv(c)'
  BY <1>3 DEF CommandInv
<1>5. ASSUME NEW d \in Commands, d # c PROVE CommandInv(d)'
  <2>1. pc'[d] = pc[d] /\ text'[d] = text[d] /\ temporary'[d] = temporary[d]
    BY <1>0, <1>5 DEF TypeInv
  <2> QED  BY <1>0, <2>1 DEF CommandInv
<1> QED  BY <1>1, <1>2, <1>4, <1>5 DEF IInv

LEMMA FailStep ==
  ASSUME IInv, NEW c \in Commands, Fail(c)
  PROVE  IInv'
<1>1. text' = [text EXCEPT ![c] = text[c]] /\ text[c] \in Texts \cup {"none"}
  BY DEF Fail, IInv, TypeInv
<1>2. "failed" \in Steps \ (HasRead \cup HasWritten)
  BY DEF Steps, HasRead, HasWritten
<1> QED  BY <1>1, <1>2, AbsentType, PrivateStep DEF Fail

(* The file system calls, up to the temporary file that is ready.          *)
LEMMA ReadingStep ==
  ASSUME IInv, NEW c \in Commands, Inspect(c) \/ Validate(c) \/ Read(c) \/ Create(c) \/ Kill(c)
  PROVE  IInv'
<1>0. /\ source \in Texts /\ source \in seen[c]
      /\ text[c] \in Texts \cup {"none"} /\ temporary[c] \in Files
      /\ text = [text EXCEPT ![c] = text[c]]
      /\ temporary = [temporary EXCEPT ![c] = temporary[c]]
      /\ CommandInv(c)
  BY DEF IInv, TypeInv, HistoryInv
<1>1. {"validate", "read", "create", "write", "killed"} \subseteq Steps
  BY DEF Steps
<1>2. {"validate", "read", "killed"} \cap (HasRead \cup HasWritten) = {}
  BY DEF HasRead, HasWritten
<1>3. CASE Inspect(c)
  <2>1. CASE Fail(c)
    BY <2>1, FailStep
  <2>2. CASE ~Fail(c)
    <3>1. PICK to \in {"read", "validate"} : pc' = [pc EXCEPT ![c] = to]
      BY <1>3, <2>2 DEF Inspect, Go
    <3>2. UNCHANGED <<kind, source, destination, text, temporary, modes, seen>>
      BY <1>3, <2>2 DEF Inspect
    <3> QED  BY <1>0, <1>1, <1>2, <3>1, <3>2, PrivateStep
  <2> QED  BY <2>1, <2>2
<1>4. CASE Validate(c)
  <2>1. CASE Fail(c)
    BY <2>1, FailStep
  <2>2. CASE ~Fail(c)
    <3>1. /\ pc' = [pc EXCEPT ![c] = "read"]
          /\ UNCHANGED <<kind, source, destination, text, temporary, modes, seen>>
      BY <1>4, <2>2 DEF Validate, Go
    <3> QED  BY <1>0, <1>1, <1>2, <3>1, PrivateStep
  <2> QED  BY <2>1, <2>2
<1>5. CASE Read(c)
  <2>1. CASE Fail(c)
    BY <2>1, FailStep
  <2>2. CASE ~Fail(c)
    <3>1. /\ source # "malformed"
          /\ pc' = [pc EXCEPT ![c] = "create"]
          /\ text' = [text EXCEPT ![c] = source]
          /\ UNCHANGED <<kind, source, destination, temporary, modes, seen>>
      BY <1>5, <2>2 DEF Read, Go
    <3>2. "create" \notin HasWritten
      BY DEF HasWritten
    <3> QED  BY <1>0, <1>1, <3>1, <3>2, PrivateStep
  <2> QED  BY <2>1, <2>2
<1>6. CASE Create(c)
  <2>1. /\ pc[c] = "create" /\ pc' = [pc EXCEPT ![c] = "write"]
        /\ temporary' = [temporary EXCEPT ![c] = File("part", "private", FALSE)]
        /\ UNCHANGED <<kind, source, destination, text, modes, seen>>
    BY <1>6 DEF Create, Go
  <2>2. File("part", "private", FALSE) \in Files
    BY FileType DEF Modes
  <2>3. text[c] \in seen[c] /\ text[c] # "malformed"
    BY <1>0, <2>1 DEF CommandInv, HasRead
  <2>4. "write" \notin HasWritten
    BY DEF HasWritten
  <2> QED  BY <1>0, <1>1, <2>1, <2>2, <2>3, <2>4, PrivateStep
<1>7. CASE Kill(c)
  <2>1. /\ pc' = [pc EXCEPT ![c] = "killed"]
        /\ UNCHANGED <<kind, source, destination, text, temporary, modes, seen>>
    BY <1>7 DEF Kill
  <2> QED  BY <1>0, <1>1, <1>2, <2>1, PrivateStep
<1> QED  BY <1>3, <1>4, <1>5, <1>6, <1>7

LEMMA WritingStep ==
  ASSUME IInv, NEW c \in Commands, Write(c) \/ Sync(c) \/ Permissions(c)
  PROVE  IInv'
<1> DEFINE f == temporary[c]
<1>0. /\ text[c] \in Texts \cup {"none"} /\ f \in Files
      /\ text = [text EXCEPT ![c] = text[c]]
      /\ destination \in Files /\ destination.mode \in modes[c]
      /\ CommandInv(c)
  BY DEF IInv, TypeInv, HistoryInv
<1>1. {"sync", "permissions", "persist"} \subseteq Steps
  BY DEF Steps
<1>2. pc[c] \in HasRead /\ text[c] \in seen[c] /\ text[c] # "malformed"
  BY <1>0 DEF Write, Sync, Permissions, Go, CommandInv, HasRead
<1>3. CASE Write(c)
  <2>1. /\ temporary' = [temporary EXCEPT ![c] = [f EXCEPT !.text = text[c]]]
        /\ UNCHANGED <<kind, source, destination, text, modes, seen>>
    BY <1>3 DEF Write
  <2>2. [f EXCEPT !.text = text[c]] = File(text[c], f.mode, f.synced)
    BY <1>0, FileChanges
  <2>3. PICK to \in {"persist", "sync"} :
          /\ pc' = [pc EXCEPT ![c] = to]
          /\ to = "persist" => kind[c] = "generate"
    BY <1>3 DEF Write, Go
  <2>4. text[c] \in Texts
    BY <1>0, <1>2 DEF IInv, TypeInv
  <2>5. /\ File(text[c], f.mode, f.synced) \in Files
        /\ File(text[c], f.mode, f.synced).text = text[c]
    BY <1>0, <2>4, FileType, FileFields
  <2> QED  BY <1>0, <1>1, <1>2, <2>1, <2>2, <2>3, <2>5, PrivateStep
<1>4. CASE Sync(c)
  <2>1. /\ temporary' = [temporary EXCEPT ![c] = [f EXCEPT !.synced = TRUE]]
        /\ UNCHANGED <<kind, source, destination, text, modes, seen>>
    BY <1>4 DEF Sync
  <2>2. [f EXCEPT !.synced = TRUE] = File(f.text, f.mode, TRUE)
    BY <1>0, FileChanges
  <2>3. PICK to \in {"permissions", "persist"} :
          /\ pc' = [pc EXCEPT ![c] = to]
          /\ to = "persist" => kind[c] # "force"
    BY <1>4 DEF Sync, Go
  <2>4. f.text = text[c]
    BY <1>0, <1>4 DEF Sync, Go, CommandInv, HasWritten
  <2>5. /\ File(f.text, f.mode, TRUE) \in Files
        /\ File(f.text, f.mode, TRUE).text = f.text /\ File(f.text, f.mode, TRUE).synced = TRUE
    BY <1>0, FileType, FileFields
  <2> QED  BY <1>0, <1>1, <1>2, <2>1, <2>2, <2>3, <2>4, <2>5, PrivateStep
<1>5. CASE Permissions(c)
  <2>1. PICK mode \in Modes :
          /\ temporary' = [temporary EXCEPT ![c] = [f EXCEPT !.mode = mode]]
          /\ mode \in modes[c] \/ "none" \in modes[c]
    <3>1. CASE destination = Absent
      BY <1>0, <1>5, <3>1, AbsentType, FileFields DEF Permissions
    <3>2. CASE destination # Absent
      BY <1>0, <1>5, <3>2, FileFields DEF Permissions
    <3> QED  BY <3>1, <3>2
  <2>2. pc' = [pc EXCEPT ![c] = "persist"] /\ UNCHANGED <<kind, source, destination, text, modes, seen>>
    BY <1>5 DEF Permissions, Go
  <2>3. f.text = text[c] /\ f.synced = TRUE
    BY <1>0, <1>5 DEF Permissions, Go, CommandInv, HasWritten
  <2>4. temporary' = [temporary EXCEPT ![c] = File(f.text, mode, TRUE)]
    <3>1. [f EXCEPT !.mode = mode] = File(f.text, mode, f.synced)
      BY <1>0, FileChanges
    <3> QED  BY <2>1, <2>3, <3>1, Zenon
  <2>5. PICK g : /\ g \in Files /\ g.text = text[c] /\ g.mode = mode /\ g.synced = TRUE
                 /\ temporary' = [temporary EXCEPT ![c] = g]
    <3>1. f.text \in Texts \cup {"absent", "part", "other"} /\ TRUE \in BOOLEAN
      BY <1>0, FileFields
    <3>2. /\ File(f.text, mode, TRUE) \in Files
          /\ File(f.text, mode, TRUE).text = f.text /\ File(f.text, mode, TRUE).mode = mode
          /\ File(f.text, mode, TRUE).synced = TRUE
      BY <3>1, FileType, Zenon
    <3> QED  BY <2>3, <2>4, <3>2, Zenon
  <2>6. "persist" \in Steps
    BY DEF Steps
  <2> QED  BY <1>0, <1>2, <2>1, <2>2, <2>5, <2>6, PrivateStep, ZenonT(40)
<1> QED  BY <1>3, <1>4, <1>5

(* The temporary file becomes the destination: for every command it is now *)
(* what is there, and it has been synced unless it was generated.          *)
LEMMA ReplaceStep ==
  ASSUME IInv, NEW c \in Commands, Replace(c)
  PROVE  IInv'
<1> DEFINE f == temporary[c]
<1>0. TypeInv /\ HistoryInv /\ WholeInv /\ \A d \in Commands : CommandInv(d)
  BY DEF IInv
<1>1. /\ pc[c] = "persist" /\ pc' = [pc EXCEPT ![c] = "done"]
      /\ destination' = f
      /\ temporary' = [temporary EXCEPT ![c] = Absent]
      /\ modes' = [d \in Commands |-> modes[d] \cup {f.mode}]
      /\ UNCHANGED <<kind, source, text, changes, seen>>
  BY DEF Replace, Go
<1>2. f \in Files /\ f.mode \in Modes
  BY <1>0, FileFields DEF TypeInv
<1>3. TypeInv'
  <2>1. \A d \in Commands : modes[d] \cup {f.mode} \in SUBSET Modes
    BY <1>0, <1>2 DEF TypeInv
  <2>2. modes' \in [Commands -> SUBSET Modes]
    BY <1>1, <2>1
  <2>3. "done" \in Steps
    BY DEF Steps
  <2> QED  BY <1>0, <1>1, <1>2, <2>2, <2>3, AbsentType DEF TypeInv
<1>4. HistoryInv'
  BY <1>0, <1>1 DEF HistoryInv
<1>5. WholeInv'
  <2> SUFFICES ASSUME \A d \in Commands : kind[d] # "generate"
               PROVE  f.synced = TRUE /\ f.text \in Whole
    BY <1>1 DEF WholeInv
  <2>1. f.synced = TRUE /\ f.text = text[c] /\ text[c] \in seen[c] /\ text[c] # "malformed"
    BY <1>0, <1>1 DEF CommandInv, HasRead, HasWritten
  <2>2. seen[c] \subseteq Texts
    BY <1>0 DEF TypeInv
  <2> QED  BY <2>1, <2>2 DEF Texts, Whole
<1>6. ASSUME NEW d \in Commands PROVE CommandInv(d)'
  <2>1. CASE d = c
    <3>1. pc'[d] = "done"
      BY <1>0, <1>1, <2>1 DEF TypeInv
    <3> QED  BY <3>1 DEF CommandInv, HasRead, HasWritten
  <2>2. CASE d # c
    <3>1. /\ pc'[d] = pc[d] /\ text'[d] = text[d] /\ temporary'[d] = temporary[d]
          /\ modes[d] \subseteq modes'[d]
      BY <1>0, <1>1, <2>2 DEF TypeInv
    <3> QED  BY <1>0, <1>1, <3>1 DEF CommandInv
  <2> QED  BY <2>1, <2>2
<1> QED  BY <1>3, <1>4, <1>5, <1>6 DEF IInv

-----------------------------------------------------------------------------
(* Other programs, and the power.                                          *)

LEMMA EditStep ==
  ASSUME IInv, NEW t \in Texts, EditSource(t)
  PROVE  IInv'
<1>0. TypeInv /\ HistoryInv /\ WholeInv /\ \A d \in Commands : CommandInv(d)
  BY DEF IInv
<1>1. /\ source' = t /\ seen' = [c \in Commands |-> seen[c] \cup {t}]
      /\ UNCHANGED <<kind, destination, modes, pc, text, temporary>>
  BY DEF EditSource, Changes
<1>2. TypeInv'
  BY <1>0, <1>1 DEF TypeInv
<1>3. HistoryInv' /\ WholeInv'
  BY <1>0, <1>1 DEF HistoryInv, WholeInv
<1>4. \A d \in Commands : CommandInv(d)'
  BY <1>0, <1>1 DEF CommandInv
<1> QED  BY <1>2, <1>3, <1>4 DEF IInv

Others == {Absent, File("other", "shared", TRUE), File("other", "owned", TRUE)}

LEMMA OthersType ==
  ASSUME NEW f \in Others
  PROVE  f \in Files /\ f.mode \in Modes /\ f.synced = TRUE /\ f.text \in Whole
<1>1. CASE f = Absent
  BY <1>1, AbsentType DEF Whole, Modes
<1>2. CASE f = File("other", "shared", TRUE)
  BY <1>2 DEF File, Files, Whole, Modes
<1>3. CASE f = File("other", "owned", TRUE)
  BY <1>3 DEF File, Files, Whole, Modes
<1> QED  BY <1>1, <1>2, <1>3 DEF Others

LEMMA PlaceStep ==
  ASSUME IInv, NEW f \in Others, Place(f)
  PROVE  IInv'
<1>0. TypeInv /\ HistoryInv /\ WholeInv /\ \A d \in Commands : CommandInv(d)
  BY DEF IInv
<1>1. /\ destination' = f /\ modes' = [c \in Commands |-> modes[c] \cup {f.mode}]
      /\ UNCHANGED <<kind, source, seen, pc, text, temporary>>
  BY DEF Place, Changes
<1>2. TypeInv'
  <2>1. \A d \in Commands : modes[d] \cup {f.mode} \in SUBSET Modes
    BY <1>0, OthersType DEF TypeInv
  <2>2. modes' \in [Commands -> SUBSET Modes]
    BY <1>1, <2>1
  <2> QED  BY <1>0, <1>1, <2>2, OthersType DEF TypeInv
<1>3. HistoryInv'
  BY <1>0, <1>1 DEF HistoryInv
<1>4. WholeInv'
  BY <1>1, OthersType DEF WholeInv
<1>5. ASSUME NEW d \in Commands PROVE CommandInv(d)'
  BY <1>0, <1>1 DEF CommandInv
<1> QED  BY <1>2, <1>3, <1>4, <1>5 DEF IInv

LEMMA PowerLossStep ==
  ASSUME IInv, PowerLoss
  PROVE  IInv'
<1>0. TypeInv /\ HistoryInv /\ WholeInv /\ \A d \in Commands : CommandInv(d)
  BY DEF IInv
<1>1. /\ pc' = [c \in Commands |-> "killed"]
      /\ destination' = IF destination.synced THEN destination ELSE File("part", destination.mode, TRUE)
      /\ UNCHANGED <<kind, source, text, temporary, changes, modes, seen>>
  BY DEF PowerLoss
<1>2. destination \in Files /\ destination.mode \in Modes
  BY <1>0, FileFields DEF TypeInv
<1>3. destination' \in Files /\ destination'.mode = destination.mode
  BY <1>1, <1>2 DEF File, Files
<1>4. pc' \in [Commands -> Steps]
  BY <1>1 DEF Steps
<1>5. TypeInv'
  BY <1>0, <1>1, <1>3, <1>4 DEF TypeInv
<1>6. HistoryInv'
  BY <1>0, <1>1, <1>3 DEF HistoryInv
<1>7. WholeInv'
  BY <1>0, <1>1 DEF WholeInv
<1>8. \A d \in Commands : CommandInv(d)'
  BY <1>1 DEF CommandInv, HasRead, HasWritten
<1> QED  BY <1>5, <1>6, <1>7, <1>8 DEF IInv

-----------------------------------------------------------------------------
LEMMA PublishingInit == Init => IInv
<1> SUFFICES ASSUME Init PROVE IInv
  OBVIOUS
<1>1. destination \in Others
  BY DEF Init, Others
<1>2. destination \in Files /\ destination.mode \in Modes /\ destination.synced = TRUE /\ destination.text \in Whole
  BY <1>1, OthersType
<1>3. TypeInv
  BY <1>2, AbsentType DEF Init, TypeInv, Steps
<1>4. HistoryInv /\ WholeInv
  BY <1>2 DEF Init, HistoryInv, WholeInv
<1>5. \A c \in Commands : CommandInv(c)
  BY DEF Init, CommandInv, HasRead, HasWritten
<1> QED  BY <1>3, <1>4, <1>5 DEF IInv

LEMMA CommandStep ==
  ASSUME IInv, NEW c \in Commands,
         \/ Inspect(c) \/ Validate(c) \/ Read(c) \/ Create(c) \/ Write(c)
         \/ Sync(c) \/ Permissions(c) \/ Persist(c) \/ Breaks(c) \/ Kill(c)
  PROVE  IInv'
<1>1. CASE Persist(c) \/ Breaks(c)
  BY <1>1, FailStep, ReplaceStep DEF Persist, Breaks
<1> QED  BY <1>1, ReadingStep, WritingStep

LEMMA PublishingStep ==
  ASSUME IInv, [Next]_vars
  PROVE  IInv'
<1>1. CASE UNCHANGED vars
  <2>1. \A c \in Commands : CommandInv(c)'
    BY <1>1 DEF vars, IInv, CommandInv
  <2>2. TypeInv' /\ HistoryInv' /\ WholeInv'
    BY <1>1 DEF vars, IInv, TypeInv, HistoryInv, WholeInv
  <2> QED  BY <2>1, <2>2 DEF IInv
<1>2. CASE Next
  BY <1>2, CommandStep, EditStep, PlaceStep, PowerLossStep DEF Next, Others
<1> QED  BY <1>1, <1>2

-----------------------------------------------------------------------------
(* Whatever happens between its first look and its publication, a          *)
(* conversion that is not forced publishes only where nothing is, and what *)
(* the source said while it ran (conversion.rs: persist_noclobber).        *)
LEMMA ConvertStep ==
  ASSUME IInv, [Next]_vars, NEW c \in Commands, kind[c] = "convert", pc[c] # "done", pc'[c] = "done"
  PROVE  destination = Absent /\ destination'.text \in seen[c]
<1>0. pc \in [Commands -> Steps] /\ CommandInv(c)
  BY DEF IInv, TypeInv
<1>1. Persist(c) /\ ~Fail(c)
  <2>1. ASSUME NEW d \in Commands, Fail(d) PROVE FALSE
    BY <1>0, <2>1 DEF Fail
  <2>2. ASSUME NEW d \in Commands,
               Inspect(d) \/ Validate(d) \/ Read(d) \/ Create(d) \/ Write(d) \/ Sync(d) \/ Permissions(d)
        PROVE  FALSE
    <3>1. PICK to \in {"read", "validate", "create", "write", "sync", "permissions", "persist"} :
            pc' = [pc EXCEPT ![d] = to]
      BY <2>1, <2>2 DEF Inspect, Validate, Read, Create, Write, Sync, Permissions, Go
    <3> QED  BY <1>0, <3>1
  <2>3. ASSUME NEW d \in Commands, Persist(d), d # c PROVE FALSE
    BY <1>0, <2>1, <2>3 DEF Persist, Replace, Go
  <2>4. ~\E d \in Commands : Kill(d) \/ Breaks(d)
    BY <1>0, <2>1 DEF Kill, Breaks
  <2>5. ~PowerLoss /\ ~UNCHANGED vars
    BY <1>0 DEF PowerLoss, vars
  <2>6. ~(\E t \in Texts : EditSource(t)) /\ ~(\E f \in Others : Place(f))
    BY DEF EditSource, Place, Changes
  <2> QED  BY <2>1, <2>2, <2>3, <2>4, <2>5, <2>6 DEF Next, Others
<1>2. destination = Absent /\ Replace(c)
  BY <1>1 DEF Persist
<1>3. pc[c] = "persist" /\ destination' = temporary[c]
  BY <1>2 DEF Replace, Go
<1> QED  BY <1>0, <1>2, <1>3 DEF CommandInv, HasRead, HasWritten

-----------------------------------------------------------------------------
(* Lifecycle: the session.                                                *)

(* What the flag of a shutdown says is what the answered calls say.        *)
CallsInv ==
  /\ method \in [Requests -> Session!Methods \cup {"none"}]
  /\ call \in [Requests -> {"unmade", "inside", "ok", "error", "none", "accepted", "rejected"}]
  /\ shutdown \in BOOLEAN
  /\ shutdown <=> Session!Accepted("shutdown")

(* The process ends by its parent's death or as the flag says.             *)
ProcessInv ==
  /\ misreads \in Nat
  /\ process = "success" => shutdown
  /\ process = "failure" => ~shutdown
  /\ process = "killed" => ~alive \/ misreads > 0

SessionInv == CallsInv /\ ProcessInv

(* A step that accepts no call accepts no shutdown.                        *)
LEMMA NothingAccepted ==
  ASSUME CallsInv, UNCHANGED shutdown,
         call' \in [Requests -> {"unmade", "inside", "ok", "error", "none", "accepted", "rejected"}],
         method' \in [Requests -> Session!Methods \cup {"none"}],
         \A r \in Requests :
           /\ call'[r] = "accepted" <=> call[r] = "accepted"
           /\ call[r] = "accepted" => method'[r] = method[r]
  PROVE  CallsInv'
<1>1. Session!Accepted("shutdown")' <=> Session!Accepted("shutdown")
  BY DEF Session!Accepted
<1> QED  BY <1>1 DEF CallsInv

LEMMA CallStep ==
  ASSUME CallsInv, NEW r \in Requests, NEW m \in Session!Methods, Session!Call(r, m)
  PROVE  CallsInv'
<1>1. call[r] = "unmade" /\ method' = [method EXCEPT ![r] = m] /\ UNCHANGED shutdown
  BY DEF Session!Call
<1>2. method' \in [Requests -> Session!Methods \cup {"none"}]
  BY <1>1 DEF CallsInv
<1>3. \/ call' = [call EXCEPT ![r] = "inside"]
      \/ call' = [call EXCEPT ![r] = "error"]
      \/ call' = [s \in Requests |-> IF s = r THEN "none"
                                     ELSE IF call[s] = "inside" THEN "error" ELSE call[s]]
  BY DEF Session!Call, Session!Admit
<1>4. \A s \in Requests : /\ call'[s] = "accepted" <=> call[s] = "accepted"
                          /\ call[s] = "accepted" => method'[s] = method[s]
  BY <1>1, <1>3 DEF CallsInv
<1>5. call' \in [Requests -> {"unmade", "inside", "ok", "error", "none", "accepted", "rejected"}]
  BY <1>3 DEF CallsInv
<1> QED  BY <1>1, <1>2, <1>4, <1>5, NothingAccepted

LEMMA AnswerStep ==
  ASSUME CallsInv, NEW r \in Requests, Session!Returns(r) \/ Session!Refuses(r)
  PROVE  CallsInv'
<1>1. PICK verdict \in {"ok", "error"} : Session!Answer(r, verdict)
  BY DEF Session!Returns, Session!Refuses
<1>2. /\ call[r] = "inside" /\ call' = [call EXCEPT ![r] = verdict]
      /\ UNCHANGED <<method, shutdown>>
  BY <1>1 DEF Session!Answer
<1>3. \A s \in Requests : call'[s] = "accepted" <=> call[s] = "accepted"
  BY <1>2 DEF CallsInv
<1>4. call' \in [Requests -> {"unmade", "inside", "ok", "error", "none", "accepted", "rejected"}]
  BY <1>2 DEF CallsInv
<1>5. method' \in [Requests -> Session!Methods \cup {"none"}]
  BY <1>2 DEF CallsInv
<1> QED  BY <1>2, <1>3, <1>4, <1>5, NothingAccepted

(* The future that sees its shutdown accepted sets the flag.               *)
LEMMA ObserveStep ==
  ASSUME CallsInv, NEW r \in Requests, Session!Observe(r)
  PROVE  CallsInv'
<1>1. /\ call[r] \in {"ok", "error", "none"}
      /\ call' = [call EXCEPT ![r] = IF @ = "ok" THEN "accepted" ELSE "rejected"]
      /\ shutdown' = (shutdown \/ (call[r] = "ok" /\ method[r] = "shutdown"))
      /\ UNCHANGED method
  BY DEF Session!Observe
<1>2. call' \in [Requests -> {"unmade", "inside", "ok", "error", "none", "accepted", "rejected"}]
  BY <1>1 DEF CallsInv
<1>3. \A s \in Requests : s # r => call'[s] = call[s]
  BY <1>1 DEF CallsInv
<1>4. call'[r] = "accepted" <=> call[r] = "ok"
  BY <1>1 DEF CallsInv
<1>5. Session!Accepted("shutdown")' <=> Session!Accepted("shutdown") \/ (call[r] = "ok" /\ method[r] = "shutdown")
  BY <1>1, <1>3, <1>4 DEF Session!Accepted
<1>6. shutdown' \in BOOLEAN /\ (shutdown' <=> Session!Accepted("shutdown")')
  BY <1>1, <1>5 DEF CallsInv
<1> QED  BY <1>1, <1>2, <1>6 DEF CallsInv

LEMMA OtherSteps ==
  ASSUME CallsInv, UNCHANGED <<method, call, shutdown>>
  PROVE  CallsInv'
  BY DEF CallsInv, Session!Accepted

LEMMA LifecycleStep ==
  ASSUME SessionInv, [Session!Next]_session
  PROVE  SessionInv'
<1>0. CallsInv /\ ProcessInv
  BY DEF SessionInv
<1>1. ASSUME NEW r \in Requests, NEW m \in Session!Methods, Session!Call(r, m) PROVE SessionInv'
  <2>1. ProcessInv'
    BY <1>0, <1>1 DEF Session!Call, ProcessInv
  <2> QED  BY <1>0, <1>1, <2>1, CallStep DEF SessionInv
<1>2. ASSUME NEW r \in Requests, Session!Returns(r) \/ Session!Refuses(r) PROVE SessionInv'
  <2>1. ProcessInv'
    BY <1>0, <1>2 DEF Session!Returns, Session!Refuses, Session!Answer, ProcessInv
  <2> QED  BY <1>0, <1>2, <2>1, AnswerStep DEF SessionInv
<1>3. ASSUME NEW r \in Requests, Session!Observe(r) PROVE SessionInv'
  <2>1. ProcessInv'
    BY <1>0, <1>3 DEF Session!Observe, ProcessInv
  <2> QED  BY <1>0, <1>3, <2>1, ObserveStep DEF SessionInv
<1>4. CASE Session!MonitorWakes
  BY <1>0, <1>4, OtherSteps DEF Session!MonitorWakes, ProcessInv, SessionInv
<1>5. CASE Session!MonitorProbes
  BY <1>0, <1>5, OtherSteps DEF Session!MonitorProbes, ProcessInv, SessionInv
<1>6. CASE Session!MonitorMisreads
  BY <1>0, <1>6, OtherSteps DEF Session!MonitorMisreads, ProcessInv, SessionInv
<1>7. CASE Session!ParentDies
  BY <1>0, <1>7, OtherSteps DEF Session!ParentDies, ProcessInv, SessionInv
<1>8. CASE Session!InputEnds
  BY <1>0, <1>8, OtherSteps DEF Session!InputEnds, ProcessInv, SessionInv
<1>9. CASE Session!ServeReturns
  BY <1>0, <1>9, OtherSteps DEF Session!ServeReturns, ProcessInv, SessionInv
<1>10. CASE Session!MainReturns
  BY <1>0, <1>10, OtherSteps DEF Session!MainReturns, ProcessInv, CallsInv, SessionInv
<1>11. CASE UNCHANGED session
  BY <1>0, <1>11, OtherSteps DEF session, ProcessInv, SessionInv
<1> QED
  BY <1>1, <1>2, <1>3, <1>4, <1>5, <1>6, <1>7, <1>8, <1>9, <1>10, <1>11 DEF Session!Next

LEMMA LifecycleInit == Session!Init => SessionInv
<1> SUFFICES ASSUME Session!Init PROVE SessionInv
  OBVIOUS
<1>1. ~Session!Accepted("shutdown")
  BY DEF Session!Init, Session!Accepted
<1>2. CallsInv
  BY <1>1 DEF Session!Init, CallsInv
<1>3. ProcessInv
  BY DEF Session!Init, ProcessInv
<1> QED  BY <1>2, <1>3 DEF SessionInv

-----------------------------------------------------------------------------
(* The program: one part takes a step, the other stands still.             *)

ProgramInv == IInv /\ SessionInv

LEMMA ProgramStarts == ProgramInit => ProgramInv
  BY PublishingInit, LifecycleInit DEF ProgramInit, ProgramInv

LEMMA ProgramSteps ==
  ASSUME ProgramInv, [ProgramNext]_<<command, session, vars>>
  PROVE  ProgramInv'
<1>1. [Next]_vars
  BY DEF ProgramNext, Serve, Publish
<1>2. [Session!Next]_session
  BY DEF ProgramNext, Serve, Publish, session
<1> QED  BY <1>1, <1>2, PublishingStep, LifecycleStep DEF ProgramInv

LEMMA ProgramCorrect == ProgramSpec => []ProgramInv
  BY ProgramStarts, ProgramSteps, PTL DEF ProgramSpec

(* A conversion that is not forced never replaces a file of others.        *)
THEOREM NothingIsReplaced == ProgramSpec => OthersAreKept
<1>1. ProgramInv /\ [ProgramNext]_<<command, session, vars>> =>
        [\A c \in Commands : kind[c] = "convert" /\ pc[c] # "done" /\ pc'[c] = "done" =>
           destination = Absent /\ destination'.text \in seen[c]]_vars
  <2> SUFFICES ASSUME ProgramInv, [ProgramNext]_<<command, session, vars>>
               PROVE  \A c \in Commands : kind[c] = "convert" /\ pc[c] # "done" /\ pc'[c] = "done" =>
                        destination = Absent /\ destination'.text \in seen[c]
    OBVIOUS
  <2>1. [Next]_vars
    BY DEF ProgramNext, Serve, Publish
  <2> QED  BY <2>1, ConvertStep DEF ProgramInv
<1> QED  BY <1>1, ProgramCorrect, PTL DEF ProgramSpec, OthersAreKept

(* However commands are killed and whenever the power fails, conversions   *)
(* leave whole files, with the mode that a replaced file had.              *)
THEOREM FilesAreWhole == ProgramSpec => []ConversionsAreWhole
<1>1. ProgramInv => ConversionsAreWhole
  BY DEF ProgramInv, IInv, WholeInv, CommandInv, Whole, ConversionsAreWhole
<1> QED  BY <1>1, ProgramCorrect, PTL

(* The exit status says whether a shutdown was accepted, however an exit,  *)
(* the end of the input, the parent's death and other requests interleave. *)
THEOREM ExitStatusFollowsShutdown == ProgramSpec => []ExitStatusIsRight
<1>1. ProgramInv => ExitStatusIsRight
  BY DEF ProgramInv, SessionInv, CallsInv, ProcessInv, ExitStatusIsRight, Session!ExitStatusIsRight
<1> QED  BY <1>1, ProgramCorrect, PTL
=============================================================================
