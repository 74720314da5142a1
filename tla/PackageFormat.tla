--------------------------- MODULE PackageFormat ---------------------------
(***************************************************************************)
(* crates/bg3-index/src/package.rs of bg3-ls: the bounded reader of LSPK   *)
(* packages.  A file is its size, its header, the file list that the       *)
(* header points at and the entries which that list decodes to; whatever   *)
(* the file says of offsets and sizes is untrusted.                        *)
(***************************************************************************)
EXTENDS Integers, Sequences

CONSTANTS
  MaxWord,       \* the greatest offset, u64::MAX
  HeaderSize,    \* PACKAGE_HEADER_SIZE
  PrefixSize,    \* the two counts before the compressed file list
  EntrySize,     \* PACKAGE_ENTRY_SIZE, of a decoded entry
  MaxListSize    \* MAX_FILE_LIST_SIZE

Error == [tag |-> "error"]
Ok(value) == [tag |-> "ok", value |-> value]
IsOk(result) == result.tag = "ok"

(* A file as it is parsed: any numbers.                                    *)
IsFile(file) ==
  LET entries == file.list.entries IN
  /\ {file.size, file.header.listOffset, file.header.listSize} \subseteq Nat
  /\ DOMAIN entries \subseteq Nat \ {0}
  /\ \A i \in DOMAIN entries :
       {entries[i].offset, entries[i].stored, entries[i].unpacked, entries[i].lz4} \subseteq Nat

Fits(a, b) == a + b <= MaxWord    \* checked_add

-----------------------------------------------------------------------------
(* read_package_header: valid whatever the version, so that a package that *)
(* is not supported can still be classified.                               *)
HeaderAccepted(file) ==
  LET h == file.header IN
  /\ HeaderSize <= file.size
  /\ file.signature
  /\ h.listSize <= MaxListSize
  /\ Fits(h.listOffset, h.listSize)
  /\ HeaderSize <= h.listOffset
  /\ h.listOffset + h.listSize <= file.size

(* package_layout                                                          *)
Layout(h) ==
  CASE ~h.current               -> "version"
    [] h.current /\ h.solid     -> "solid"
    [] h.current /\ ~h.solid /\ h.parts # 1 -> "multipart"
    [] OTHER                    -> "supported"

(* inspect_package                                                         *)
Inspect(file) == IF HeaderAccepted(file) THEN Ok(Layout(file.header)) ELSE Error

(* decode_file_list: the counts, the compressed list up to the end of the  *)
(* file list and nothing after it, and as many entries as were declared.   *)
ListAccepted(file) ==
  LET list == file.list IN
  /\ PrefixSize <= file.header.listSize
  /\ list.count * EntrySize <= MaxListSize
  /\ PrefixSize + list.compressed = file.header.listSize
  /\ list.count = 0 => list.compressed = 0
  /\ Len(list.entries) = list.count

(* parse_entry                                                             *)
EntryAccepted(e) == e.padded /\ e.safe /\ e.part = 0

RangeBeforeListOnly(e, file) ==
  LET h == file.header IN
  /\ Fits(e.offset, e.stored)
  /\ e.offset + e.stored <= file.size
  /\ e.stored # 0 =>
       /\ Fits(h.listOffset, h.listSize)
       /\ HeaderSize <= e.offset
       /\ ~(h.listOffset <= e.offset /\ e.offset < h.listOffset + h.listSize)

(* validate_entry_range                                                    *)
RangeAccepted(e, file) ==
  LET h == file.header IN
  /\ Fits(e.offset, e.stored)
  /\ e.offset + e.stored <= file.size
  /\ e.stored # 0 =>
       /\ Fits(h.listOffset, h.listSize)
       /\ HeaderSize <= e.offset
       /\ ~(e.offset < h.listOffset + h.listSize /\ h.listOffset < e.offset + e.stored)

(* PackageReader::open: one entry that is not accepted rejects the package. *)
Open(file) ==
  IF /\ HeaderAccepted(file)
     /\ Layout(file.header) = "supported"
     /\ ListAccepted(file)
     /\ \A i \in DOMAIN file.list.entries :
          EntryAccepted(file.list.entries[i]) /\ RangeAccepted(file.list.entries[i], file)
  THEN Ok(file.list.entries)
  ELSE Error

(* find_entry: the first entry of the name; the others are not looked at.  *)
FindEntry(file, name) ==
  LET found == {i \in DOMAIN file.list.entries : file.list.entries[i].name = name}
      e == file.list.entries[CHOOSE i \in found : \A j \in found : i <= j]
  IN  IF /\ HeaderAccepted(file)
         /\ Layout(file.header) = "supported"
         /\ ListAccepted(file)
         /\ found # {}
         /\ EntryAccepted(e) /\ RangeAccepted(e, file)
      THEN Ok(e)
      ELSE Error

(* read_entry_from_file: the length of what an entry decodes to.  `now' is *)
(* the file when the entry is read, `opened' when the package was; `lz4'   *)
(* is what the stored bytes decompress to.                                 *)
ReadEntry(now, opened, e, limit) ==
  IF \/ now.size # opened.size
     \/ ~RangeAccepted(e, opened)
     \/ e.stored > limit
     \/ e.unpacked > limit
  THEN Error
  ELSE CASE e.compression = 0 -> Ok(e.stored)
         [] e.compression = 2 /\ e.unpacked = 0 -> IF e.stored = 0 THEN Ok(0) ELSE Error
         [] e.compression = 2 /\ e.unpacked # 0 -> IF e.lz4 = e.unpacked THEN Ok(e.lz4) ELSE Error
         [] OTHER -> Error

(* read_package_entry                                                      *)
ReadPackageEntry(file, name, limit) ==
  LET e == FindEntry(file, name) IN
  IF IsOk(e) THEN ReadEntry(file, file, e.value, limit) ELSE Error

-----------------------------------------------------------------------------
(* What is read, through a reader or by name, lies in the file as it is    *)
(* when it is read, outside its header and its file list, and fits the     *)
(* caller's limit.                                                         *)
ReadInside(now, opened, e, limit) ==
  IsOk(ReadEntry(now, opened, e, limit)) =>
    /\ ReadEntry(now, opened, e, limit).value <= limit
    /\ e.stored <= limit
    /\ \A byte \in e.offset .. e.offset + e.stored - 1 :
         /\ byte < now.size
         /\ HeaderSize <= byte
         /\ \/ byte < opened.header.listOffset
            \/ opened.header.listOffset + opened.header.listSize <= byte
=============================================================================
