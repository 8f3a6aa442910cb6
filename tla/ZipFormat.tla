----------------------------- MODULE ZipFormat -----------------------------
(***************************************************************************)
(* The records of a zip archive and the conversions between them and a     *)
(* FileHeader (struct.go): the central directory record, its zip64 extra   *)
(* field and the end records, as writer.go encodes them and reader.go      *)
(* decodes them.                                                           *)
(*                                                                         *)
(* A record is a TLA+ record of its fields.  Names, comments and the extra *)
(* fields this package does not interpret are represented by their length, *)
(* a checksum by a number.  The widths of the 16 and 32 bit fields are     *)
(* parameters, so that small archives reach the zip64 thresholds.          *)
(***************************************************************************)
EXTENDS Integers, Sequences

CONSTANTS
  uint16max,   (* largest value of a 16 bit field: 65535 in the code       *)
  uint32max    (* largest value of a 32 bit field: 2^32 - 1 in the code    *)

ASSUME WidthAssumption == uint16max \in Nat /\ uint32max \in Nat

-----------------------------------------------------------------------------
(* Lengths in bytes (struct.go).                                           *)
fileHeaderLen       == 30
directoryHeaderLen  == 46
directoryEndLen     == 22
dataDescriptorLen   == 16
dataDescriptor64Len == 24
directory64LocLen   == 20
directory64EndLen   == 56

zipVersion20 == 20
zipVersion45 == 45

(* The two flag bits the package interprets: 0x1 and 0x8.                  *)
FlagBits == {"encrypted", "descriptor"}

EncryptionMethods ==
  {"None", "Standard", "AES128", "AES192", "AES256"}

(* Extra fields, grouped by tag; the fields of one tag keep their order.   *)
(* other: bytes of fields with any other tag; aes: the methods recorded in *)
(* WinZip AES fields; xxh3: hashes; zip64: the three sizes the writer      *)
(* always puts in the field, <<uncompressed, compressed, offset>>.         *)
Extras(Methods) == [ other : Nat, aes : Seq(Methods), xxh3 : Seq(Nat),
                     zip64 : Seq(Nat \X Nat \X Nat) ]

NoExtra == [ other |-> 0, aes |-> <<>>, xxh3 |-> <<>>, zip64 |-> <<>> ]

ExtraLen(x) ==
  x.other + 11 * Len(x.aes) + 12 * Len(x.xxh3) + 28 * Len(x.zip64)

(* FileHeader.  The password itself is immaterial: only whether one is set *)
(* decides what is written.                                                *)
FileHeaders(Methods) ==
  [ name : Nat, comment : Nat, extra : Extras(Methods),
    version : {0, zipVersion20, zipVersion45}, flags : SUBSET FlagBits,
    method : Methods, level : Int,
    crc : Nat, xxh3 : Nat,
    csize : 0 .. uint32max, usize : 0 .. uint32max,
    csize64 : Nat, usize64 : Nat,
    encryption : EncryptionMethods, password : BOOLEAN, aesStrength : 0 .. 3 ]

(* Mutated form: the limit itself is taken for an ordinary size.           *)
isZip64Above(fh) == fh.csize64 > uint32max \/ fh.usize64 > uint32max
isZip64(fh) == fh.csize64 >= uint32max \/ fh.usize64 >= uint32max

writesAES(fh) == fh.password /\ fh.encryption # "Standard"

(* The local header, as written and as the reader measures it.             *)
LocalHeaderLen(fh) == fileHeaderLen + fh.name + ExtraLen(fh.extra)

DescriptorLen(fh) ==
  (IF isZip64(fh) THEN dataDescriptor64Len ELSE dataDescriptorLen)
    - (IF writesAES(fh) THEN 4 ELSE 0)

-----------------------------------------------------------------------------
(* Writing the central directory.                                          *)

NeedsZip64(fh, offset) == isZip64(fh) \/ offset >= uint32max

(* Mutated form: the two sizes are swapped.                                *)
DirectoryExtraSwapped(fh, offset) ==
  [ fh.extra EXCEPT
      !.xxh3  = IF fh.xxh3 # 0 THEN Append(@, fh.xxh3) ELSE @,
      !.zip64 = IF NeedsZip64(fh, offset)
                THEN Append(@, <<fh.csize64, fh.usize64, offset>>)
                ELSE @ ]
DirectoryExtra(fh, offset) ==
  [ fh.extra EXCEPT
      !.xxh3  = IF fh.xxh3 # 0 THEN Append(@, fh.xxh3) ELSE @,
      !.zip64 = IF NeedsZip64(fh, offset)
                THEN Append(@, <<fh.usize64, fh.csize64, offset>>)
                ELSE @ ]

(* The central directory record of fh at offset.  Without zip64 the record *)
(* takes the 32 bit size fields of the header, whatever the 64 bit fields  *)
(* hold.                                                                   *)
DirectoryHeader(fh, offset) ==
  [ version |-> fh.version, flags |-> fh.flags, method |-> fh.method,
    crc     |-> fh.crc,
    csize   |-> IF NeedsZip64(fh, offset) THEN uint32max ELSE fh.csize,
    usize   |-> IF NeedsZip64(fh, offset) THEN uint32max ELSE fh.usize,
    offset  |-> IF offset >= uint32max THEN uint32max ELSE offset,
    name    |-> fh.name, comment |-> fh.comment,
    extra   |-> DirectoryExtra(fh, offset) ]

(* The three length checks that make writeDirectoryHeader return an error. *)
DirectoryHeaderFits(fh, offset) ==
  /\ fh.name <= uint16max
  /\ ExtraLen(DirectoryExtra(fh, offset)) <= uint16max
  /\ fh.comment <= uint16max

RecordLen(rec) ==
  directoryHeaderLen + rec.name + ExtraLen(rec.extra) + rec.comment

(* The end record; end64 holds the zip64 end record and its locator, or is *)
(* empty when no value needs them.                                         *)
(* Mutated form: only the offset decides whether zip64 is needed.          *)
DirectoryEndByOffset(records, size, offset) ==
  LET zip64 == offset >= uint32max
  IN [ records |-> IF zip64 THEN uint16max ELSE records % (uint16max + 1),
       size    |-> IF zip64 THEN uint32max ELSE size % (uint32max + 1),
       offset  |-> IF zip64 THEN uint32max ELSE offset,
       end64   |-> IF zip64
                   THEN << [ records |-> records, size |-> size,
                             offset |-> offset, locator |-> offset + size ] >>
                   ELSE <<>> ]
DirectoryEnd(records, size, offset) ==
  LET zip64 == \/ records >= uint16max
               \/ size >= uint32max
               \/ offset >= uint32max
  IN [ records |-> IF zip64 THEN uint16max ELSE records,
       size    |-> IF zip64 THEN uint32max ELSE size,
       offset  |-> IF zip64 THEN uint32max ELSE offset,
       end64   |-> IF zip64
                   THEN << [ records |-> records, size |-> size,
                             offset |-> offset, locator |-> offset + size ] >>
                   ELSE <<>> ]

-----------------------------------------------------------------------------
(* Reading it back.                                                        *)

Least(S) == CHOOSE i \in S : \A j \in S : i <= j

(* readDirectoryHeader.  A field of the zip64 extra is consumed only when  *)
(* its 32 bit counterpart is saturated.  The sizes are taken again from    *)
(* every zip64 field, so the last one counts; the offset no longer looks   *)
(* saturated once a field has replaced it, so the first one that does      *)
(* counts.                                                                 *)
ReadDirectoryHeader(rec) ==
  LET z    == rec.extra.zip64
      nU   == IF rec.usize = uint32max THEN 1 ELSE 0
      nC   == nU + (IF rec.csize = uint32max THEN 1 ELSE 0)
      Offs == { i \in 1 .. Len(z) : z[i][nC + 1] # uint32max }
  IN [ flags   |-> rec.flags,
       crc     |-> rec.crc,
       xxh3    |-> IF rec.extra.xxh3 = <<>> THEN 0
                   ELSE rec.extra.xxh3[Len(rec.extra.xxh3)],
       usize64 |-> IF z # <<>> /\ nU = 1 THEN z[Len(z)][1] ELSE rec.usize,
       csize64 |-> IF z # <<>> /\ nC > nU THEN z[Len(z)][nC] ELSE rec.csize,
       headerOffset |-> IF rec.offset = uint32max /\ Offs # {}
                        THEN z[Least(Offs)][nC + 1] ELSE rec.offset,
       ae      |-> IF rec.extra.aes = <<>> THEN 0 ELSE 2,
       method  |-> IF rec.extra.aes = <<>> THEN rec.method
                   ELSE rec.extra.aes[Len(rec.extra.aes)] ]

(* readDirectoryEnd: a locator in front of the end record is followed      *)
(* whatever the end record says; end64At is where the zip64 end record     *)
(* really is, and reading any other place finds no signature.              *)
ReadDirectoryEnd(end, end64At) ==
  IF end.end64 = <<>>
  THEN [ ok |-> TRUE, records |-> end.records, offset |-> end.offset ]
  ELSE [ ok      |-> end.end64[1].locator = end64At,
         records |-> end.end64[1].records,
         offset  |-> end.end64[1].offset ]

EndLen(end) ==
  directoryEndLen
    + (IF end.end64 = <<>> THEN 0 ELSE directory64EndLen + directory64LocLen)

(* Mutated form: the count is compared as it is.                           *)
OpenedExactly(d, records, size) ==
  [ ok    |-> /\ d.ok /\ d.offset < size
              /\ d.records <= size \div fileHeaderLen
              /\ records = d.records,
    files |-> records ]
(* Reader.init, of an archive with so many well-formed records at the      *)
(* place that its end records name: the number of its files.  The loop     *)
(* reads until a record is malformed, whatever the count says, and the two *)
(* are compared in 16 bits only.                                           *)
Opened(d, records, size) ==
  [ ok    |-> /\ d.ok /\ d.offset < size
              /\ d.records <= size \div fileHeaderLen
              /\ records % (uint16max + 1) = d.records % (uint16max + 1),
    files |-> records ]
=============================================================================
