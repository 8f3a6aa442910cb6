---------------------------- MODULE FilterStream ----------------------------
(***************************************************************************)
(* FilterZipStream of filter.go: the entries that a filter selects are     *)
(* copied from a stream of the archive, read once and only forwards, and   *)
(* get a directory of their own.                                           *)
(*                                                                         *)
(* The source archive is given by where its entries lie, what its          *)
(* directory says of them, and what the copy looks at: the local extra     *)
(* field and the descriptor.  Bytes are ranges of positions in the source. *)
(***************************************************************************)
EXTENDS FileWriter, FiniteSets

CONSTANTS
  Archives       (* sequences of entries, in the order of the directory    *)

(* at: where the local header lies; local: its length with name and extra; *)
(* localZip64: it has a zip64 field; data: the length of the data;         *)
(* descriptor: the length of the descriptor, signed or not.                *)
SourceEntries ==
  [ at : Nat, local : Nat \ {0}, localZip64 : BOOLEAN, data : Nat,
    descriptor : Nat, signed : BOOLEAN, crcIsSignature : BOOLEAN,
    rec : [ version : Nat, flags : SUBSET FlagBits, method : Methods,
            crc : Nat, csize : Nat, usize : Nat, offset : Nat,
            name : Nat, comment : Nat, extra : Extras(Methods) ] ]

ASSUME ArchivesAssumption == Archives \subseteq Seq(SourceEntries)

VARIABLES
  source,         (* r and the stream                                      *)
  matched,        (* matchedFiles, as indices in the source's directory    *)
  streamOffset,
  outOffset,
  newOffsets,
  pieces,         (* what was written for each: [from, len] in the source  *)
  cd,             (* the directory that was written, or none               *)
  result

offsets == <<streamOffset, outOffset, newOffsets>>
vars == <<source, matched, offsets, pieces, cd, result>>

TypeOK ==
  /\ source \in Seq(SourceEntries)
  /\ matched \in Seq(DOMAIN source)
  /\ streamOffset \in Nat /\ outOffset \in 0 .. streamOffset
  /\ newOffsets \in Seq(Nat) /\ Len(newOffsets) <= Len(matched)
  /\ pieces \in Seq([ from : Nat, len : Nat ])
  /\ result \in {"copying", "nil", "backwards", "ErrFormat", "too long", "IO"}

File(i) == ReadDirectoryHeader(source[i].rec)

(* Mutated form: the entries are visited in the directory's order.         *)
BeforeInDirectory(i, j) == i < j
(* sort.SliceStable by headerOffset.                                       *)
Before(i, j) ==
  \/ File(i).headerOffset < File(j).headerOffset
  \/ File(i).headerOffset = File(j).headerOffset /\ i < j

InOrder(S) ==
  { m \in [1 .. Cardinality(S) -> S] :
      /\ \A i, j \in 1 .. Cardinality(S) : i < j => Before(m[i], m[j])
      /\ \A k \in S : \E i \in 1 .. Cardinality(S) : m[i] = k }

Init ==
  /\ source \in Archives
  /\ \E S \in SUBSET DOMAIN source : matched \in InOrder(S)
  /\ streamOffset = 0
  /\ outOffset = 0
  /\ newOffsets = <<>>
  /\ pieces = <<>>
  /\ cd = <<>>
  /\ result = "copying"

-----------------------------------------------------------------------------
(* The entry visited next.                                                 *)
Visited == matched[Len(newOffsets) + 1]

(* The local header that the stream holds at position n.                   *)
HeaderAt(n) == { k \in DOMAIN source : source[k].at = n }

(* Mutated form: only the local header is asked for the form of the sizes. *)
DescriptorCopiedByLocal(f, e) ==
  IF "descriptor" \notin f.flags THEN 0
  ELSE 4 + (IF e.localZip64 THEN 16 ELSE 8)
         + (IF e.signed \/ e.crcIsSignature THEN 4 ELSE 0)
(* How much is copied after the data: the first four bytes are a signature *)
(* or the CRC, and the sizes have eight bytes each for a zip64 entry.      *)
DescriptorCopied(f, e) ==
  IF "descriptor" \notin f.flags THEN 0
  ELSE 4 + (IF e.localZip64 \/ isZip64(f) THEN 16 ELSE 8)
         + (IF e.signed \/ e.crcIsSignature THEN 4 ELSE 0)

Copied(f, e) == e.local + f.csize64 + DescriptorCopied(f, e)

(* Mutated form: the descriptor is not counted.                            *)
PositionBefore(n, f, e) == n + e.local + f.csize64
(* Where the stream is after the entry at n.                               *)
PositionAfter(n, f, e) == n + Copied(f, e)

CopyEntry ==
  /\ result = "copying"
  /\ Len(newOffsets) < Len(matched)
  /\ LET f == File(Visited)
         n == f.headerOffset
     IN \/ /\ n < streamOffset
           /\ result' = "backwards"
           /\ UNCHANGED <<offsets, pieces>>
        \/ /\ n >= streamOffset /\ HeaderAt(n) = {}
           /\ result' = "ErrFormat"
           /\ streamOffset' = n
           /\ newOffsets' = Append(newOffsets, outOffset)
           /\ UNCHANGED <<outOffset, pieces>>
        \/ \E k \in HeaderAt(n) :
             LET e == source[k]
             IN /\ n >= streamOffset
                /\ newOffsets' = Append(newOffsets, outOffset)
                /\ pieces' = Append(pieces, [ from |-> n, len |-> Copied(f, e) ])
                /\ streamOffset' = PositionAfter(n, f, e)
                /\ outOffset' = outOffset + Copied(f, e)
                /\ UNCHANGED result
  /\ UNCHANGED <<source, matched, cd>>

(* The stream or w fails, or the stream ends early, anywhere.              *)
Fail ==
  /\ result = "copying"
  /\ result' = "IO"
  /\ UNCHANGED <<source, matched, offsets, pieces, cd>>

(* Mutated form: the 32 bit sizes stay as they were read.                  *)
RewrittenSaturated(i) ==
  LET f == File(i)
      rec == source[i].rec
  IN [ version |-> rec.version, flags |-> f.flags, crc |-> f.crc,
       xxh3 |-> f.xxh3, name |-> rec.name, comment |-> rec.comment,
       extra |-> [ rec.extra EXCEPT !.zip64 = <<>>, !.xxh3 = <<>> ],
       csize64 |-> f.csize64, usize64 |-> f.usize64,
       csize |-> rec.csize, usize |-> rec.usize,
       method |-> IF f.ae # 0 THEN "AES" ELSE f.method ]
(* The FileHeader that goes into the new directory.                        *)
Rewritten(i) ==
  LET f == File(i)
      rec == source[i].rec
      Capped(n) == IF n < uint32max THEN n ELSE uint32max
  IN [ version |-> rec.version, flags |-> f.flags, crc |-> f.crc,
       xxh3 |-> f.xxh3, name |-> rec.name, comment |-> rec.comment,
       extra |-> [ rec.extra EXCEPT !.zip64 = <<>>, !.xxh3 = <<>> ],
       csize64 |-> f.csize64, usize64 |-> f.usize64,
       csize |-> Capped(f.csize64), usize |-> Capped(f.usize64),
       method |-> IF f.ae # 0 THEN "AES" ELSE f.method ]

WriteDirectory ==
  /\ result = "copying"
  /\ Len(newOffsets) = Len(matched)
  /\ LET Fits(i) == DirectoryHeaderFits(Rewritten(matched[i]), newOffsets[i])
         records == [ i \in DOMAIN matched |->
                        DirectoryHeader(Rewritten(matched[i]), newOffsets[i]) ]
         size == DirectorySize(records)
     IN IF \A i \in DOMAIN matched : Fits(i)
        THEN /\ cd' = << [ records |-> records, size |-> size,
                           end |-> DirectoryEnd(Len(matched), size, outOffset) ] >>
             /\ result' = "nil"
        ELSE result' = "too long" /\ UNCHANGED cd
  /\ UNCHANGED <<source, matched, offsets, pieces>>

Next == CopyEntry \/ Fail \/ WriteDirectory

Spec == Init /\ [][Next]_vars

-----------------------------------------------------------------------------
(* An archive as it should be: what the directory says of an entry is      *)
(* where and what it is, and entries do not overlap.  A CRC that equals    *)
(* the signature cannot be told from one and counts as signed.             *)
EntryLen(e) == e.local + e.data + e.descriptor

Consistent ==
  /\ \A i \in DOMAIN source :
       LET e == source[i]
       IN /\ File(i).headerOffset = e.at /\ File(i).csize64 = e.data
          /\ ("descriptor" \in File(i).flags) <=> e.descriptor > 0
          /\ e.crcIsSignature => e.signed
  /\ \A i, j \in DOMAIN source :
       i # j => \/ source[i].at + EntryLen(source[i]) <= source[j].at
                \/ source[j].at + EntryLen(source[j]) <= source[i].at

(* The descriptors that archives really have.  Other programs follow       *)
(* APPNOTE 4.3.9: the sizes have eight bytes if the local header has a     *)
(* zip64 field, without which no size may need one.  A fileWriter instead  *)
(* goes by the sizes "without adding a zip64 extra in the local header     *)
(* (too late anyway)" (writer.go:538), and signs all but those of AES.     *)
AppnoteDescriptor(e, f) ==
  /\ isZip64(f) => e.localZip64
  /\ e.descriptor = (IF e.localZip64 THEN 4 + 8 + 8 ELSE 4 + 4 + 4)
                      + (IF e.signed THEN 4 ELSE 0)

OwnDescriptor(e, f) ==
  LET fw == [ enc |-> IF f.ae # 0 THEN "AES" ELSE "None" ]
  IN /\ ~e.localZip64
     /\ e.signed <=> fw.enc # "AES"
     /\ e.descriptor = Descriptor(f, fw).len

Conforming ==
  \A i \in DOMAIN source :
    source[i].descriptor > 0 => \/ AppnoteDescriptor(source[i], File(i))
                               \/ OwnDescriptor(source[i], File(i))

(* Matched entries are copied "preserving their original compressed byte   *)
(* structures precisely" (filter.go:14): each from its local header to the *)
(* end of its descriptor.                                                  *)
CopiedWhole ==
  \A i \in DOMAIN pieces :
    /\ pieces[i].from = source[matched[i]].at
    /\ pieces[i].len = EntryLen(source[matched[i]])

PreservedPrecisely == Consistent => CopiedWhole

(* The same for entries whose descriptors are as APPNOTE or this package   *)
(* has them: which of the two wrote an entry is not recorded, and the copy *)
(* has to find the end of each (filter.go:97-119).                         *)
ConformingPreserved == Consistent /\ Conforming => CopiedWhole

(* One pass is enough: it never has to go backwards, in whichever order    *)
(* the directory lists the entries.                                        *)
OnePass == Consistent /\ Conforming => result # "backwards"

(* Where the pieces lie in what was written, and where they end.           *)
Places ==
  LET place[i \in 1 .. Len(pieces) + 1] ==
        IF i = 1 THEN 0 ELSE place[i - 1] + pieces[i - 1].len
  IN place

(* The new directory leads to the entries copied, and says of each what    *)
(* the old one said, zip64 and AES fields included; the end records lead   *)
(* to the directory.                                                       *)
FilteredReadsBack ==
  result = "nil" =>
    LET at  == Places[Len(pieces) + 1]
        end == ReadDirectoryEnd(cd[1].end, at + cd[1].size)
    IN /\ end.ok /\ end.offset = at /\ end.records = Len(pieces)
       /\ \A i \in DOMAIN pieces :
            LET r == ReadDirectoryHeader(cd[1].records[i])
            IN /\ r.headerOffset = Places[i]
               /\ [ r EXCEPT !.headerOffset = 0 ]
                    = [ File(matched[i]) EXCEPT !.headerOffset = 0 ]
=============================================================================
