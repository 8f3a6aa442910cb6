------------------------- MODULE FilterStreamProofs -------------------------
(***************************************************************************)
(* FilterStream, for any archives, any selection of their entries and any  *)
(* field widths: what is copied of an entry is the entry, one pass over    *)
(* the source is enough, and the new archive reads back.                   *)
(***************************************************************************)
EXTENDS FilterStream, FileWriterProofs, FiniteSetTheorems

USE ArchivesAssumption

(* Where the entries that were copied went: one behind the other.          *)
Ordered ==
  \A i, j \in 1 .. Len(matched) : i < j => Before(matched[i], matched[j])

(* The end of the last piece, in the source and in what was written.       *)
SourceEnd ==
  IF Len(pieces) = 0 THEN 0
  ELSE pieces[Len(pieces)].from + pieces[Len(pieces)].len

OutEnd ==
  IF Len(pieces) = 0 THEN 0
  ELSE newOffsets[Len(pieces)] + pieces[Len(pieces)].len

Laid ==
  /\ Len(pieces) <= Len(newOffsets)
  /\ result # "ErrFormat" =>
       Len(newOffsets) = Len(pieces) /\ streamOffset = SourceEnd
  /\ outOffset = OutEnd
  /\ \A i \in 1 .. Len(pieces) :
       newOffsets[i] = IF i = 1 THEN 0 ELSE newOffsets[i - 1] + pieces[i - 1].len

(* What was copied of an entry, by the header found where it was to lie.   *)
Taken(i) ==
  /\ pieces[i].from = File(matched[i]).headerOffset
  /\ \E k \in HeaderAt(pieces[i].from) :
       pieces[i].len = Copied(File(matched[i]), source[k])

(* The directory of what was copied.                                       *)
NewRecords ==
  [ i \in DOMAIN matched |->
      DirectoryHeader(Rewritten(matched[i]), newOffsets[i]) ]

NewDirectory ==
  LET size == DirectorySize(NewRecords)
  IN << [ records |-> NewRecords, size |-> size,
          end |-> DirectoryEnd(Len(matched), size, outOffset) ] >>

Sealed ==
  result = "nil" => Len(newOffsets) = Len(matched) /\ cd = NewDirectory

IInv ==
  /\ TypeOK /\ Ordered /\ Laid /\ Sealed
  /\ \A i \in 1 .. Len(pieces) : Taken(i)
  /\ OnePass

-----------------------------------------------------------------------------
(* What the directory of the source says, by its types.                    *)
LEMMA ReadType ==
  ASSUME NEW e \in SourceEntries
  PROVE  LET r == ReadDirectoryHeader(e.rec)
         IN /\ r.csize64 \in Nat /\ r.usize64 \in Nat /\ r.headerOffset \in Nat
            /\ r.flags = e.rec.flags /\ r.crc = e.rec.crc
            /\ r.ae = IF e.rec.extra.aes = <<>> THEN 0 ELSE 2
            /\ r.method = IF e.rec.extra.aes = <<>> THEN e.rec.method
                          ELSE e.rec.extra.aes[Len(e.rec.extra.aes)]
            /\ r = [ flags |-> r.flags, crc |-> r.crc, xxh3 |-> r.xxh3,
                     usize64 |-> r.usize64, csize64 |-> r.csize64,
                     headerOffset |-> r.headerOffset, ae |-> r.ae,
                     method |-> r.method ]
            /\ e.rec.extra \in Extras(Methods)
<1> DEFINE rec == e.rec
           r  == ReadDirectoryHeader(rec)
           z  == rec.extra.zip64
           nU == IF rec.usize = uint32max THEN 1 ELSE 0
           nC == nU + (IF rec.csize = uint32max THEN 1 ELSE 0)
           Offs == { i \in 1 .. Len(z) : z[i][nC + 1] # uint32max }
<1>1. /\ r.flags = rec.flags /\ r.crc = rec.crc
      /\ r.usize64 = (IF z # <<>> /\ nU = 1 THEN z[Len(z)][1] ELSE rec.usize)
      /\ r.csize64 = (IF z # <<>> /\ nC > nU THEN z[Len(z)][nC] ELSE rec.csize)
      /\ r.headerOffset = (IF rec.offset = uint32max /\ Offs # {}
                           THEN z[Least(Offs)][nC + 1] ELSE rec.offset)
      /\ r.method = IF rec.extra.aes = <<>> THEN rec.method
                    ELSE rec.extra.aes[Len(rec.extra.aes)]
      /\ r.ae = IF rec.extra.aes = <<>> THEN 0 ELSE 2
  BY DEF ReadDirectoryHeader
<1>2. r = [ flags |-> r.flags, crc |-> r.crc, xxh3 |-> r.xxh3,
            usize64 |-> r.usize64, csize64 |-> r.csize64,
            headerOffset |-> r.headerOffset, ae |-> r.ae, method |-> r.method ]
  BY DEF ReadDirectoryHeader
<1>3. /\ rec.extra \in Extras(Methods) /\ rec.csize \in Nat /\ rec.usize \in Nat
      /\ rec.offset \in Nat
  BY DEF SourceEntries
<1>4. z \in Seq(Nat \X Nat \X Nat)
  BY <1>3 DEF Extras
<1>5. \A i \in 1 .. Len(z) : /\ z[i][1] \in Nat /\ z[i][2] \in Nat
                             /\ z[i][3] \in Nat
  <2> HIDE DEF z
  <2>1. \A i \in 1 .. Len(z) : z[i] \in Nat \X Nat \X Nat
    BY <1>4
  <2>2. ASSUME NEW t \in Nat \X Nat \X Nat
        PROVE  t[1] \in Nat /\ t[2] \in Nat /\ t[3] \in Nat
    OBVIOUS
  <2> QED
    BY <2>1, <2>2
<1>6. z # <<>> => Len(z) \in 1 .. Len(z)
  BY <1>4
<1>7. nU \in {0, 1} /\ nC \in {0, 1, 2} /\ nC >= nU
  BY SMTT(30)
<1>8. Offs # {} => Least(Offs) \in 1 .. Len(z)
  <2>1. Offs \in SUBSET Nat
    OBVIOUS
  <2> HIDE DEF Offs
  <2>2. Offs # {} => Least(Offs) \in Offs
    BY <2>1, LeastElement DEF Least
  <2> QED
    BY <2>2 DEF Offs
<1> HIDE DEF r, rec, z, nU, nC, Offs
<1>9. r.usize64 \in Nat
  BY <1>1, <1>3, <1>5, <1>6
<1>10. r.csize64 \in Nat
  <2>1. nC > nU => nC = 1 \/ nC = 2
    BY <1>7
  <2> QED
    BY <1>1, <1>3, <1>5, <1>6, <2>1
<1>11. r.headerOffset \in Nat
  <2>1. nC + 1 = 1 \/ nC + 1 = 2 \/ nC + 1 = 3
    BY <1>7
  <2> QED
    BY <1>1, <1>3, <1>5, <1>8, <2>1
<1> QED
  BY <1>1, <1>2, <1>3, <1>9, <1>10, <1>11 DEF r, rec

(* The entries selected, and what is copied of one.                        *)
LEMMA OfEntries ==
  ASSUME source \in Seq(SourceEntries)
  PROVE  /\ Len(source) \in Nat /\ DOMAIN source = 1 .. Len(source)
         /\ \A i \in DOMAIN source :
              /\ source[i] \in SourceEntries
              /\ File(i).headerOffset \in Nat /\ File(i).csize64 \in Nat
              /\ source[i].at \in Nat /\ source[i].local \in Nat
              /\ source[i].local >= 1 /\ source[i].data \in Nat
              /\ source[i].descriptor \in Nat
<1>1. Len(source) \in Nat /\ DOMAIN source = 1 .. Len(source)
  OBVIOUS
<1>2. \A i \in DOMAIN source : source[i] \in SourceEntries
  OBVIOUS
<1>3. \A i \in DOMAIN source : File(i).headerOffset \in Nat /\ File(i).csize64 \in Nat
  BY <1>2, ReadType DEF File
<1>4. ASSUME NEW e \in SourceEntries
      PROVE  /\ e.at \in Nat /\ e.local \in Nat /\ e.local >= 1
             /\ e.data \in Nat /\ e.descriptor \in Nat
  BY DEF SourceEntries
<1> QED
  BY <1>1, <1>2, <1>3, <1>4

LEMMA CopiedType ==
  ASSUME NEW f, NEW e, f.csize64 \in Nat, e.local \in Nat
  PROVE  Copied(f, e) \in Nat
<1>1. DescriptorCopied(f, e) \in Nat
  BY DEF DescriptorCopied
<1> QED
  BY <1>1 DEF Copied

-----------------------------------------------------------------------------
(* Under what ConformingPreserved and OnePass assume, what was copied of an *)
(* entry is the entry: no other header lies where the directory says this  *)
(* one does, and of a descriptor of either kind all is taken: APPNOTE's    *)
(* zip64 sizes show in the local header, this package's in the sizes.      *)
LEMMA EntryCopied ==
  ASSUME source \in Seq(SourceEntries), Consistent, Conforming,
         NEW m \in DOMAIN source,
         NEW k \in HeaderAt(File(m).headerOffset)
  PROVE  /\ File(m).headerOffset = source[m].at
         /\ Copied(File(m), source[k]) = EntryLen(source[m])
<1>1. /\ File(m).headerOffset = source[m].at /\ File(m).csize64 = source[m].data
      /\ ("descriptor" \in File(m).flags) <=> source[m].descriptor > 0
      /\ source[m].crcIsSignature => source[m].signed
  BY DEF Consistent
<1>2. /\ source[m].at \in Nat /\ source[m].data \in Nat /\ source[m].descriptor \in Nat
      /\ source[m].local \in Nat /\ source[m].local >= 1
  BY OfEntries
<1>3. k = m
  <2>1. k \in DOMAIN source /\ source[k].at = source[m].at
    BY <1>1 DEF HeaderAt
  <2>2. /\ source[k].local \in Nat /\ source[k].local >= 1
        /\ source[k].data \in Nat /\ source[k].descriptor \in Nat
    BY <2>1, OfEntries
  <2>3. EntryLen(source[k]) \in Nat /\ EntryLen(source[k]) >= 1
        /\ EntryLen(source[m]) \in Nat /\ EntryLen(source[m]) >= 1
    <3>1. ASSUME NEW e, e.local \in Nat, e.local >= 1, e.data \in Nat,
                 e.descriptor \in Nat
          PROVE  EntryLen(e) \in Nat /\ EntryLen(e) >= 1
      BY <3>1 DEF EntryLen
    <3> QED
      BY <1>2, <2>2, <3>1
  <2>4. k # m => \/ source[k].at + EntryLen(source[k]) <= source[m].at
                 \/ source[m].at + EntryLen(source[m]) <= source[k].at
    BY <2>1 DEF Consistent
  <2> QED
    BY <1>2, <2>1, <2>3, <2>4
<1>4. DescriptorCopied(File(m), source[m]) = source[m].descriptor
  <2>1. CASE "descriptor" \notin File(m).flags
    BY <1>1, <1>2, <2>1 DEF DescriptorCopied
  <2>2. CASE "descriptor" \in File(m).flags
    <3>1. source[m].signed \in BOOLEAN /\ source[m].localZip64 \in BOOLEAN
      <4>1. source[m] \in SourceEntries
        BY OfEntries
      <4> QED
        BY <4>1 DEF SourceEntries
    <3>2. CASE AppnoteDescriptor(source[m], File(m))
      BY <1>1, <2>2, <3>1, <3>2 DEF AppnoteDescriptor, DescriptorCopied
    <3>3. CASE OwnDescriptor(source[m], File(m))
      <4>1. /\ ~source[m].localZip64
            /\ source[m].signed <=> File(m).ae = 0
            /\ source[m].descriptor =
                 (IF isZip64(File(m)) THEN 24 ELSE 16)
                   - (IF File(m).ae # 0 THEN 4 ELSE 0)
        BY <3>3 DEF OwnDescriptor, Descriptor, dataDescriptorLen,
             dataDescriptor64Len
      <4> QED
        BY <1>1, <2>2, <3>1, <4>1 DEF DescriptorCopied
    <3> QED
      BY <1>1, <2>2, <3>2, <3>3 DEF Conforming
  <2> QED
    BY <2>1, <2>2
<1> QED
  BY <1>1, <1>2, <1>3, <1>4 DEF Copied, EntryLen

(* What the invariant knows of the lengths of its sequences.               *)
LEMMA Lengths ==
  ASSUME TypeOK
  PROVE  /\ Len(matched) \in Nat /\ Len(newOffsets) \in Nat /\ Len(pieces) \in Nat
         /\ streamOffset \in Nat /\ outOffset \in Nat /\ outOffset <= streamOffset
         /\ DOMAIN pieces = 1 .. Len(pieces) /\ DOMAIN matched = 1 .. Len(matched)
         /\ \A i \in 1 .. Len(matched) : matched[i] \in DOMAIN source
         /\ \A i \in 1 .. Len(newOffsets) : newOffsets[i] \in Nat
         /\ \A i \in 1 .. Len(pieces) : /\ pieces[i].from \in Nat
                                        /\ pieces[i].len \in Nat
<1>1. ASSUME NEW p \in [ from : Nat, len : Nat ]
      PROVE  p.from \in Nat /\ p.len \in Nat
  OBVIOUS
<1>2. /\ source \in Seq(SourceEntries) /\ matched \in Seq(DOMAIN source)
      /\ newOffsets \in Seq(Nat) /\ streamOffset \in Nat
      /\ outOffset \in 0 .. streamOffset
      /\ pieces \in Seq([ from : Nat, len : Nat ])
  BY DEF TypeOK
<1>3. ASSUME NEW T, NEW s \in Seq(T)
      PROVE  /\ Len(s) \in Nat /\ DOMAIN s = 1 .. Len(s)
             /\ \A i \in 1 .. Len(s) : s[i] \in T
  OBVIOUS
<1>4. /\ Len(pieces) \in Nat /\ DOMAIN pieces = 1 .. Len(pieces)
      /\ \A i \in 1 .. Len(pieces) : pieces[i] \in [ from : Nat, len : Nat ]
  BY <1>2, <1>3, Zenon
<1>5. /\ Len(matched) \in Nat /\ DOMAIN matched = 1 .. Len(matched)
      /\ \A i \in 1 .. Len(matched) : matched[i] \in DOMAIN source
  BY <1>2, <1>3, Zenon
<1>6. /\ Len(newOffsets) \in Nat
      /\ \A i \in 1 .. Len(newOffsets) : newOffsets[i] \in Nat
  BY <1>2, <1>3, Zenon
<1>7. \A i \in 1 .. Len(pieces) : pieces[i].from \in Nat /\ pieces[i].len \in Nat
  BY <1>1, <1>4
<1>8. outOffset \in Nat /\ outOffset <= streamOffset
  BY <1>2
<1> QED
  BY <1>2, <1>4, <1>5, <1>6, <1>7, <1>8

(* The stream does not have to go backwards: the entry last copied ends    *)
(* before the one that comes after it begins.                              *)
LEMMA NextLiesAhead ==
  ASSUME TypeOK, Ordered, Laid, \A i \in 1 .. Len(pieces) : Taken(i),
         Consistent, Conforming, result = "copying",
         Len(newOffsets) < Len(matched)
  PROVE  File(Visited).headerOffset >= streamOffset
<1> DEFINE L == Len(pieces)
           v == Visited
           m == matched[L]
<1>1. Len(newOffsets) = L /\ streamOffset = SourceEnd
  BY DEF Laid
<1>2. v = matched[L + 1] /\ L \in Nat /\ L + 1 \in 1 .. Len(matched)
      /\ v \in DOMAIN source
  BY <1>1, Lengths DEF Visited
<1>3. source \in Seq(SourceEntries) /\ File(v).headerOffset \in Nat
      /\ File(v).headerOffset = source[v].at
  <2>1. source \in Seq(SourceEntries)
    BY DEF TypeOK
  <2> QED
    BY <1>2, <2>1, OfEntries DEF Consistent
<1>4. CASE L = 0
  BY <1>1, <1>3, <1>4 DEF SourceEnd
<1>5. CASE L # 0
  <2>1. L \in 1 .. Len(pieces) /\ L \in 1 .. Len(matched) /\ L < L + 1
    BY <1>2, <1>5
  <2>2. m \in DOMAIN source
    BY <2>1, Lengths
  <2>3. pieces[L].from = source[m].at /\ pieces[L].len = EntryLen(source[m])
    <3>1. Taken(L)
      BY <2>1
    <3>2. pieces[L].from = File(m).headerOffset
          /\ \E k \in HeaderAt(File(m).headerOffset) :
               pieces[L].len = Copied(File(m), source[k])
      BY <3>1 DEF Taken
    <3> QED
      BY <1>3, <2>2, <3>2, EntryCopied
  <2>4. streamOffset = source[m].at + EntryLen(source[m])
    BY <1>1, <1>5, <2>3 DEF SourceEnd
  <2>5. Before(m, v)
    BY <1>2, <2>1 DEF Ordered
  <2>6. m # v /\ source[m].at <= source[v].at
    <3>1. File(m).headerOffset = source[m].at /\ File(v).headerOffset = source[v].at
      BY <1>2, <2>2 DEF Consistent
    <3>2. source[m].at \in Nat /\ source[v].at \in Nat
      BY <1>2, <1>3, <2>2, OfEntries
    <3>3. m \in Nat /\ v \in Nat
      BY <1>2, <1>3, <2>2, OfEntries
    <3> QED
      BY <2>5, <3>1, <3>2, <3>3 DEF Before
  <2>7. \/ source[m].at + EntryLen(source[m]) <= source[v].at
        \/ source[v].at + EntryLen(source[v]) <= source[m].at
    BY <1>2, <2>2, <2>6 DEF Consistent
  <2>8. EntryLen(source[v]) \in Nat /\ EntryLen(source[v]) >= 1
        /\ source[m].at \in Nat /\ source[v].at \in Nat
    <3>1. /\ source[v].local \in Nat /\ source[v].local >= 1
          /\ source[v].data \in Nat /\ source[v].descriptor \in Nat
          /\ source[m].at \in Nat /\ source[v].at \in Nat
      BY <1>2, <1>3, <2>2, OfEntries
    <3>2. EntryLen(source[v]) = source[v].local + source[v].data
                                  + source[v].descriptor
      BY DEF EntryLen
    <3> HIDE DEF v, m
    <3> QED
      BY <3>1, <3>2
  <2>9. source[m].at + EntryLen(source[m]) <= source[v].at
    BY <2>6, <2>7, <2>8
  <2> QED
    BY <1>3, <2>4, <2>9
<1> QED
  BY <1>4, <1>5

-----------------------------------------------------------------------------
(* The invariant holds at the start: any selection of the entries, in the  *)
(* order of their offsets.                                                 *)
LEMMA InitHolds ==
  ASSUME Init
  PROVE  IInv
<1>1. /\ source \in Seq(SourceEntries) /\ streamOffset = 0 /\ outOffset = 0
      /\ newOffsets = <<>> /\ pieces = <<>> /\ result = "copying"
  BY DEF Init
<1>2. PICK S \in SUBSET DOMAIN source : matched \in InOrder(S)
  BY DEF Init
<1>3. Cardinality(S) \in Nat
  <2>1. Len(source) \in Nat /\ DOMAIN source = 1 .. Len(source)
    BY <1>1
  <2>2. IsFiniteSet(DOMAIN source)
    BY <2>1, FS_Interval
  <2>3. IsFiniteSet(S)
    BY <2>2, FS_Subset
  <2> QED
    BY <2>3, FS_CardinalityType
<1>4. /\ matched \in [1 .. Cardinality(S) -> DOMAIN source]
      /\ \A i, j \in 1 .. Cardinality(S) : i < j => Before(matched[i], matched[j])
  BY <1>2 DEF InOrder
<1>5. matched \in Seq(DOMAIN source) /\ Len(matched) = Cardinality(S)
  BY <1>3, <1>4
<1>6. Ordered
  BY <1>4, <1>5 DEF Ordered
<1>7. TypeOK
  <2>1. Len(newOffsets) = 0 /\ newOffsets \in Seq(Nat)
        /\ pieces \in Seq([ from : Nat, len : Nat ])
    BY <1>1
  <2> QED
    BY <1>1, <1>3, <1>5, <2>1 DEF TypeOK
<1>8. Len(pieces) = 0 /\ Len(newOffsets) = 0
  BY <1>1
<1>9. Laid
  BY <1>1, <1>8 DEF Laid, SourceEnd, OutEnd
<1> QED
  BY <1>1, <1>6, <1>7, <1>8, <1>9 DEF IInv, Sealed, OnePass

(* What does not touch the copy keeps what is known of it.                 *)
LEMMA CopyKept ==
  ASSUME IInv, UNCHANGED <<source, matched, offsets, pieces>>,
         result = "copying", result' \in {"nil", "backwards", "too long", "IO"}
  PROVE  /\ TypeOK' /\ Ordered' /\ Laid'
         /\ \A i \in 1 .. Len(pieces') : Taken(i)'
<1>1. /\ source' = source /\ matched' = matched /\ pieces' = pieces
      /\ streamOffset' = streamOffset /\ outOffset' = outOffset
      /\ newOffsets' = newOffsets
  BY DEF offsets
<1>2. TypeOK'
  BY <1>1 DEF IInv, TypeOK
<1>3. Ordered'
  <2>1. \A k : File(k)' = File(k)
    BY <1>1 DEF File
  <2> SUFFICES ASSUME NEW i \in 1 .. Len(matched), NEW j \in 1 .. Len(matched), i < j
               PROVE  Before(matched[i], matched[j])'
    BY <1>1 DEF Ordered
  <2>2. Before(matched[i], matched[j])
    BY DEF IInv, Ordered
  <2> QED
    BY <1>1, <2>1, <2>2 DEF Before
<1>4. Laid'
  <2>1. SourceEnd' = SourceEnd /\ OutEnd' = OutEnd
    BY <1>1 DEF SourceEnd, OutEnd
  <2>2. result # "ErrFormat"
    OBVIOUS
  <2>3. /\ Len(pieces) <= Len(newOffsets)
        /\ Len(newOffsets) = Len(pieces) /\ streamOffset = SourceEnd
        /\ outOffset = OutEnd
        /\ \A i \in 1 .. Len(pieces) :
             newOffsets[i] = IF i = 1 THEN 0
                             ELSE newOffsets[i - 1] + pieces[i - 1].len
    BY <2>2 DEF IInv, Laid
  <2> QED
    BY <1>1, <2>1, <2>3 DEF Laid
<1>5. \A i \in 1 .. Len(pieces') : Taken(i)'
  <2>1. \A i : Taken(i)' <=> Taken(i)
    BY <1>1 DEF Taken, File, HeaderAt, Copied, DescriptorCopied
  <2> QED
    BY <1>1, <2>1 DEF IInv
<1> QED
  BY <1>2, <1>3, <1>4, <1>5

LEMMA StaysConsistent ==
  ASSUME source' = source
  PROVE  (Consistent' <=> Consistent) /\ (Conforming' <=> Conforming)
<1>1. \A i : File(i)' = File(i)
  BY DEF File
<1> QED
  BY <1>1 DEF Consistent, Conforming, AppnoteDescriptor, OwnDescriptor,
              Descriptor, EntryLen, isZip64

-----------------------------------------------------------------------------
(* One entry is visited.                                                   *)
LEMMA CopyStep ==
  ASSUME IInv, CopyEntry
  PROVE  IInv'
<1> DEFINE L == Len(newOffsets)
           v == Visited
           f == File(v)
           n == f.headerOffset
<1>1. /\ result = "copying" /\ L < Len(matched)
      /\ source' = source /\ matched' = matched /\ cd' = cd
  BY DEF CopyEntry
<1>2. /\ TypeOK /\ Ordered /\ Laid /\ OnePass
      /\ \A i \in 1 .. Len(pieces) : Taken(i)
  BY DEF IInv
<1>3. /\ L = Len(pieces) /\ L \in Nat /\ L + 1 \in 1 .. Len(matched)
      /\ v \in DOMAIN source /\ v = matched[L + 1]
      /\ source \in Seq(SourceEntries) /\ f.csize64 \in Nat /\ n \in Nat
      /\ streamOffset = SourceEnd /\ outOffset = OutEnd
  <2>1. L = Len(pieces) /\ streamOffset = SourceEnd /\ outOffset = OutEnd
    BY <1>1, <1>2 DEF Laid
  <2>2. /\ L \in Nat /\ L + 1 \in 1 .. Len(matched)
        /\ v \in DOMAIN source /\ v = matched[L + 1]
    BY <1>1, <1>2, Lengths DEF Visited
  <2>3. source \in Seq(SourceEntries)
    BY <1>2 DEF TypeOK
  <2>4. f.csize64 \in Nat /\ n \in Nat
    BY <2>2, <2>3, OfEntries
  <2> QED
    BY <2>1, <2>2, <2>3, <2>4
<1>4. /\ \A i : File(i)' = File(i)
      /\ \A p : HeaderAt(p)' = HeaderAt(p)
      /\ Ordered'
  <2>1. \A i : File(i)' = File(i)
    BY <1>1 DEF File
  <2>2. \A p : HeaderAt(p)' = HeaderAt(p)
    BY <1>1 DEF HeaderAt
  <2> QED
    BY <1>1, <1>2, <2>1, <2>2 DEF Ordered, Before
<1>5. CASE /\ n < streamOffset /\ result' = "backwards"
           /\ UNCHANGED <<offsets, pieces>>
  <2>1. /\ TypeOK' /\ Laid' /\ \A i \in 1 .. Len(pieces') : Taken(i)'
    BY <1>1, <1>5, CopyKept
  <2>2. ~(Consistent /\ Conforming)
    <3>1. streamOffset \in Nat
      BY <1>2, Lengths
    <3> QED
      BY <1>1, <1>2, <1>3, <1>5, <3>1, NextLiesAhead
  <2>3. OnePass'
    BY <1>1, <2>2, StaysConsistent DEF OnePass
  <2> QED
    BY <1>4, <1>5, <2>1, <2>3 DEF IInv, Sealed
<1>6. CASE /\ n >= streamOffset /\ HeaderAt(n) = {}
           /\ result' = "ErrFormat" /\ streamOffset' = n
           /\ newOffsets' = Append(newOffsets, outOffset)
           /\ UNCHANGED <<outOffset, pieces>>
  <2> DEFINE news == newOffsets'
  <2>1. /\ news \in Seq(Nat) /\ Len(news) = L + 1
        /\ \A i \in 1 .. L : news[i] = newOffsets[i]
    <3>1. newOffsets \in Seq(Nat) /\ outOffset \in Nat
      BY <1>2, Lengths DEF TypeOK
    <3> QED
      BY <1>6, <3>1
  <2>2. TypeOK'
    <3>1. outOffset' \in 0 .. streamOffset' /\ streamOffset' \in Nat
      BY <1>2, <1>3, <1>6, Lengths
    <3>2. /\ pieces' \in Seq([ from : Nat, len : Nat ])
          /\ source' \in Seq(SourceEntries) /\ matched' \in Seq(DOMAIN source')
      BY <1>1, <1>2, <1>6 DEF TypeOK
    <3>3. Len(newOffsets') <= Len(matched')
      BY <1>1, <1>2, <1>3, <2>1, Lengths
    <3> QED
      BY <1>6, <2>1, <3>1, <3>2, <3>3 DEF TypeOK
  <2>3. Laid'
    <3>1. \A i \in 1 .. Len(pieces) :
            news[i] = IF i = 1 THEN 0 ELSE news[i - 1] + pieces[i - 1].len
      <4>1. \A i \in 1 .. Len(pieces) : i = 1 \/ i - 1 \in 1 .. Len(pieces)
        BY <1>3
      <4> QED
        BY <1>2, <1>3, <2>1, <4>1 DEF Laid
    <3>2. OutEnd' = OutEnd
      <4>1. Len(pieces) # 0 => news[Len(pieces)] = newOffsets[Len(pieces)]
        BY <1>3, <2>1
      <4> QED
        BY <1>6, <4>1 DEF OutEnd
    <3>3. Len(pieces) <= Len(news)
      BY <1>3, <2>1
    <3> QED
      BY <1>3, <1>6, <3>1, <3>2, <3>3 DEF Laid
  <2>4. \A i \in 1 .. Len(pieces') : Taken(i)'
    BY <1>1, <1>2, <1>4, <1>6 DEF Taken, Copied, DescriptorCopied
  <2> QED
    BY <1>4, <1>6, <2>2, <2>3, <2>4 DEF IInv, Sealed, OnePass
<1>7. ASSUME NEW k \in HeaderAt(n),
             n >= streamOffset,
             newOffsets' = Append(newOffsets, outOffset),
             pieces' = Append(pieces, [ from |-> n, len |-> Copied(f, source[k]) ]),
             streamOffset' = PositionAfter(n, f, source[k]),
             outOffset' = outOffset + Copied(f, source[k]),
             result' = result
      PROVE  IInv'
  <2> DEFINE c == Copied(f, source[k])
             new == [ from |-> n, len |-> c ]
             news == newOffsets'
             ps == pieces'
  <2>1. c \in Nat
    <3>1. k \in DOMAIN source
      BY DEF HeaderAt
    <3>2. source[k].local \in Nat
      BY <1>3, <3>1, OfEntries
    <3> QED
      BY <1>3, <3>2, CopiedType
  <2> HIDE DEF c
  <2>2. streamOffset' = n + c /\ outOffset' = outOffset + c
    BY <1>7 DEF PositionAfter, c
  <2>3. new.from = n /\ new.len = c /\ new \in [ from : Nat, len : Nat ]
    BY <1>3, <2>1
  <2>4. /\ news \in Seq(Nat) /\ Len(news) = L + 1
        /\ \A i \in 1 .. L : news[i] = newOffsets[i]
        /\ news[L + 1] = outOffset
    <3>1. newOffsets \in Seq(Nat) /\ outOffset \in Nat
      BY <1>2, Lengths DEF TypeOK
    <3> QED
      BY <1>7, <3>1
  <2>5. /\ ps \in Seq([ from : Nat, len : Nat ]) /\ Len(ps) = L + 1
        /\ \A i \in 1 .. L : ps[i] = pieces[i]
        /\ ps[L + 1] = new
    <3>1. pieces \in Seq([ from : Nat, len : Nat ]) /\ ps = Append(pieces, new)
      BY <1>2, <1>7 DEF TypeOK, c
    <3> HIDE DEF new, ps
    <3>2. /\ ps \in Seq([ from : Nat, len : Nat ]) /\ Len(ps) = Len(pieces) + 1
          /\ \A i \in 1 .. Len(pieces) : ps[i] = pieces[i]
          /\ ps[Len(pieces) + 1] = new
      BY <2>3, <3>1
    <3> QED
      BY <1>3, <3>2
  <2> HIDE DEF new, news, ps
  <2>6. TypeOK'
    <3>1. outOffset' \in 0 .. streamOffset' /\ streamOffset' \in Nat
      BY SMTT(30), <1>2, <1>3, <1>7, <2>1, <2>2, Lengths
    <3>2. source' \in Seq(SourceEntries) /\ matched' \in Seq(DOMAIN source')
      BY <1>1, <1>2 DEF TypeOK
    <3>3. Len(newOffsets') <= Len(matched') /\ newOffsets' \in Seq(Nat)
      BY <1>1, <1>2, <1>3, <2>4, Lengths DEF news
    <3>4. pieces' \in Seq([ from : Nat, len : Nat ])
      BY <2>5 DEF ps
    <3>5. result' = "copying"
      BY <1>1, <1>7
    <3> QED
      BY <3>1, <3>2, <3>3, <3>4, <3>5 DEF TypeOK
  <2>7. Laid'
    <3>1. \A i \in 1 .. L + 1 :
            news[i] = IF i = 1 THEN 0 ELSE news[i - 1] + ps[i - 1].len
      <4>1. ASSUME NEW i \in 1 .. L
            PROVE  news[i] = IF i = 1 THEN 0 ELSE news[i - 1] + ps[i - 1].len
        <5>1. i = 1 \/ i - 1 \in 1 .. L
          BY <1>3
        <5>2. newOffsets[i] = IF i = 1 THEN 0
                              ELSE newOffsets[i - 1] + pieces[i - 1].len
          BY <1>2, <1>3 DEF Laid
        <5> QED
          BY <2>4, <2>5, <5>1, <5>2
      <4>2. news[L + 1] = IF L + 1 = 1 THEN 0 ELSE news[L + 1 - 1] + ps[L + 1 - 1].len
        <5>1. outOffset = IF L = 0 THEN 0 ELSE newOffsets[L] + pieces[L].len
          BY <1>3 DEF OutEnd
        <5>2. L # 0 => L \in 1 .. L /\ L + 1 - 1 = L
          BY <1>3
        <5> QED
          BY SMTT(30), <1>3, <2>4, <2>5, <5>1, <5>2
      <4>3. \A i \in 1 .. L + 1 : i \in 1 .. L \/ i = L + 1
        BY <1>3
      <4> QED
        BY <4>1, <4>2, <4>3
    <3>2. L + 1 # 0
      BY <1>3
    <3>3. OutEnd' = outOffset'
      <4>1. OutEnd' = news[L + 1] + ps[L + 1].len
        BY <2>5, <3>2 DEF OutEnd, news, ps
      <4> QED
        BY <2>2, <2>3, <2>4, <2>5, <4>1
    <3>4. SourceEnd' = streamOffset'
      <4>1. SourceEnd' = ps[L + 1].from + ps[L + 1].len
        BY <2>5, <3>2 DEF SourceEnd, ps
      <4> QED
        BY <2>2, <2>3, <2>5, <4>1
    <3>5. /\ Len(pieces') = L + 1 /\ Len(newOffsets') = L + 1
          /\ \A i \in 1 .. Len(pieces') :
               newOffsets'[i] = IF i = 1 THEN 0
                                ELSE newOffsets'[i - 1] + pieces'[i - 1].len
      BY <2>4, <2>5, <3>1 DEF news, ps
    <3>6. L + 1 <= L + 1
      BY <1>3
    <3> QED
      BY <3>3, <3>4, <3>5, <3>6 DEF Laid
  <2>8. \A i \in 1 .. Len(pieces') : Taken(i)'
    <3>1. ASSUME NEW i \in 1 .. L
          PROVE  Taken(i)'
      <4>1. /\ pieces[i].from = File(matched[i]).headerOffset
            /\ \E q \in HeaderAt(pieces[i].from) :
                 pieces[i].len = Copied(File(matched[i]), source[q])
        BY <1>2, <1>3 DEF Taken
      <4>2. pieces'[i] = pieces[i]
        BY <2>5 DEF ps
      <4> QED
        BY <1>1, <1>4, <4>1, <4>2 DEF Taken, Copied, DescriptorCopied
    <3>2. ASSUME NEW i, i = L + 1
          PROVE  Taken(i)'
      <4>1. pieces'[i].from = n /\ pieces'[i].len = Copied(f, source[k])
        BY <2>3, <2>5, <3>2 DEF ps, c
      <4>2. f = File(matched[i]) /\ n = File(matched[i]).headerOffset
        BY <1>3, <3>2
      <4> QED
        BY <1>1, <1>4, <4>1, <4>2 DEF Taken, Copied, DescriptorCopied
    <3>3. \A i \in 1 .. Len(pieces') : i \in 1 .. L \/ i = L + 1
      BY <1>3, <2>5 DEF ps
    <3> QED
      BY <3>1, <3>2, <3>3
  <2>9. result' = "copying"
    BY <1>1, <1>7
  <2> QED
    BY <1>4, <2>6, <2>7, <2>8, <2>9 DEF IInv, Sealed, OnePass
<1> QED
  BY <1>5, <1>6, <1>7 DEF CopyEntry

LEMMA SameDirectory ==
  ASSUME source' = source, matched' = matched, newOffsets' = newOffsets,
         outOffset' = outOffset
  PROVE  NewDirectory' = NewDirectory
<1>1. \A i : Rewritten(i)' = Rewritten(i)
  BY DEF Rewritten, File
<1>2. NewRecords' = NewRecords
  BY <1>1 DEF NewRecords
<1> QED
  BY <1>2 DEF NewDirectory

(* The directory is written, or cannot be.                                 *)
LEMMA DirectoryStep ==
  ASSUME IInv, WriteDirectory
  PROVE  IInv'
<1>1. /\ result = "copying" /\ Len(newOffsets) = Len(matched)
      /\ UNCHANGED <<source, matched, offsets, pieces>>
      /\ \/ result' = "nil" /\ cd' = NewDirectory
         \/ result' = "too long"
  BY DEF WriteDirectory, NewDirectory, NewRecords
<1>2. /\ TypeOK' /\ Ordered' /\ Laid' /\ \A i \in 1 .. Len(pieces') : Taken(i)'
  BY <1>1, CopyKept
<1>3. OnePass'
  BY <1>1 DEF OnePass
<1>4. Sealed'
  <2>1. CASE result' = "nil"
    <3>1. NewDirectory' = NewDirectory
      BY <1>1, SameDirectory DEF offsets
    <3>2. cd' = NewDirectory /\ Len(newOffsets') = Len(matched')
      BY <1>1, <2>1 DEF offsets
    <3> QED
      BY <1>1, <3>1, <3>2 DEF Sealed
  <2>2. CASE result' # "nil"
    BY <2>2 DEF Sealed
  <2> QED
    BY <2>1, <2>2
<1> QED
  BY <1>2, <1>3, <1>4 DEF IInv

LEMMA NextKeeps ==
  ASSUME IInv, [Next]_vars
  PROVE  IInv'
<1>1. CASE CopyEntry
  BY <1>1, CopyStep
<1>2. CASE WriteDirectory
  BY <1>2, DirectoryStep
<1>3. CASE Fail
  <2>1. /\ result = "copying" /\ result' = "IO"
        /\ UNCHANGED <<source, matched, offsets, pieces>>
    BY <1>3 DEF Fail
  <2>2. /\ TypeOK' /\ Ordered' /\ Laid' /\ \A i \in 1 .. Len(pieces') : Taken(i)'
    BY <2>1, CopyKept
  <2> QED
    BY <2>1, <2>2 DEF IInv, Sealed, OnePass
<1>4. CASE UNCHANGED vars
  <2>1. /\ source' = source /\ matched' = matched /\ pieces' = pieces
        /\ streamOffset' = streamOffset /\ outOffset' = outOffset
        /\ newOffsets' = newOffsets /\ cd' = cd /\ result' = result
    BY <1>4 DEF vars, offsets
  <2>2. TypeOK' /\ Laid'
    BY <2>1 DEF IInv, TypeOK, Laid, SourceEnd, OutEnd
  <2>3. Ordered' /\ \A i \in 1 .. Len(pieces') : Taken(i)'
    BY SMTT(30), <2>1 DEF IInv, Ordered, Before, Taken, File, HeaderAt, Copied,
                          DescriptorCopied
  <2>4. OnePass'
    BY <2>1, StaysConsistent DEF IInv, OnePass
  <2>5. Sealed'
    BY <2>1, SameDirectory DEF IInv, Sealed
  <2> QED
    BY <2>2, <2>3, <2>4, <2>5 DEF IInv
<1> QED
  BY <1>1, <1>2, <1>3, <1>4 DEF Next

-----------------------------------------------------------------------------
(* The new record of an entry reads as the old one did, but for the        *)
(* offset: the zip64 and hash fields that were read are made anew, and the *)
(* sizes are put back where a record without zip64 looks for them.         *)
LEMMA RewrittenReadsBack ==
  ASSUME source \in Seq(SourceEntries), NEW i \in DOMAIN source, NEW o \in Nat
  PROVE  LET r == ReadDirectoryHeader(DirectoryHeader(Rewritten(i), o))
         IN /\ r.headerOffset = o
            /\ [ r EXCEPT !.headerOffset = 0 ]
                 = [ File(i) EXCEPT !.headerOffset = 0 ]
<1> DEFINE e == source[i]
           f == File(i)
           g == Rewritten(i)
           x == [ e.rec.extra EXCEPT !.zip64 = <<>>, !.xxh3 = <<>> ]
           r == ReadDirectoryHeader(DirectoryHeader(g, o))
<1>1. e \in SourceEntries
  BY OfEntries
<1>2. /\ f.csize64 \in Nat /\ f.usize64 \in Nat
      /\ f.flags = e.rec.flags /\ f.crc = e.rec.crc
      /\ f.ae = IF e.rec.extra.aes = <<>> THEN 0 ELSE 2
      /\ f.method = IF e.rec.extra.aes = <<>> THEN e.rec.method
                    ELSE e.rec.extra.aes[Len(e.rec.extra.aes)]
      /\ e.rec.extra \in Extras(Methods)
      /\ f = [ flags |-> f.flags, crc |-> f.crc, xxh3 |-> f.xxh3,
               usize64 |-> f.usize64, csize64 |-> f.csize64,
               headerOffset |-> f.headerOffset, ae |-> f.ae, method |-> f.method ]
  BY <1>1, ReadType DEF File
<1>3. /\ g.flags = f.flags /\ g.crc = f.crc /\ g.xxh3 = f.xxh3
      /\ g.extra = x /\ g.csize64 = f.csize64 /\ g.usize64 = f.usize64
      /\ g.csize = (IF f.csize64 < uint32max THEN f.csize64 ELSE uint32max)
      /\ g.usize = (IF f.usize64 < uint32max THEN f.usize64 ELSE uint32max)
      /\ g.method = IF f.ae # 0 THEN "AES" ELSE f.method
  BY DEF Rewritten
<1>4. /\ x \in Extras(Methods) /\ x.zip64 = <<>> /\ x.xxh3 = <<>>
      /\ x.aes = e.rec.extra.aes
  <2> DEFINE With(y, p, q) == [ y EXCEPT !.zip64 = p, !.xxh3 = q ]
  <2>1. ASSUME NEW y \in Extras(Methods), NEW p \in Seq(Nat \X Nat \X Nat),
               NEW q \in Seq(Nat)
        PROVE  /\ With(y, p, q) \in Extras(Methods)
               /\ With(y, p, q).zip64 = p /\ With(y, p, q).xxh3 = q
               /\ With(y, p, q).aes = y.aes
    BY DEF Extras
  <2>2. <<>> \in Seq(Nat) /\ <<>> \in Seq(Nat \X Nat \X Nat)
    OBVIOUS
  <2>3. e.rec.extra \in Extras(Methods)
    BY <1>2
  <2>4. x = With(e.rec.extra, <<>>, <<>>)
    OBVIOUS
  <2> HIDE DEF e, f, g, r, x, With
  <2> QED
    BY <2>1, <2>2, <2>3, <2>4
<1>5. SizesSettled(g)
  <2>1. uint32max \in Nat
    BY WidthAssumption
  <2> HIDE DEF f, g
  <2> QED
    BY <1>2, <1>3, <2>1 DEF SizesSettled, isZip64
<1> HIDE DEF e, f, g, x
<1>6. /\ r.flags = g.flags /\ r.crc = g.crc
      /\ r.csize64 = g.csize64 /\ r.usize64 = g.usize64
      /\ r.headerOffset = o
      /\ g.extra.xxh3 = <<>> => r.xxh3 = g.xxh3
      /\ r.ae = IF g.extra.aes = <<>> THEN 0 ELSE 2
      /\ r.method = IF g.extra.aes = <<>> THEN g.method
                    ELSE g.extra.aes[Len(g.extra.aes)]
  BY <1>2, <1>3, <1>4, <1>5, FieldsReadBack
<1>7. r = [ flags |-> r.flags, crc |-> r.crc, xxh3 |-> r.xxh3,
            usize64 |-> r.usize64, csize64 |-> r.csize64,
            headerOffset |-> r.headerOffset, ae |-> r.ae, method |-> r.method ]
  BY DEF ReadDirectoryHeader
<1> HIDE DEF r
<1>8. /\ r.flags = f.flags /\ r.crc = f.crc /\ r.xxh3 = f.xxh3
      /\ r.csize64 = f.csize64 /\ r.usize64 = f.usize64
      /\ r.ae = f.ae
  BY <1>2, <1>3, <1>4, <1>6
<1>9. r.method = f.method
  BY <1>2, <1>3, <1>4, <1>6
<1>10. [ r EXCEPT !.headerOffset = 0 ] = [ f EXCEPT !.headerOffset = 0 ]
  <2>1. ASSUME NEW s, NEW t,
               s = [ flags |-> s.flags, crc |-> s.crc, xxh3 |-> s.xxh3,
                     usize64 |-> s.usize64, csize64 |-> s.csize64,
                     headerOffset |-> s.headerOffset, ae |-> s.ae,
                     method |-> s.method ]
        PROVE  [ s EXCEPT !.headerOffset = 0 ]
                 = [ flags |-> s.flags, crc |-> s.crc, xxh3 |-> s.xxh3,
                     usize64 |-> s.usize64, csize64 |-> s.csize64,
                     headerOffset |-> 0, ae |-> s.ae, method |-> s.method ]
    BY <2>1
  <2> QED
    BY <1>2, <1>7, <1>8, <1>9, <2>1
<1> QED
  BY <1>6, <1>10 DEF r, f, g

(* Where the pieces were written is where they lie.                        *)
LEMMA PlacesAreOffsets ==
  ASSUME TypeOK, Laid, result = "nil"
  PROVE  /\ Places[Len(pieces) + 1] = outOffset
         /\ \A i \in 1 .. Len(pieces) : Places[i] = newOffsets[i]
<1> DEFINE N == Len(pieces)
           Follow(g) == [ i \in 1 .. N + 1 |->
                            IF i = 1 THEN 0 ELSE g[i - 1] + pieces[i - 1].len ]
           Offsets == [ i \in 1 .. N + 1 |->
                          IF i = N + 1 THEN outOffset ELSE newOffsets[i] ]
<1>1. Places = CHOOSE g : g = Follow(g)
  BY DEF Places
<1>2. /\ N \in Nat
      /\ outOffset = IF N = 0 THEN 0 ELSE newOffsets[N] + pieces[N].len
      /\ \A i \in 1 .. N :
           newOffsets[i] = IF i = 1 THEN 0
                           ELSE newOffsets[i - 1] + pieces[i - 1].len
  BY Lengths DEF Laid, OutEnd
<1> HIDE DEF N
<1>3. ASSUME NEW i \in 1 .. N + 1
      PROVE  Offsets[i] = IF i = 1 THEN 0 ELSE Offsets[i - 1] + pieces[i - 1].len
  <2>1. i = 1 \/ i - 1 \in 1 .. N
    BY <1>2
  <2>2. i # 1 => Offsets[i - 1] = newOffsets[i - 1]
    BY <1>2, <2>1
  <2>3. CASE i = N + 1
    <3>1. N = i - 1 /\ (N = 0 <=> i = 1)
      BY <1>2, <2>3
    <3>2. Offsets[i] = outOffset
      BY <2>3
    <3> HIDE DEF Offsets
    <3> QED
      BY <1>2, <2>2, <3>1, <3>2
  <2>4. CASE i # N + 1
    <3>1. Offsets[i] = newOffsets[i] /\ i \in 1 .. N
      BY <1>2, <2>4
    <3> HIDE DEF Offsets
    <3> QED
      BY <1>2, <2>2, <3>1
  <2> QED
    BY <2>3, <2>4
<1>4. Offsets = Follow(Offsets)
  <2>1. \A i \in 1 .. N + 1 : Follow(Offsets)[i] = Offsets[i]
    <3> HIDE DEF Offsets
    <3> QED
      BY <1>3
  <2>2. /\ DOMAIN Offsets = 1 .. N + 1
        /\ Offsets = [ i \in 1 .. N + 1 |-> Offsets[i] ]
    OBVIOUS
  <2> HIDE DEF Offsets
  <2>3. Follow(Offsets) = [ i \in 1 .. N + 1 |-> Follow(Offsets)[i] ]
    OBVIOUS
  <2> HIDE DEF Follow
  <2> QED
    BY <2>1, <2>2, <2>3
<1>5. ASSUME NEW g, g = Follow(g)
      PROVE  g = Offsets
  <2> DEFINE Wrong == { i \in 1 .. N + 1 : g[i] # Offsets[i] }
  <2> HIDE DEF Offsets
  <2>1. Wrong = {}
    <3>1. SUFFICES ASSUME Wrong # {}
                   PROVE  FALSE
      OBVIOUS
    <3>2. Wrong \in SUBSET Nat
      OBVIOUS
    <3>3. PICK n \in Wrong : \A m \in Wrong : n <= m
      <4> HIDE DEF Wrong
      <4> QED
        BY <3>1, <3>2, LeastElement
    <3>4. n \in 1 .. N + 1 /\ g[n] # Offsets[n]
      BY <3>3
    <3>5. g[n] = IF n = 1 THEN 0 ELSE g[n - 1] + pieces[n - 1].len
      BY <1>5, <3>4
    <3>6. n # 1 => g[n - 1] = Offsets[n - 1]
      <4>1. n # 1 => n - 1 \in 1 .. N + 1 /\ ~(n <= n - 1)
        BY <1>2, <3>4
      <4> QED
        BY <3>3, <4>1
    <3> QED
      BY <1>3, <3>4, <3>5, <3>6
  <2>2. DOMAIN g = 1 .. N + 1 /\ g = [ i \in 1 .. N + 1 |-> g[i] ]
    BY <1>5
  <2>3. Offsets = [ i \in 1 .. N + 1 |-> Offsets[i] ]
    BY DEF Offsets
  <2> QED
    BY <2>1, <2>2, <2>3
<1> HIDE DEF Follow, Offsets
<1>6. Places = Offsets
  BY <1>1, <1>4, <1>5
<1>7. Places[N + 1] = outOffset
  BY <1>2, <1>6 DEF Offsets
<1>8. \A i \in 1 .. N : Places[i] = newOffsets[i]
  BY <1>2, <1>6 DEF Offsets
<1> QED
  BY <1>7, <1>8 DEF N

LEMMA ReadsBackFromInvariant ==
  ASSUME IInv
  PROVE  FilteredReadsBack
<1> SUFFICES ASSUME result = "nil"
             PROVE  FilteredReadsBack
  BY DEF FilteredReadsBack
<1> DEFINE size == DirectorySize(NewRecords)
           at == Places[Len(pieces) + 1]
<1>1. TypeOK /\ Laid /\ Sealed
  BY DEF IInv
<1>2. /\ Len(newOffsets) = Len(matched) /\ Len(newOffsets) = Len(pieces)
      /\ cd = NewDirectory
  BY <1>1 DEF Laid, Sealed
<1>3. /\ cd[1].records = NewRecords /\ cd[1].size = size
      /\ cd[1].end = DirectoryEnd(Len(matched), size, outOffset)
  BY <1>2 DEF NewDirectory
<1>4. at = outOffset /\ \A i \in 1 .. Len(pieces) : Places[i] = newOffsets[i]
  BY <1>1, PlacesAreOffsets
<1> HIDE DEF size, at
<1>5. LET end == ReadDirectoryEnd(cd[1].end, at + cd[1].size)
      IN end.ok /\ end.offset = at /\ end.records = Len(pieces)
  <2>1. \A n, s, a :
          LET end == ReadDirectoryEnd(DirectoryEnd(n, s, a), a + s)
          IN end.ok /\ end.offset = a /\ end.records = n
    BY EndReadsBack
  <2>2. Len(matched) = Len(pieces) /\ cd[1].size = size
        /\ cd[1].end = DirectoryEnd(Len(pieces), size, at)
    BY <1>2, <1>3, <1>4
  <2> QED
    BY <2>1, <2>2
<1>6. ASSUME NEW i \in DOMAIN pieces
      PROVE  LET r == ReadDirectoryHeader(cd[1].records[i])
             IN /\ r.headerOffset = Places[i]
                /\ [ r EXCEPT !.headerOffset = 0 ]
                     = [ File(matched[i]) EXCEPT !.headerOffset = 0 ]
  <2>1. /\ i \in 1 .. Len(pieces) /\ i \in DOMAIN matched
        /\ matched[i] \in DOMAIN source /\ newOffsets[i] \in Nat
    BY <1>1, <1>2, Lengths
  <2>2. source \in Seq(SourceEntries)
    BY <1>1 DEF TypeOK
  <2>3. cd[1].records[i] = DirectoryHeader(Rewritten(matched[i]), newOffsets[i])
    BY <1>3, <2>1 DEF NewRecords
  <2> QED
    BY <1>4, <2>1, <2>2, <2>3, RewrittenReadsBack
<1> QED
  BY <1>5, <1>6 DEF FilteredReadsBack, at

LEMMA PreservedFromInvariant ==
  ASSUME IInv
  PROVE  ConformingPreserved
<1> SUFFICES ASSUME Consistent, Conforming, NEW i \in DOMAIN pieces
             PROVE  /\ pieces[i].from = source[matched[i]].at
                    /\ pieces[i].len = EntryLen(source[matched[i]])
  BY DEF ConformingPreserved, CopiedWhole
<1>1. TypeOK /\ Laid
  BY DEF IInv
<1>2. i \in 1 .. Len(pieces) /\ matched[i] \in DOMAIN source
  <2>1. Len(pieces) <= Len(matched)
    <3>1. Len(pieces) \in Nat /\ Len(newOffsets) \in Nat /\ Len(matched) \in Nat
      BY <1>1, Lengths
    <3>2. Len(pieces) <= Len(newOffsets)
      BY <1>1 DEF Laid
    <3>3. Len(newOffsets) <= Len(matched)
      BY <1>1 DEF TypeOK
    <3> QED
      BY <3>1, <3>2, <3>3
  <2> QED
    BY <1>1, <2>1, Lengths
<1>3. Taken(i)
  BY <1>2 DEF IInv
<1>4. source \in Seq(SourceEntries)
  BY <1>1 DEF TypeOK
<1> QED
  BY <1>2, <1>3, <1>4, EntryCopied DEF Taken

-----------------------------------------------------------------------------
(* What FilterZipStream knows of its copy while it is under way, and of    *)
(* the directory once it is written.                                       *)
THEOREM Invariant == Spec => []IInv
<1>1. Init => IInv
  BY InitHolds
<1>2. IInv /\ [Next]_vars => IInv'
  BY NextKeeps
<1> QED
  BY <1>1, <1>2, PTL DEF Spec

(* The offsets, pieces and outcome of FilterZipStream have their types.    *)
THEOREM TypeCorrect == Spec => []TypeOK
<1>1. IInv => TypeOK
  BY DEF IInv
<1> QED
  BY <1>1, Invariant, PTL

(* What the loop over the matched entries copies of each is the entry,     *)
(* from its local header to the end of its descriptor, in an archive that  *)
(* mixes entries with APPNOTE's descriptors and entries with those that    *)
(* fileWriter.Close writes: the copy infers the length rightly for both.   *)
THEOREM AlwaysPreserved == Spec => []ConformingPreserved
<1>1. IInv => ConformingPreserved
  BY PreservedFromInvariant
<1> QED
  BY <1>1, Invariant, PTL

(* Sorting by offset is enough for a source that can only be read          *)
(* forwards: the check in front of io.CopyN never fails.                   *)
THEOREM AlwaysOnePass == Spec => []OnePass
<1>1. IInv => OnePass
  BY DEF IInv
<1> QED
  BY <1>1, Invariant, PTL

(* The directory that FilterZipStream writes leads to what it copied, and  *)
(* says of each entry what the directory of the source says.               *)
THEOREM FilteredAlwaysReadsBack == Spec => []FilteredReadsBack
<1>1. IInv => FilteredReadsBack
  BY ReadsBackFromInvariant
<1> QED
  BY <1>1, Invariant, PTL
=============================================================================
