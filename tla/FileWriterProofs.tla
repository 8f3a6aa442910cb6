-------------------------- MODULE FileWriterProofs --------------------------
(***************************************************************************)
(* What the operators of FileWriter return and how they keep the books:    *)
(* facts that the proofs about Writer and DetachedWriter cite.             *)
(***************************************************************************)
EXTENDS FileWriter, MCZipFormat, TLAPS, WellFoundedInduction

USE DEF FlagBits, EncryptionMethods, Ciphers

(* A set of numbers that is not empty has a least one: what an argument   *)
(* by induction over the entries of a directory rests on here.             *)
LEMMA LeastElement ==
  ASSUME NEW S \in SUBSET Nat, S # {}
  PROVE  \E n \in S : \A m \in S : n <= m
<1> DEFINE R == { ss \in Nat \X Nat : ss[1] < ss[2] }
<1>1. IsWellFoundedOn(R, Nat)
  BY NatLessThanWellFounded DEF OpToRel
<1>2. PICK n \in S : \A m \in S : <<m, n>> \notin R
  <2> HIDE DEF R
  <2> QED
    BY <1>1, WFMin
<1>3. \A m \in S : ~(m < n)
  BY <1>2
<1> QED
  BY <1>3

(* What a compressor still holds is counted in bytes.                      *)
LEMMA TailsType ==
  ASSUME NEW fw
  PROVE  Tails(fw) \subseteq Nat
  BY DEF Tails

(* A prepared header is a header.                                          *)
LEMMA PreparedHeaderType ==
  ASSUME NEW f \in FileHeaders(Methods), NEW raw \in BOOLEAN
  PROVE  PreparedHeader(f, raw) \in FileHeaders(Methods)
<1>1. Stamped(f) \in FileHeaders(Methods)
  BY DEF Stamped, FileHeaders, zipVersion20
<1>2. ASSUME NEW g \in FileHeaders(Methods)
      PROVE  writeWinZipExtra(g) \in FileHeaders(Methods)
  <2>1. g.extra \in Extras(Methods) /\ g.method \in Methods
    BY DEF FileHeaders
  <2>2. [g.extra EXCEPT !.aes = Append(@, g.method)] \in Extras(Methods)
    <3>1. Append(g.extra.aes, g.method) \in Seq(Methods)
      BY <2>1 DEF Extras
    <3> QED
      BY <2>1, <3>1 DEF Extras
  <2>3. "AES" \in Methods
    BY DEF Methods
  <2> QED
    BY <2>2, <2>3 DEF writeWinZipExtra, FileHeaders
<1> QED
  BY <1>1, <1>2 DEF PreparedHeader

(* A new file writer is one, and has written nothing.                      *)
LEMMA NewFileWriterType ==
  ASSUME NEW h \in Headers, NEW f \in FileHeaders(Methods), NEW raw \in BOOLEAN
  PROVE  /\ NewFileWriter(h, f, raw) \in FileWriters
         /\ NewFileWriter(h, f, raw).closed = FALSE
  BY DEF NewFileWriter, FileWriters, FileHeaders, CipherOf

(* A local header has a length, whatever its header.                       *)
LEMMA LocalHeaderLenType ==
  ASSUME NEW f \in FileHeaders(Methods)
  PROVE  LocalHeaderLen(f) \in Nat \ {0}
<1>1. f.name \in Nat /\ f.extra \in Extras(Methods)
  BY DEF FileHeaders
<1>2. ExtraLen(f.extra) \in Nat
  BY <1>1 DEF Extras, ExtraLen
<1> QED
  BY <1>1, <1>2 DEF LocalHeaderLen, fileHeaderLen

(* The entry that writeHeader begins is as long as its local header.       *)
LEMMA NewBlockType ==
  ASSUME NEW f \in FileHeaders(Methods), NEW m \in Methods, NEW at \in Nat
  PROVE  /\ NewBlock(f, m, at) \in Blocks
         /\ NewBlock(f, m, at).at = at
         /\ NewBlock(f, m, at).descriptor = <<>>
         /\ BlockLen(NewBlock(f, m, at)) = LocalHeaderLen(f)
  BY LocalHeaderLenType
  DEF NewBlock, Blocks, FileHeaders, BlockLen, PayloadLen, DescriptorBytes

(* The lengths a file writer adds.                                         *)
LEMMA PartLengths ==
  ASSUME NEW fw \in FileWriters, NEW c \in Nat
  PROVE  /\ HeaderOnWrite(fw, c) \in Nat
         /\ HeaderOnClose(fw) \in Nat
         /\ AuthLen(fw) \in Nat
<1>1. fw.enc \in Ciphers /\ fw.strength \in 0 .. 3 /\ fw.first \in BOOLEAN
  BY DEF FileWriters
<1>2. CipherHeaderLen(fw) \in Nat
  <2>1. CASE fw.enc = "ZipCrypto"
    BY <2>1 DEF CipherHeaderLen, zipCryptoHeaderLen
  <2>2. CASE fw.enc = "AES"
    BY <1>1, <2>2 DEF CipherHeaderLen
  <2>3. CASE fw.enc = "None"
    BY <2>3 DEF CipherHeaderLen
  <2> QED
    BY <1>1, <2>1, <2>2, <2>3
<1> QED
  BY <1>1, <1>2 DEF HeaderOnWrite, HeaderOnClose, AuthLen, authCodeLen

(* The descriptor takes no bytes or as many as it says.                    *)
LEMMA DescriptorBytesType ==
  ASSUME NEW b \in Blocks
  PROVE  DescriptorBytes(b) \in Nat
<1>1. CASE b.descriptor = <<>>
  BY <1>1 DEF DescriptorBytes
<1>2. CASE b.descriptor # <<>>
  <2>1. b.descriptor \in Seq(Descriptors) /\ Len(b.descriptor) >= 1
    BY <1>2 DEF Blocks
  <2>2. b.descriptor[1] \in Descriptors
    BY <2>1
  <2> QED
    BY <1>2, <2>2 DEF DescriptorBytes, Descriptors
<1> QED
  BY <1>1, <1>2

(* An entry has a length, and is not empty.                                *)
LEMMA BlockLenType ==
  ASSUME NEW b \in Blocks
  PROVE  BlockLen(b) \in Nat \ {0}
<1>1. b.local \in Nat \ {0} /\ b.cipher \in Nat /\ b.data \in Nat /\ b.auth \in Nat
  BY DEF Blocks
<1>2. PayloadLen(b) \in Nat
  BY <1>1 DEF PayloadLen
<1>3. DescriptorBytes(b) \in Nat
  BY DescriptorBytesType
<1> DEFINE l == b.local
           p == PayloadLen(b)
           d == DescriptorBytes(b)
<1>4. l \in Nat /\ l # 0 /\ p \in Nat /\ d \in Nat
  BY <1>1, <1>2, <1>3
<1>5. BlockLen(b) = l + p + d
  BY DEF BlockLen
<1> HIDE DEF l, p, d
<1> QED
  BY <1>4, <1>5

(* Write: the entry grows by as many bytes as compCount.                   *)
LEMMA WrittenBooks ==
  ASSUME NEW fw \in FileWriters, NEW b \in Blocks, NEW n \in Nat, NEW c \in Nat
  PROVE  /\ Written(fw, n, c) \in FileWriters
         /\ Written(fw, n, c).closed = fw.closed
         /\ WrittenBlock(b, fw, c) \in Blocks
         /\ WrittenBlock(b, fw, c).at = b.at
         /\ WrittenBlock(b, fw, c).descriptor = b.descriptor
         /\ BlockLen(WrittenBlock(b, fw, c)) - BlockLen(b)
              = Written(fw, n, c).compCount - fw.compCount
         /\ Written(fw, n, c).compCount - fw.compCount \in Nat
<1>1. HeaderOnWrite(fw, c) \in Nat
  BY PartLengths
<1>2. StartsCipher(fw, c) \in BOOLEAN
  BY DEF StartsCipher, FileWriters, PassesThrough
<1>3. Written(fw, n, c) \in FileWriters /\ Written(fw, n, c).closed = fw.closed
  <2>1. /\ fw.compCount + HeaderOnWrite(fw, c) + c \in Nat
        /\ fw.rawCount + n \in Nat
        /\ fw.hashed + n \in Nat
        /\ (fw.first /\ ~StartsCipher(fw, c)) \in BOOLEAN
    BY <1>1, <1>2 DEF FileWriters
  <2> QED
    BY <2>1, Zenon DEF Written, FileWriters
<1>4. WrittenBlock(b, fw, c) \in Blocks
  <2>1. /\ b.cipher + HeaderOnWrite(fw, c) \in Nat
        /\ b.data + c \in Nat
    BY <1>1 DEF Blocks
  <2> QED
    BY <2>1 DEF WrittenBlock, Blocks
<1>5. Written(fw, n, c).compCount = fw.compCount + HeaderOnWrite(fw, c) + c
  BY DEF Written, FileWriters
<1>6. /\ WrittenBlock(b, fw, c).at = b.at
      /\ WrittenBlock(b, fw, c).descriptor = b.descriptor
      /\ WrittenBlock(b, fw, c).local = b.local
      /\ WrittenBlock(b, fw, c).auth = b.auth
      /\ WrittenBlock(b, fw, c).cipher = b.cipher + HeaderOnWrite(fw, c)
      /\ WrittenBlock(b, fw, c).data = b.data + c
  BY DEF WrittenBlock, Blocks
<1>7. /\ b.local \in Nat /\ b.cipher \in Nat /\ b.data \in Nat /\ b.auth \in Nat
      /\ fw.compCount \in Nat
      /\ DescriptorBytes(b) \in Nat
  BY DescriptorBytesType DEF Blocks, FileWriters
<1>8. DescriptorBytes(WrittenBlock(b, fw, c)) = DescriptorBytes(b)
  BY <1>6 DEF DescriptorBytes
<1>9. BlockLen(WrittenBlock(b, fw, c)) - BlockLen(b)
        = Written(fw, n, c).compCount - fw.compCount
  BY <1>1, <1>5, <1>6, <1>7, <1>8 DEF BlockLen, PayloadLen
<1>10. Written(fw, n, c).compCount - fw.compCount \in Nat
  BY <1>1, <1>5, <1>7
<1> QED
  BY <1>3, <1>4, <1>6, <1>9, <1>10

(* The header that Close leaves is a header, with 32 bit sizes that fit.   *)
LEMMA UpdatedHeaderType ==
  ASSUME NEW fw \in FileWriters, NEW f \in FileHeaders(Methods)
  PROVE  UpdatedHeader(f, fw) \in FileHeaders(Methods)
<1> DEFINE crc   == IF fw.enc = "AES" THEN 0
                    ELSE IF fw.raw THEN f.crc ELSE Crc(fw.hashed)
           sized == [ f EXCEPT !.csize64 = fw.compCount,
                               !.usize64 = IF fw.raw THEN @ ELSE fw.rawCount,
                               !.xxh3 = IF fw.raw THEN @ ELSE Xxh3(fw.hashed),
                               !.crc = crc ]
<1>1. /\ fw.compCount \in Nat /\ fw.rawCount \in Nat /\ fw.hashed \in Nat
      /\ f.crc \in Nat /\ f.xxh3 \in Nat /\ f.usize64 \in Nat
  BY DEF FileWriters, FileHeaders
<1>2. crc \in Nat /\ Xxh3(fw.hashed) \in Nat
  BY <1>1 DEF Crc, Xxh3
<1>3. sized \in FileHeaders(Methods)
  <2> HIDE DEF crc
  <2> QED
    BY <1>1, <1>2, Zenon DEF FileHeaders
<1>4. sized.csize64 \in Nat /\ sized.usize64 \in Nat
  BY <1>3 DEF FileHeaders
<1> HIDE DEF sized
<1>5. CASE isZip64(sized)
  <2>1. UpdatedHeader(f, fw)
          = [ sized EXCEPT !.csize = uint32max, !.usize = uint32max,
                           !.version = zipVersion45 ]
    BY <1>5 DEF UpdatedHeader, sized
  <2>2. uint32max \in 0 .. uint32max
    BY WidthAssumption
  <2> QED
    BY <1>3, <2>1, <2>2, Zenon DEF FileHeaders
<1>6. CASE ~isZip64(sized)
  <2>1. UpdatedHeader(f, fw)
          = [ sized EXCEPT !.csize = sized.csize64, !.usize = sized.usize64 ]
    BY <1>6 DEF UpdatedHeader, sized
  <2>2. sized.csize64 \in 0 .. uint32max /\ sized.usize64 \in 0 .. uint32max
    BY <1>4, <1>6, WidthAssumption DEF isZip64
  <2> QED
    BY <1>3, <2>1, <2>2, Zenon DEF FileHeaders
<1> QED
  BY <1>5, <1>6

(* A descriptor has a length, 12 bytes at least.                           *)
LEMMA DescriptorType ==
  ASSUME NEW fw \in FileWriters, NEW f \in FileHeaders(Methods)
  PROVE  Descriptor(f, fw) \in Descriptors
  BY DEF Descriptor, Descriptors, FileHeaders, dataDescriptorLen,
         dataDescriptor64Len

(* Close: the entry grows by as many bytes as compCount, and by its        *)
(* descriptor.                                                             *)
LEMMA FinishedBooks ==
  ASSUME NEW fw \in FileWriters, NEW b \in Blocks,
         NEW f \in FileHeaders(Methods), NEW d \in Nat,
         b.descriptor = <<>>
  PROVE  /\ Finished(fw, d) \in FileWriters
         /\ Finished(fw, d).closed = TRUE
         /\ FinishedBlock(b, fw, f, d) \in Blocks
         /\ FinishedBlock(b, fw, f, d).at = b.at
         /\ BlockLen(FinishedBlock(b, fw, f, d)) - BlockLen(b)
              = Finished(fw, d).compCount - fw.compCount + Descriptor(f, fw).len
         /\ Finished(fw, d).compCount - fw.compCount + Descriptor(f, fw).len \in Nat
<1>1. HeaderOnClose(fw) \in Nat /\ AuthLen(fw) \in Nat
  BY PartLengths
<1>2. Descriptor(f, fw) \in Descriptors /\ Descriptor(f, fw).len \in Nat
  BY DescriptorType DEF Descriptors
<1>3. /\ b.local \in Nat /\ b.cipher \in Nat /\ b.data \in Nat /\ b.auth \in Nat
      /\ fw.compCount \in Nat
  BY DEF Blocks, FileWriters
<1>4. Finished(fw, d) \in FileWriters /\ Finished(fw, d).closed = TRUE
  <2>1. fw.compCount + HeaderOnClose(fw) + d + AuthLen(fw) \in Nat
    BY <1>1, <1>3
  <2> QED
    BY <2>1, Zenon DEF Finished, FileWriters
<1>5. FinishedBlock(b, fw, f, d) \in Blocks
  <2>1. /\ b.cipher + HeaderOnClose(fw) \in Nat
        /\ b.data + d \in Nat
        /\ b.auth + AuthLen(fw) \in Nat
    BY <1>1, <1>3
  <2>2. <<Descriptor(f, fw)>> \in Seq(Descriptors)
    BY <1>2
  <2> QED
    BY <2>1, <2>2 DEF FinishedBlock, Blocks
<1>6. Finished(fw, d).compCount = fw.compCount + HeaderOnClose(fw) + d + AuthLen(fw)
  BY DEF Finished, FileWriters
<1>7. /\ FinishedBlock(b, fw, f, d).at = b.at
      /\ FinishedBlock(b, fw, f, d).local = b.local
      /\ FinishedBlock(b, fw, f, d).cipher = b.cipher + HeaderOnClose(fw)
      /\ FinishedBlock(b, fw, f, d).data = b.data + d
      /\ FinishedBlock(b, fw, f, d).auth = b.auth + AuthLen(fw)
      /\ FinishedBlock(b, fw, f, d).descriptor = <<Descriptor(f, fw)>>
  BY DEF FinishedBlock, Blocks
<1>8. DescriptorBytes(b) = 0
  BY DEF DescriptorBytes
<1>9. DescriptorBytes(FinishedBlock(b, fw, f, d)) = Descriptor(f, fw).len
  <2>1. <<Descriptor(f, fw)>> # <<>> /\ <<Descriptor(f, fw)>>[1] = Descriptor(f, fw)
    OBVIOUS
  <2> QED
    BY <1>7, <2>1 DEF DescriptorBytes
<1>10. BlockLen(FinishedBlock(b, fw, f, d)) - BlockLen(b)
         = Finished(fw, d).compCount - fw.compCount + Descriptor(f, fw).len
  <2> DEFINE H == HeaderOnClose(fw)
             A == AuthLen(fw)
             D == Descriptor(f, fw).len
             B == FinishedBlock(b, fw, f, d)
             C == Finished(fw, d).compCount
  <2>1. BlockLen(b) = b.local + (b.cipher + b.data + b.auth) + 0
    BY <1>8 DEF BlockLen, PayloadLen
  <2>2. BlockLen(B) = b.local + ((b.cipher + H) + (b.data + d) + (b.auth + A)) + D
    BY <1>7, <1>9 DEF BlockLen, PayloadLen
  <2>3. C = fw.compCount + H + d + A
    BY <1>6
  <2>4. H \in Nat /\ A \in Nat /\ D \in Nat
    BY <1>1, <1>2
  <2> HIDE DEF H, A, D, B, C
  <2> DEFINE N == H + d + A
  <2>5. N \in Nat /\ C = fw.compCount + N
    BY <1>3, <2>3, <2>4
  <2>6. BlockLen(b) \in Nat /\ BlockLen(B) = BlockLen(b) + N + D
    <3> DEFINE P == b.cipher + b.data + b.auth
    <3>1. (b.cipher + H) + (b.data + d) + (b.auth + A) = P + N
      BY <1>3, <2>4
    <3>2. P \in Nat
      BY <1>3
    <3>3. BlockLen(b) = b.local + P /\ BlockLen(B) = b.local + (P + N) + D
      BY <1>3, <2>1, <2>2, <3>1, <3>2
    <3> HIDE DEF P, N
    <3> QED
      BY <1>3, <2>4, <2>5, <3>2, <3>3
  <2> HIDE DEF N
  <2>7. BlockLen(B) - BlockLen(b) = C - fw.compCount + D
    BY <1>3, <2>4, <2>5, <2>6
  <2> QED
    BY <2>7 DEF B, C, D
<1>11. Finished(fw, d).compCount - fw.compCount + Descriptor(f, fw).len \in Nat
  BY <1>1, <1>2, <1>3, <1>6
<1> QED
  BY <1>4, <1>5, <1>7, <1>10, <1>11

(* A failed Close of the compressor: the same, without a descriptor.       *)
LEMMA AbandonedBooks ==
  ASSUME NEW fw \in FileWriters, NEW d \in Nat
  PROVE  /\ Abandoned(fw, d) \in FileWriters
         /\ Abandoned(fw, d).closed = TRUE
         /\ Abandoned(fw, d).compCount = Written(fw, 0, d).compCount
<1>1. /\ HeaderOnWrite(fw, d) \in Nat
      /\ StartsCipher(fw, d) \in BOOLEAN
      /\ fw.first \in BOOLEAN /\ fw.compCount \in Nat
  BY PartLengths DEF StartsCipher, PassesThrough, FileWriters
<1>2. /\ fw.compCount + HeaderOnWrite(fw, d) + d \in Nat
      /\ (fw.first /\ ~StartsCipher(fw, d)) \in BOOLEAN
  BY <1>1
<1>3. Abandoned(fw, d) \in FileWriters /\ Abandoned(fw, d).closed = TRUE
  BY <1>2, Zenon DEF Abandoned, FileWriters
<1>4. Abandoned(fw, d).compCount = Written(fw, 0, d).compCount
  BY DEF Abandoned, Written, FileWriters
<1> QED
  BY <1>3, <1>4

(* What is left when the writer below refuses to take more: the counters   *)
(* stay numbers, and what has arrived is added to the payload.             *)
LEMMA ShortBooks ==
  ASSUME NEW fw \in FileWriters, NEW b \in Blocks,
         NEW n \in Nat, NEW h \in Nat, NEW a \in Nat
  PROVE  /\ WrittenShort(fw, n, h, a) \in FileWriters
         /\ FinishedShort(fw, a) \in FileWriters
         /\ ArrivedBlock(b, h, a) \in Blocks
         /\ PayloadLen(b) \in Nat
         /\ PayloadLen(ArrivedBlock(b, h, a)) = PayloadLen(b) + a
<1>1. /\ fw.first \in BOOLEAN /\ fw.raw \in BOOLEAN
      /\ fw.compCount \in Nat /\ fw.rawCount \in Nat /\ fw.hashed \in Nat
  BY DEF FileWriters
<1> DEFINE first  == fw.first /\ (h = 0 \/ (fw.enc = "AES" /\ a < h))
           hashed == IF fw.raw THEN fw.hashed ELSE fw.hashed + n
           raw    == fw.rawCount + (IF PassesThrough(fw) /\ a > h THEN a - h ELSE 0)
           count  == fw.compCount + a
<1>2. first \in BOOLEAN
  BY <1>1, Zenon
<1>3. hashed \in Nat /\ raw \in Nat /\ count \in Nat
  BY <1>1
<1>4. WrittenShort(fw, n, h, a)
        = [ fw EXCEPT !.first = first, !.hashed = hashed, !.rawCount = raw,
                      !.compCount = count ]
  BY Zenon DEF WrittenShort
<1>5. FinishedShort(fw, a)
        = [ fw EXCEPT !.first = FALSE, !.closed = TRUE, !.compCount = count ]
  BY Zenon DEF FinishedShort
<1> HIDE DEF first, hashed, raw, count
<1>6. WrittenShort(fw, n, h, a) \in FileWriters
  BY <1>2, <1>3, <1>4, Zenon DEF FileWriters
<1>7. FinishedShort(fw, a) \in FileWriters
  BY <1>3, <1>5, Zenon DEF FileWriters
<1> DEFINE c == IF a < h THEN a ELSE h
<1>8. c \in Nat /\ a - c \in Nat
  OBVIOUS
<1>9. ArrivedBlock(b, h, a)
        = [ b EXCEPT !.cipher = b.cipher + c, !.data = b.data + (a - c) ]
  BY DEF ArrivedBlock
<1> HIDE DEF c
<1>10. b.cipher \in Nat /\ b.data \in Nat /\ b.auth \in Nat
  BY DEF Blocks
<1>11. ArrivedBlock(b, h, a) \in Blocks
  <2> DEFINE cipher == b.cipher + c
             data   == b.data + (a - c)
  <2>1. cipher \in Nat /\ data \in Nat
    BY <1>8, <1>10
  <2>2. ArrivedBlock(b, h, a) = [ b EXCEPT !.cipher = cipher, !.data = data ]
    BY <1>9
  <2> HIDE DEF cipher, data
  <2> QED
    BY <2>1, <2>2, Zenon DEF Blocks
<1>12. /\ ArrivedBlock(b, h, a).cipher = b.cipher + c
       /\ ArrivedBlock(b, h, a).data = b.data + (a - c)
       /\ ArrivedBlock(b, h, a).auth = b.auth
  BY <1>9 DEF Blocks
<1>13. PayloadLen(b) \in Nat
         /\ PayloadLen(ArrivedBlock(b, h, a)) = PayloadLen(b) + a
  BY <1>8, <1>10, <1>12 DEF PayloadLen
<1> QED
  BY <1>6, <1>7, <1>11, <1>13

(* Without its descriptor an entry is still one, with the same payload.    *)
LEMMA UndescribedBlock ==
  ASSUME NEW b \in Blocks
  PROVE  LET e == [ b EXCEPT !.descriptor = <<>> ]
         IN e \in Blocks /\ PayloadLen(e) = PayloadLen(b)
<1>1. <<>> \in Seq(Descriptors)
  OBVIOUS
<1> QED
  BY <1>1 DEF Blocks, PayloadLen

-----------------------------------------------------------------------------
(* The directory record of a header that Close has updated.                *)

LEMMA UpdatedSettled ==
  ASSUME NEW fw \in FileWriters, NEW f \in FileHeaders(Methods)
  PROVE  LET g == UpdatedHeader(f, fw)
         IN /\ SizesSettled(g)
            /\ g.csize64 = fw.compCount
            /\ g.flags = f.flags /\ g.extra = f.extra /\ g.method = f.method
            /\ g.password = f.password /\ g.encryption = f.encryption
<1> DEFINE crc   == IF fw.enc = "AES" THEN 0
                    ELSE IF fw.raw THEN f.crc ELSE Crc(fw.hashed)
           sized == [ f EXCEPT !.csize64 = fw.compCount,
                               !.usize64 = IF fw.raw THEN @ ELSE fw.rawCount,
                               !.xxh3 = IF fw.raw THEN @ ELSE Xxh3(fw.hashed),
                               !.crc = crc ]
           g     == UpdatedHeader(f, fw)
           zip   == [ sized EXCEPT !.csize = uint32max, !.usize = uint32max,
                                   !.version = zipVersion45 ]
           plain == [ sized EXCEPT !.csize = sized.csize64,
                                   !.usize = sized.usize64 ]
<1>1. /\ DOMAIN sized = DOMAIN f
      /\ sized.csize64 = fw.compCount
      /\ sized.flags = f.flags /\ sized.extra = f.extra
      /\ sized.method = f.method /\ sized.password = f.password
      /\ sized.encryption = f.encryption
      /\ DOMAIN f = { "name", "comment", "extra", "version", "flags", "method",
                      "level", "crc", "xxh3", "csize", "usize", "csize64",
                      "usize64", "encryption", "password", "aesStrength" }
  <2> HIDE DEF crc
  <2> QED
    BY DEF FileHeaders
<1>2. g = IF isZip64(sized) THEN zip ELSE plain
  BY DEF UpdatedHeader
<1> HIDE DEF sized, g
<1>3. /\ zip.csize64 = sized.csize64 /\ zip.usize64 = sized.usize64
      /\ zip.flags = f.flags /\ zip.extra = f.extra
      /\ zip.method = f.method /\ zip.password = f.password
      /\ zip.encryption = f.encryption
  BY <1>1
<1>4. /\ plain.csize64 = sized.csize64 /\ plain.usize64 = sized.usize64
      /\ plain.csize = sized.csize64 /\ plain.usize = sized.usize64
      /\ plain.flags = f.flags /\ plain.extra = f.extra
      /\ plain.method = f.method /\ plain.password = f.password
      /\ plain.encryption = f.encryption
  BY <1>1
<1> HIDE DEF zip, plain
<1>5. isZip64(g) <=> isZip64(sized)
  BY <1>2, <1>3, <1>4 DEF isZip64
<1>6. SizesSettled(g)
  BY <1>2, <1>4, <1>5 DEF SizesSettled
<1>7. /\ g.csize64 = fw.compCount
      /\ g.flags = f.flags /\ g.extra = f.extra /\ g.method = f.method
      /\ g.password = f.password /\ g.encryption = f.encryption
  BY <1>1, <1>2, <1>3, <1>4
<1> QED
  BY <1>6, <1>7 DEF g

(* What readDirectoryHeader makes of the record that writeDirectoryHeader  *)
(* makes of such a header: the sizes and the offset, whichever of the 32   *)
(* bit fields and the zip64 field they went through, also at the limit.    *)
LEMMA FieldsReadBack ==
  ASSUME NEW f, f.extra \in Extras(Methods), f.csize64 \in Nat, f.usize64 \in Nat,
         NEW o \in Nat, SizesSettled(f), f.extra.zip64 = <<>>
  PROVE  LET r == ReadDirectoryHeader(DirectoryHeader(f, o))
         IN /\ r.flags = f.flags /\ r.crc = f.crc
            /\ r.csize64 = f.csize64 /\ r.usize64 = f.usize64
            /\ r.headerOffset = o
            /\ f.extra.xxh3 = <<>> => r.xxh3 = f.xxh3
            /\ r.ae = IF f.extra.aes = <<>> THEN 0 ELSE 2
            /\ r.method = IF f.extra.aes = <<>> THEN f.method
                          ELSE f.extra.aes[Len(f.extra.aes)]
<1> DEFINE rec == DirectoryHeader(f, o)
           r   == ReadDirectoryHeader(rec)
           z   == rec.extra.zip64
           nU  == IF rec.usize = uint32max THEN 1 ELSE 0
           nC  == nU + (IF rec.csize = uint32max THEN 1 ELSE 0)
           Offs == { i \in 1 .. Len(z) : z[i][nC + 1] # uint32max }
<1>1. /\ rec.flags = f.flags /\ rec.crc = f.crc /\ rec.method = f.method
      /\ rec.extra = DirectoryExtra(f, o)
      /\ rec.csize = (IF NeedsZip64(f, o) THEN uint32max ELSE f.csize)
      /\ rec.usize = (IF NeedsZip64(f, o) THEN uint32max ELSE f.usize)
      /\ rec.offset = (IF o >= uint32max THEN uint32max ELSE o)
  BY DEF DirectoryHeader
<1>2. uint32max \in Nat
  BY WidthAssumption
<1>3. /\ rec.extra.aes = f.extra.aes
      /\ rec.extra.zip64 = IF NeedsZip64(f, o)
                           THEN Append(f.extra.zip64, <<f.usize64, f.csize64, o>>)
                           ELSE f.extra.zip64
      /\ rec.extra.xxh3 = IF f.xxh3 # 0 THEN Append(f.extra.xxh3, f.xxh3)
                          ELSE f.extra.xxh3
  BY <1>1 DEF DirectoryExtra, Extras
<1>4. /\ r.flags = rec.flags /\ r.crc = rec.crc
      /\ r.usize64 = (IF z # <<>> /\ nU = 1 THEN z[Len(z)][1] ELSE rec.usize)
      /\ r.csize64 = (IF z # <<>> /\ nC > nU THEN z[Len(z)][nC] ELSE rec.csize)
      /\ r.headerOffset = (IF rec.offset = uint32max /\ Offs # {}
                           THEN z[Least(Offs)][nC + 1] ELSE rec.offset)
      /\ r.method = IF rec.extra.aes = <<>> THEN rec.method
                    ELSE rec.extra.aes[Len(rec.extra.aes)]
      /\ r.ae = IF rec.extra.aes = <<>> THEN 0 ELSE 2
      /\ r.xxh3 = IF rec.extra.xxh3 = <<>> THEN 0
                  ELSE rec.extra.xxh3[Len(rec.extra.xxh3)]
  BY SMTT(30) DEF ReadDirectoryHeader
<1> HIDE DEF rec, r
<1>7. f.extra.xxh3 = <<>> => r.xxh3 = f.xxh3
  <2>1. ASSUME f.extra.xxh3 = <<>>
        PROVE  rec.extra.xxh3 = IF f.xxh3 # 0 THEN <<f.xxh3>> ELSE <<>>
    BY <1>3, <2>1
  <2>2. Len(<<f.xxh3>>) = 1 /\ <<f.xxh3>> # <<>> /\ <<f.xxh3>>[1] = f.xxh3
    OBVIOUS
  <2> QED
    BY <1>4, <2>1, <2>2
<1>5. CASE NeedsZip64(f, o)
  <2>1. z = << <<f.usize64, f.csize64, o>> >>
    BY <1>3, <1>5
  <2>2. nU = 1 /\ nC = 2
    BY <1>1, <1>5
  <2>3. /\ z # <<>> /\ Len(z) = 1 /\ z[1][1] = f.usize64
        /\ z[1][2] = f.csize64 /\ z[1][3] = o
    BY <2>1
  <2>4. Offs = IF o = uint32max THEN {} ELSE {1}
    BY <2>2, <2>3
  <2>5. Least({1}) = 1
    BY DEF Least
  <2> HIDE DEF z, nU, nC, Offs
  <2>6. r.usize64 = f.usize64 /\ r.csize64 = f.csize64
    BY <1>4, <2>2, <2>3
  <2>7. r.headerOffset = o
    <3>1. CASE o = uint32max
      BY <1>1, <1>4, <2>4, <3>1
    <3>2. CASE o # uint32max
      BY <1>1, <1>2, <1>4, <2>2, <2>3, <2>4, <2>5, <3>2
    <3> QED
      BY <3>1, <3>2
  <2> QED
    BY <1>1, <1>3, <1>4, <1>7, <2>6, <2>7 DEF r, rec
<1>6. CASE ~NeedsZip64(f, o)
  <2>1. z = <<>> /\ Offs = {}
    BY <1>3, <1>6
  <2>2. rec.csize = f.csize64 /\ rec.usize = f.usize64 /\ rec.offset = o
    BY <1>1, <1>2, <1>6 DEF NeedsZip64, SizesSettled
  <2> HIDE DEF z, nU, nC, Offs
  <2>3. r.usize64 = f.usize64 /\ r.csize64 = f.csize64 /\ r.headerOffset = o
    BY <1>4, <2>1, <2>2
  <2> QED
    BY <1>1, <1>3, <1>4, <1>7, <2>3 DEF r, rec
<1> QED
  BY <1>5, <1>6

LEMMA RecordReadsBack ==
  ASSUME NEW f \in FileHeaders(Methods), NEW o \in Nat, SizesSettled(f),
         f.extra.zip64 = <<>>
  PROVE  LET r == ReadDirectoryHeader(DirectoryHeader(f, o))
         IN /\ r.flags = f.flags /\ r.crc = f.crc
            /\ r.csize64 = f.csize64 /\ r.usize64 = f.usize64
            /\ r.headerOffset = o
            /\ r.method = IF f.extra.aes = <<>> THEN f.method
                          ELSE f.extra.aes[Len(f.extra.aes)]
<1>1. f.extra \in Extras(Methods) /\ f.csize64 \in Nat /\ f.usize64 \in Nat
  BY DEF FileHeaders
<1> QED
  BY <1>1, FieldsReadBack

-----------------------------------------------------------------------------
(* The bytes of an entry while it is written, and its header once it is    *)
(* finished: what the invariants of Writer and of DetachedWriter say of one *)
(* entry.                                                                  *)

(* The entry b of header f is framed as its cipher asks: Framed, of one.   *)
HeaderLenOf(f) ==
  CASE CipherOf(f) = "ZipCrypto" -> zipCryptoHeaderLen
    [] CipherOf(f) = "AES" -> 4 * (f.aesStrength + 1) + 2
    [] OTHER -> 0

FramedAt(b, f) ==
  /\ b.cipher \in {0, HeaderLenOf(f)}
  /\ b.data > 0 \/ b.descriptor # <<>> => b.cipher = HeaderLenOf(f)
  /\ b.descriptor # <<>> =>
       b.auth = IF CipherOf(f) = "AES" THEN authCodeLen ELSE 0

(* The file writer fw, of header f, has yet to write the header of its     *)
(* cipher to b, or has written it; the authentication code is to come.     *)
Writing(fw, b, f) ==
  /\ fw.enc = CipherOf(f) /\ fw.strength = f.aesStrength
  /\ b.auth = 0
  /\ fw.first => b.cipher = 0 /\ b.data = 0
  /\ ~fw.first => b.cipher = CipherHeaderLen(fw)

(* What no step of an entry changes in its header.                         *)
LEMMA PreparedKeeps ==
  ASSUME NEW f \in FileHeaders(Methods), NEW raw \in BOOLEAN
  PROVE  LET g == PreparedHeader(f, raw)
         IN CipherOf(g) = CipherOf(f) /\ g.aesStrength = f.aesStrength
<1>1. Stamped(f) = [ f EXCEPT !.flags = @ \cup {"descriptor"},
                              !.version = zipVersion20 ]
  BY DEF Stamped
<1>2. /\ Stamped(f).password = f.password
      /\ Stamped(f).encryption = f.encryption
      /\ Stamped(f).aesStrength = f.aesStrength
  BY <1>1 DEF FileHeaders
<1>3. ASSUME NEW g
      PROVE  LET e == [ g EXCEPT !.extra.aes = Append(@, g.method), !.method = "AES" ]
             IN  "password" \in DOMAIN g /\ "encryption" \in DOMAIN g
                   /\ "aesStrength" \in DOMAIN g =>
                   /\ e.password = g.password /\ e.encryption = g.encryption
                   /\ e.aesStrength = g.aesStrength
  OBVIOUS
<1>4. /\ "password" \in DOMAIN Stamped(f) /\ "encryption" \in DOMAIN Stamped(f)
      /\ "aesStrength" \in DOMAIN Stamped(f)
  BY <1>1 DEF FileHeaders
<1>5. LET g == PreparedHeader(f, raw)
      IN /\ g.password = f.password /\ g.encryption = f.encryption
         /\ g.aesStrength = f.aesStrength
  BY <1>2, <1>3, <1>4 DEF PreparedHeader, writeWinZipExtra
<1> QED
  BY <1>5 DEF CipherOf, writesAES

LEMMA UpdatedKeeps ==
  ASSUME NEW fw \in FileWriters, NEW f \in FileHeaders(Methods)
  PROVE  LET g == UpdatedHeader(f, fw)
         IN CipherOf(g) = CipherOf(f) /\ g.aesStrength = f.aesStrength
<1> DEFINE crc   == IF fw.enc = "AES" THEN 0
                    ELSE IF fw.raw THEN f.crc ELSE Crc(fw.hashed)
           sized == [ f EXCEPT !.csize64 = fw.compCount,
                               !.usize64 = IF fw.raw THEN @ ELSE fw.rawCount,
                               !.xxh3 = IF fw.raw THEN @ ELSE Xxh3(fw.hashed),
                               !.crc = crc ]
<1>1. /\ sized.password = f.password /\ sized.encryption = f.encryption
      /\ sized.aesStrength = f.aesStrength
      /\ "password" \in DOMAIN sized /\ "encryption" \in DOMAIN sized
      /\ "aesStrength" \in DOMAIN sized
  <2> HIDE DEF crc
  <2> QED
    BY DEF FileHeaders
<1>2. UpdatedHeader(f, fw) =
        IF isZip64(sized)
        THEN [ sized EXCEPT !.csize = uint32max, !.usize = uint32max,
                            !.version = zipVersion45 ]
        ELSE [ sized EXCEPT !.csize = sized.csize64, !.usize = sized.usize64 ]
  BY DEF UpdatedHeader
<1> HIDE DEF sized
<1>3. LET g == UpdatedHeader(f, fw)
      IN /\ g.password = f.password /\ g.encryption = f.encryption
         /\ g.aesStrength = f.aesStrength
  BY <1>1, <1>2
<1> QED
  BY <1>3 DEF CipherOf, writesAES

(* The same header length, from the header and from its file writer.       *)
LEMMA SameLength ==
  ASSUME NEW fw, NEW f, fw.enc = CipherOf(f), fw.strength = f.aesStrength
  PROVE  CipherHeaderLen(fw) = HeaderLenOf(f)
BY DEF CipherHeaderLen, HeaderLenOf

LEMMA WritingIsFramed ==
  ASSUME NEW fw \in FileWriters, NEW b \in Blocks, NEW f, Writing(fw, b, f),
         b.descriptor = <<>>
  PROVE  FramedAt(b, f)
<1>1. CipherHeaderLen(fw) = HeaderLenOf(f)
  BY SameLength DEF Writing
<1>2. fw.first \in BOOLEAN
  BY DEF FileWriters
<1>3. CASE fw.first
  BY <1>3 DEF Writing, FramedAt
<1>4. CASE ~fw.first
  BY <1>1, <1>4 DEF Writing, FramedAt
<1> QED
  BY <1>2, <1>3, <1>4

LEMMA NewWriting ==
  ASSUME NEW f \in FileHeaders(Methods), NEW raw \in BOOLEAN, NEW h, NEW m, NEW at
  PROVE  Writing(NewFileWriter(h, f, raw),
                 NewBlock(PreparedHeader(f, raw), m, at), PreparedHeader(f, raw))
<1> DEFINE fw == NewFileWriter(h, f, raw)
           b  == NewBlock(PreparedHeader(f, raw), m, at)
<1>1. /\ fw.enc = CipherOf(f) /\ fw.strength = f.aesStrength
      /\ fw.first = f.password
      /\ b.auth = 0 /\ b.cipher = 0 /\ b.data = 0
  BY DEF NewFileWriter, NewBlock
<1>2. ~fw.first => CipherHeaderLen(fw) = 0
  BY <1>1 DEF CipherOf, CipherHeaderLen
<1> HIDE DEF fw, b
<1>3. Writing(fw, b, PreparedHeader(f, raw))
  BY <1>1, <1>2, PreparedKeeps DEF Writing
<1> QED
  BY <1>3 DEF fw, b

LEMMA WriteFrames ==
  ASSUME NEW fw \in FileWriters, NEW b \in Blocks, NEW f, Writing(fw, b, f),
         NEW n \in Nat, NEW c \in Nat
  PROVE  Writing(Written(fw, n, c), WrittenBlock(b, fw, c), f)
<1> DEFINE w == Written(fw, n, c)
           e == WrittenBlock(b, fw, c)
<1>1. /\ w.enc = fw.enc /\ w.strength = fw.strength
      /\ w.first = (fw.first /\ ~StartsCipher(fw, c))
      /\ e.auth = b.auth
      /\ e.cipher = b.cipher + HeaderOnWrite(fw, c)
      /\ e.data = b.data + c
  BY DEF Written, WrittenBlock, FileWriters, Blocks
<1>2. CipherHeaderLen(w) = CipherHeaderLen(fw) /\ CipherHeaderLen(fw) \in Nat
  BY <1>1 DEF CipherHeaderLen, FileWriters, zipCryptoHeaderLen
<1>3. b.cipher \in Nat /\ b.data \in Nat /\ fw.first \in BOOLEAN
  BY DEF Blocks, FileWriters
<1> SUFFICES Writing(w, e, f)
  OBVIOUS
<1> HIDE DEF w, e
<1>4. CASE ~fw.first
  <2>1. ~StartsCipher(fw, c) /\ ~w.first
    BY <1>1, <1>4 DEF StartsCipher
  <2>2. e.cipher = b.cipher
    BY <1>1, <1>3, <2>1 DEF HeaderOnWrite
  <2> QED
    BY <1>1, <1>2, <1>4, <2>1, <2>2 DEF Writing
<1>5. CASE fw.first /\ StartsCipher(fw, c)
  <2>1. ~w.first
    BY <1>1, <1>5
  <2>2. e.cipher = CipherHeaderLen(fw)
    BY <1>1, <1>2, <1>5 DEF HeaderOnWrite, Writing
  <2> QED
    BY <1>1, <1>2, <2>1, <2>2 DEF Writing
<1>6. CASE fw.first /\ ~StartsCipher(fw, c)
  <2>1. w.first
    BY <1>1, <1>6
  <2>2. c = 0
    BY <1>6 DEF StartsCipher
  <2>3. e.cipher = 0 /\ e.data = 0
    BY <1>1, <1>6, <2>2 DEF HeaderOnWrite, Writing
  <2> QED
    BY <1>1, <2>1, <2>3 DEF Writing
<1> QED
  BY <1>3, <1>4, <1>5, <1>6

LEMMA FinishFrames ==
  ASSUME NEW fw \in FileWriters, NEW b \in Blocks, NEW f, Writing(fw, b, f),
         NEW g, CipherOf(g) = CipherOf(f), g.aesStrength = f.aesStrength,
         NEW d \in Nat
  PROVE  FramedAt(FinishedBlock(b, fw, g, d), g)
<1> DEFINE e == FinishedBlock(b, fw, g, d)
<1>1. /\ e.cipher = b.cipher + HeaderOnClose(fw)
      /\ e.auth = b.auth + AuthLen(fw)
      /\ b.cipher \in Nat
  BY DEF FinishedBlock, Blocks
<1>2. CipherHeaderLen(fw) = HeaderLenOf(g)
  BY SameLength DEF Writing
<1>3. CipherHeaderLen(fw) \in Nat /\ AuthLen(fw) \in Nat /\ fw.first \in BOOLEAN
  BY DEF CipherHeaderLen, FileWriters, zipCryptoHeaderLen, AuthLen, authCodeLen
<1> HIDE DEF e
<1>4. e.cipher = HeaderLenOf(g)
  <2>1. CASE fw.first
    BY <1>1, <1>2, <1>3, <2>1 DEF HeaderOnClose, Writing
  <2>2. CASE ~fw.first
    BY <1>1, <1>2, <1>3, <2>2 DEF HeaderOnClose, Writing
  <2> QED
    BY <1>3, <2>1, <2>2
<1>5. e.auth = IF CipherOf(g) = "AES" THEN authCodeLen ELSE 0
  BY <1>1, <1>3 DEF Writing, AuthLen, authCodeLen
<1>6. FramedAt(e, g)
  BY <1>4, <1>5 DEF FramedAt
<1> QED
  BY <1>6 DEF e

LEMMA GrowingBlock ==
  ASSUME NEW b \in Blocks, NEW fw \in FileWriters, NEW f, NEW d \in Nat
  PROVE  /\ PayloadLen(b) \in Nat
         /\ PayloadLen(WrittenBlock(b, fw, d)) \in Nat
         /\ PayloadLen(FinishedBlock(b, fw, f, d)) \in Nat
         /\ PayloadLen(WrittenBlock(b, fw, d)) >= PayloadLen(b)
         /\ PayloadLen(FinishedBlock(b, fw, f, d)) >= PayloadLen(b)
<1> DEFINE w == WrittenBlock(b, fw, d)
           e == FinishedBlock(b, fw, f, d)
           H == HeaderOnWrite(fw, d)
           K == HeaderOnClose(fw)
           A == AuthLen(fw)
<1>1. /\ w.cipher = b.cipher + H /\ w.data = b.data + d /\ w.auth = b.auth
      /\ e.cipher = b.cipher + K /\ e.data = b.data + d /\ e.auth = b.auth + A
  BY DEF WrittenBlock, FinishedBlock, Blocks
<1>2. /\ H \in Nat /\ K \in Nat /\ A \in Nat
      /\ b.cipher \in Nat /\ b.data \in Nat /\ b.auth \in Nat
  BY PartLengths DEF Blocks
<1> HIDE DEF w, e, H, K, A
<1>3. /\ PayloadLen(b) \in Nat /\ PayloadLen(w) \in Nat /\ PayloadLen(e) \in Nat
      /\ PayloadLen(w) >= PayloadLen(b) /\ PayloadLen(e) >= PayloadLen(b)
  BY <1>1, <1>2 DEF PayloadLen
<1> QED
  BY <1>3 DEF w, e

MethodOf(f) ==
  IF f.extra.aes = <<>> THEN f.method ELSE f.extra.aes[Len(f.extra.aes)]

(* The header f says of its entry b what is true of it, sizes and checksum *)
(* once the entry is finished.                                             *)
RecordedAt(b, f) ==
  /\ b.flags = f.flags
  /\ b.packed = MethodOf(f)
  /\ b.descriptor # <<>> =>
       /\ SizesSettled(f)
       /\ f.csize64 = PayloadLen(b)
       /\ b.descriptor[1].crc = f.crc
       /\ b.descriptor[1].csize = f.csize64
       /\ b.descriptor[1].usize = f.usize64

LEMMA PreparedClean ==
  ASSUME NEW f \in FileHeaders(Methods), NEW raw \in BOOLEAN, CleanHeader(f)
  PROVE  LET g == PreparedHeader(f, raw)
         IN CleanHeader(g) /\ (HasCompressor(f, raw) => MethodOf(g) = f.method)
<1> DEFINE s == Stamped(f)
           e == [ s EXCEPT !.extra.aes = Append(@, s.method), !.method = "AES" ]
           g == PreparedHeader(f, raw)
<1>1. s = [ f EXCEPT !.flags = @ \cup {"descriptor"}, !.version = zipVersion20 ]
  BY DEF Stamped
<1>2. /\ s.extra = f.extra /\ s.method = f.method /\ s.password = f.password
      /\ s.encryption = f.encryption
      /\ s.flags = f.flags \cup {"descriptor"}
      /\ {"extra", "method", "password", "encryption", "flags"} \subseteq DOMAIN s
  BY <1>1 DEF FileHeaders
<1>3. f.extra \in Extras(Methods) /\ f.method \in Methods
  BY DEF FileHeaders
<1>4. f.extra.aes \in Seq(Methods)
  BY <1>3 DEF Extras
<1>5. CleanHeader(s)
  BY <1>2 DEF CleanHeader, writesAES
<1> HIDE DEF s
<1>6. /\ e.extra.zip64 = f.extra.zip64
      /\ e.extra.aes = Append(f.extra.aes, f.method)
      /\ e.password = f.password /\ e.encryption = f.encryption
      /\ e.flags = s.flags
  BY <1>2, <1>3 DEF Extras
<1> HIDE DEF e
<1>7. g = IF HasCompressor(f, raw) /\ writesAES(s) THEN e ELSE s
  BY DEF PreparedHeader, writeWinZipExtra, s, e
<1> HIDE DEF g
<1>8. CASE HasCompressor(f, raw) /\ writesAES(s)
  <2>1. writesAES(e)
    BY <1>2, <1>6, <1>8 DEF writesAES
  <2>2. CleanHeader(e)
    BY <1>2, <1>5, <1>6, <2>1 DEF CleanHeader
  <2>3. /\ Append(f.extra.aes, f.method) # <<>>
        /\ Append(f.extra.aes, f.method)[Len(Append(f.extra.aes, f.method))] = f.method
    BY <1>3, <1>4
  <2>4. MethodOf(e) = f.method
    BY <1>6, <2>3 DEF MethodOf
  <2> QED
    BY <1>7, <1>8, <2>2, <2>4 DEF g
<1>9. CASE ~(HasCompressor(f, raw) /\ writesAES(s))
  <2>1. HasCompressor(f, raw) => MethodOf(s) = f.method
    BY <1>2, <1>5, <1>9 DEF MethodOf, CleanHeader
  <2> QED
    BY <1>5, <1>7, <1>9, <2>1 DEF g
<1> QED
  BY <1>8, <1>9

LEMMA UpdatedClean ==
  ASSUME NEW fw \in FileWriters, NEW f \in FileHeaders(Methods), CleanHeader(f)
  PROVE  /\ CleanHeader(UpdatedHeader(f, fw))
         /\ MethodOf(UpdatedHeader(f, fw)) = MethodOf(f)
BY UpdatedSettled DEF CleanHeader, MethodOf, writesAES

(* The count of the file writer is the length of the payload.              *)
LEMMA WriteCounts ==
  ASSUME NEW fw \in FileWriters, NEW b \in Blocks, fw.compCount = PayloadLen(b),
         NEW n \in Nat, NEW c \in Nat
  PROVE  /\ Written(fw, n, c).compCount = PayloadLen(WrittenBlock(b, fw, c))
         /\ WrittenBlock(b, fw, c).flags = b.flags
         /\ WrittenBlock(b, fw, c).packed = b.packed
<1> DEFINE e == WrittenBlock(b, fw, c)
           H == HeaderOnWrite(fw, c)
<1>1. /\ e.cipher = b.cipher + H /\ e.data = b.data + c /\ e.auth = b.auth
      /\ e.flags = b.flags /\ e.packed = b.packed
      /\ Written(fw, n, c).compCount = fw.compCount + H + c
  BY DEF Written, WrittenBlock, FileWriters, Blocks
<1>2. H \in Nat /\ b.cipher \in Nat /\ b.data \in Nat /\ b.auth \in Nat
  BY PartLengths DEF Blocks
<1> HIDE DEF e, H
<1>3. Written(fw, n, c).compCount = PayloadLen(e)
  BY <1>1, <1>2 DEF PayloadLen
<1> QED
  BY <1>1, <1>3 DEF e

LEMMA FinishRecords ==
  ASSUME NEW fw \in FileWriters, NEW b \in Blocks, fw.compCount = PayloadLen(b),
         NEW d \in Nat, NEW f \in FileHeaders(Methods), CleanHeader(f),
         b.flags = f.flags, b.packed = MethodOf(f)
  PROVE  LET g == UpdatedHeader(f, Finished(fw, d))
         IN RecordedAt(FinishedBlock(b, fw, g, d), g)
<1> DEFINE w == Finished(fw, d)
           g == UpdatedHeader(f, w)
           e == FinishedBlock(b, fw, g, d)
           H == HeaderOnClose(fw)
           A == AuthLen(fw)
<1>1. H \in Nat /\ A \in Nat /\ b.cipher \in Nat /\ b.data \in Nat
        /\ b.auth \in Nat /\ fw.compCount \in Nat
  BY PartLengths DEF Blocks, FileWriters
<1>2. w.compCount = fw.compCount + H + d + A
  BY DEF Finished, FileWriters
<1>3. w \in FileWriters
  <2>1. fw.compCount + H + d + A \in Nat
    BY <1>1
  <2> HIDE DEF H, A
  <2> QED
    BY <2>1, Zenon DEF Finished, FileWriters, H, A
<1>4. /\ SizesSettled(g) /\ g.csize64 = w.compCount
      /\ g.flags = f.flags /\ MethodOf(g) = MethodOf(f)
  BY <1>3, UpdatedSettled, UpdatedClean
<1> HIDE DEF g, w, H, A
<1>5. /\ e.cipher = b.cipher + H /\ e.data = b.data + d /\ e.auth = b.auth + A
      /\ e.flags = b.flags /\ e.packed = b.packed
      /\ e.descriptor = <<Descriptor(g, fw)>>
  BY DEF FinishedBlock, Blocks, H, A
<1> HIDE DEF e
<1>6. PayloadLen(e) = w.compCount
  BY <1>1, <1>2, <1>5 DEF PayloadLen
<1>7. /\ e.descriptor[1].crc = g.crc /\ e.descriptor[1].csize = g.csize64
      /\ e.descriptor[1].usize = g.usize64
  BY <1>5 DEF Descriptor
<1>8. RecordedAt(e, g)
  BY <1>4, <1>5, <1>6, <1>7 DEF RecordedAt
<1> QED
  BY <1>8 DEF e, g, w

(* The end records lead back to the directory they were made for.          *)
LEMMA EndReadsBack ==
  ASSUME NEW n, NEW size, NEW at
  PROVE  LET end == ReadDirectoryEnd(DirectoryEnd(n, size, at), at + size)
         IN end.ok /\ end.offset = at /\ end.records = n
<1> DEFINE d     == DirectoryEnd(n, size, at)
           zip64 == n >= uint16max \/ size >= uint32max \/ at >= uint32max
           e64   == [ records |-> n, size |-> size, offset |-> at,
                      locator |-> at + size ]
           end   == ReadDirectoryEnd(d, at + size)
<1>1. /\ d.records = IF zip64 THEN uint16max ELSE n
      /\ d.offset = IF zip64 THEN uint32max ELSE at
      /\ d.end64 = IF zip64 THEN <<e64>> ELSE <<>>
  BY DEF DirectoryEnd
<1>2. end = IF d.end64 = <<>>
            THEN [ ok |-> TRUE, records |-> d.records, offset |-> d.offset ]
            ELSE [ ok      |-> d.end64[1].locator = at + size,
                   records |-> d.end64[1].records,
                   offset  |-> d.end64[1].offset ]
  BY DEF ReadDirectoryEnd
<1> HIDE DEF d, end
<1>3. CASE zip64
  <2> HIDE DEF zip64
  <2>1. d.end64 # <<>> /\ d.end64[1] = e64
    BY <1>1, <1>3
  <2>2. /\ end.ok <=> d.end64[1].locator = at + size
        /\ end.records = d.end64[1].records /\ end.offset = d.end64[1].offset
    BY <1>2, <2>1
  <2>3. /\ d.end64[1].locator = at + size
        /\ d.end64[1].records = n /\ d.end64[1].offset = at
    BY <2>1
  <2> QED
    BY <2>2, <2>3 DEF end, d
<1>4. CASE ~zip64
  <2> HIDE DEF zip64
  <2>1. end = [ ok |-> TRUE, records |-> n, offset |-> at ]
    BY <1>1, <1>2, <1>4
  <2> QED
    BY <2>1 DEF end, d
<1> QED
  BY <1>3, <1>4

(* The record of a finished entry says what is true of it.                 *)
LEMMA RecordAgrees ==
  ASSUME NEW f \in FileHeaders(Methods), NEW o \in Nat, NEW b,
         CleanHeader(f), RecordedAt(b, f), FramedAt(b, f), b.descriptor # <<>>
  PROVE  /\ Agrees(DirectoryHeader(f, o), b)
         /\ ReadDirectoryHeader(DirectoryHeader(f, o)).headerOffset = o
         /\ ReadDirectoryHeader(DirectoryHeader(f, o)).csize64 = PayloadLen(b)
<1> DEFINE rec == DirectoryHeader(f, o)
           r == ReadDirectoryHeader(rec)
<1>1. /\ r.flags = f.flags /\ r.crc = f.crc
      /\ r.csize64 = f.csize64 /\ r.usize64 = f.usize64
      /\ r.headerOffset = o /\ r.method = MethodOf(f)
  <2>1. SizesSettled(f) /\ f.extra.zip64 = <<>>
    BY DEF RecordedAt, CleanHeader
  <2> QED
    BY <2>1, RecordReadsBack DEF MethodOf
<1> HIDE DEF rec, r
<1>2. "encrypted" \notin r.flags => b.cipher = 0
  <2>1. "encrypted" \notin f.flags => HeaderLenOf(f) = 0
    BY DEF CleanHeader, HeaderLenOf, CipherOf
  <2> QED
    BY <1>1, <2>1 DEF FramedAt
<1>3. Agrees(rec, b)
  BY <1>1, <1>2 DEF Agrees, RecordedAt, r
<1>4. r.csize64 = PayloadLen(b)
  BY <1>1 DEF RecordedAt
<1> QED
  BY <1>1, <1>3, <1>4 DEF rec, r

(* The offset alone reads back whatever the sizes of the header are: also  *)
(* that of an entry the caller has built by hand.                          *)
LEMMA OffsetReadsBack ==
  ASSUME NEW f \in FileHeaders(Methods), NEW o \in Nat, f.extra.zip64 = <<>>
  PROVE  ReadDirectoryHeader(DirectoryHeader(f, o)).headerOffset = o
<1> DEFINE rec == DirectoryHeader(f, o)
           r   == ReadDirectoryHeader(rec)
           z   == rec.extra.zip64
           nC  == (IF rec.usize = uint32max THEN 1 ELSE 0)
                    + (IF rec.csize = uint32max THEN 1 ELSE 0)
           Offs == { i \in 1 .. Len(z) : z[i][nC + 1] # uint32max }
<1>1. /\ rec.extra = DirectoryExtra(f, o)
      /\ NeedsZip64(f, o) => rec.csize = uint32max /\ rec.usize = uint32max
      /\ rec.offset = (IF o >= uint32max THEN uint32max ELSE o)
  BY DEF DirectoryHeader
<1>2. f.extra \in Extras(Methods) /\ f.csize64 \in Nat /\ f.usize64 \in Nat
        /\ uint32max \in Nat
  BY WidthAssumption DEF FileHeaders
<1>3. z = IF NeedsZip64(f, o) THEN << <<f.usize64, f.csize64, o>> >> ELSE <<>>
  <2>1. z = IF NeedsZip64(f, o)
            THEN Append(f.extra.zip64, <<f.usize64, f.csize64, o>>)
            ELSE f.extra.zip64
    BY <1>1, <1>2 DEF DirectoryExtra, Extras
  <2> QED
    BY <2>1
<1>4. r.headerOffset = IF rec.offset = uint32max /\ Offs # {}
                       THEN z[Least(Offs)][nC + 1] ELSE rec.offset
  BY DEF ReadDirectoryHeader
<1> HIDE DEF rec, r
<1>5. CASE NeedsZip64(f, o)
  <2>1. /\ Len(z) = 1 /\ z[1][3] = o /\ nC = 2
    BY <1>1, <1>3, <1>5
  <2>2. Offs = IF o = uint32max THEN {} ELSE {1}
    BY <2>1
  <2>3. Least({1}) = 1
    BY DEF Least
  <2> HIDE DEF z, nC, Offs
  <2>4. CASE o = uint32max
    BY <1>1, <1>2, <1>4, <2>2, <2>4 DEF r, rec
  <2>5. CASE o # uint32max
    BY <1>1, <1>2, <1>4, <2>1, <2>2, <2>3, <2>5 DEF r, rec
  <2> QED
    BY <2>4, <2>5
<1>6. CASE ~NeedsZip64(f, o)
  <2>1. Offs = {} /\ rec.offset = o
    BY <1>1, <1>2, <1>3, <1>6 DEF NeedsZip64
  <2> HIDE DEF z, nC, Offs
  <2> QED
    BY <1>4, <2>1 DEF r, rec
<1> QED
  BY <1>5, <1>6

-----------------------------------------------------------------------------
(* The formats.  A header to be recorded has settled sizes and none of the *)
(* fields the record adds; the directory of n entries has at least the     *)
(* fixed parts of n records and lies behind those of n local headers.      *)
HeaderCase ==
  /\ caseHeader.extra \in Extras(Methods)
  /\ caseHeader.csize64 \in Nat /\ caseHeader.usize64 \in Nat
  /\ caseHeader.extra.zip64 = <<>> /\ caseHeader.extra.xxh3 = <<>>
  /\ SizesSettled(caseHeader)
  /\ caseOffset \in Nat

EndCase ==
  /\ caseEnd[1] \in Nat /\ caseEnd[2] \in Nat /\ caseEnd[3] \in Nat
  /\ caseEnd[2] >= directoryHeaderLen * caseEnd[1]
  /\ caseEnd[3] >= fileHeaderLen * caseEnd[1]

(* What writeDirectoryHeader records of a header with settled sizes is     *)
(* what readDirectoryHeader returns, whatever the sizes and the offset.    *)
THEOREM RecordsRoundTrip == HeaderCase => RoundTrip
<1> SUFFICES ASSUME HeaderCase
             PROVE  RoundTrip
  OBVIOUS
<1> DEFINE r == ReadDirectoryHeader(DirectoryHeader(caseHeader, caseOffset))
<1>1. /\ r.csize64 = caseHeader.csize64 /\ r.usize64 = caseHeader.usize64
      /\ r.headerOffset = caseOffset
      /\ r.crc = caseHeader.crc /\ r.xxh3 = caseHeader.xxh3
      /\ r.method = IF caseHeader.extra.aes = <<>> THEN caseHeader.method
                    ELSE caseHeader.extra.aes[Len(caseHeader.extra.aes)]
  BY FieldsReadBack DEF HeaderCase
<1> QED
  BY <1>1 DEF RoundTrip

(* A record of such a header has a 32 bit field at the limit only with a   *)
(* zip64 extra field: no reader takes the limit for a size or an offset.   *)
THEOREM SaturatedAlwaysMeansZip64 == HeaderCase => SaturatedMeansZip64
<1> DEFINE f   == caseHeader
           o   == caseOffset
           rec == DirectoryHeader(f, o)
<1> SUFFICES ASSUME /\ f.extra \in Extras(Methods) /\ f.csize64 \in Nat
                    /\ f.usize64 \in Nat /\ SizesSettled(f) /\ o \in Nat
             PROVE  uint32max \in {rec.csize, rec.usize, rec.offset}
                      => rec.extra.zip64 # <<>>
  BY DEF HeaderCase, SaturatedMeansZip64
<1> HIDE DEF f, o
<1>2. /\ rec.extra = DirectoryExtra(f, o)
      /\ rec.csize = (IF NeedsZip64(f, o) THEN uint32max ELSE f.csize)
      /\ rec.usize = (IF NeedsZip64(f, o) THEN uint32max ELSE f.usize)
      /\ rec.offset = (IF o >= uint32max THEN uint32max ELSE o)
  BY DEF DirectoryHeader
<1> HIDE DEF rec
<1>3. CASE NeedsZip64(f, o)
  <2>1. f.extra.zip64 \in Seq(Nat \X Nat \X Nat)
    BY DEF Extras
  <2>2. rec.extra.zip64 = Append(f.extra.zip64, <<f.usize64, f.csize64, o>>)
    BY <1>2, <1>3 DEF DirectoryExtra, Extras
  <2>3. rec.extra.zip64 # <<>>
    <3>1. ASSUME NEW T, NEW z \in Seq(T), NEW x
          PROVE  Append(z, x) # <<>>
      <4>1. Len(Append(z, x)) = Len(z) + 1 /\ Len(z) \in Nat
        OBVIOUS
      <4>2. Append(z, x) = <<>> => Len(Append(z, x)) = 0
        OBVIOUS
      <4> QED
        BY <4>1, <4>2
    <3> QED
      BY <2>1, <2>2, <3>1
  <2> QED
    BY <2>3
<1>4. CASE ~NeedsZip64(f, o)
  <2>1. /\ rec.csize = f.csize64 /\ rec.usize = f.usize64 /\ rec.offset = o
        /\ f.csize64 < uint32max /\ f.usize64 < uint32max /\ o < uint32max
    BY <1>2, <1>4, WidthAssumption DEF NeedsZip64, SizesSettled, isZip64
  <2>2. uint32max \notin {rec.csize, rec.usize, rec.offset}
    BY <2>1, WidthAssumption
  <2> QED
    BY <2>2
<1> QED
  BY <1>3, <1>4

(* The end records of n entries give back their number and the offset of   *)
(* their directory, and the Reader opens the archive with all its files,   *)
(* also when another tool has truncated the number to 16 bits.             *)
THEOREM EndsRoundTrip == EndCase => EndRoundTrip
<1> SUFFICES ASSUME NEW n, NEW s, NEW a,
                    n = caseEnd[1], s = caseEnd[2], a = caseEnd[3],
                    n \in Nat, s \in Nat, a \in Nat,
                    s >= directoryHeaderLen * n, a >= fileHeaderLen * n
             PROVE  EndRoundTrip
  BY DEF EndCase
<1> DEFINE e    == DirectoryEnd(n, s, a)
           d    == ReadDirectoryEnd(e, a + s)
           size == a + s + EndLen(e)
           w    == uint16max + 1
           cut  == [ d EXCEPT !.records = n % w ]
<1>1. d.ok /\ d.offset = a /\ d.records = n
  BY EndReadsBack
<1>2. cut.ok /\ cut.offset = a /\ cut.records = n % w
  BY <1>1 DEF ReadDirectoryEnd
<1>3. EndLen(e) \in Nat /\ EndLen(e) >= 1
  BY DEF EndLen, directoryEndLen, directory64EndLen, directory64LocLen
<1> HIDE DEF e, d, cut
<1>4. size \in Nat /\ a < size /\ size >= fileHeaderLen * n
  BY <1>3 DEF fileHeaderLen, directoryHeaderLen
<1> HIDE DEF size
<1>5. n <= size \div fileHeaderLen
  BY <1>4 DEF fileHeaderLen
<1>6. w \in Nat \ {0} /\ n % w \in 0 .. w - 1 /\ n % w <= n /\ (n % w) % w = n % w
  <2>1. w \in Nat \ {0}
    BY WidthAssumption
  <2> HIDE DEF w
  <2> QED
    BY <2>1
<1> HIDE DEF w
<1>7. n % w <= size \div fileHeaderLen
  <2>1. size \div fileHeaderLen \in Int /\ n % w \in Int
    BY <1>4, <1>6 DEF fileHeaderLen
  <2> QED
    BY <1>5, <1>6, <2>1
<1>8. ASSUME NEW read \in {d, cut}
      PROVE  Opened(read, n, size) = [ ok |-> TRUE, files |-> n ]
  <2>1. /\ read.ok /\ read.offset < size /\ read.records <= size \div fileHeaderLen
        /\ n % w = read.records % w
    BY <1>1, <1>2, <1>4, <1>5, <1>6, <1>7
  <2> QED
    BY <2>1 DEF Opened, w
<1> QED
  BY <1>1, <1>8 DEF EndRoundTrip, e, d, size, cut, w

(* Every case of the run is one the theorems are about: a header as a      *)
(* closed file writer leaves it has settled sizes.                         *)
LEMMA CasesHold == CaseSpec => [](HeaderCase /\ EndCase)
<1>1. ASSUME NEW csize \in Nat, NEW usize \in Nat, NEW aes \in BOOLEAN
      PROVE  LET f == ClosedHeader(csize, usize, aes)
             IN /\ f.extra \in Extras(Methods)
                /\ f.csize64 \in Nat /\ f.usize64 \in Nat
                /\ f.extra.zip64 = <<>> /\ f.extra.xxh3 = <<>>
                /\ SizesSettled(f)
  <2> DEFINE f == ClosedHeader(csize, usize, aes)
             x == [ other |-> 5, aes |-> IF aes THEN <<"Deflate">> ELSE <<>>,
                    xxh3 |-> <<>>, zip64 |-> <<>> ]
  <2>1. f.extra = x /\ f.csize64 = csize /\ f.usize64 = usize
    BY DEF ClosedHeader, NoExtra
  <2>2. ~isZip64(f) => f.csize = csize /\ f.usize = usize
    BY DEF ClosedHeader, isZip64
  <2> HIDE DEF f
  <2>3. <<"Deflate">> \in Seq(Methods) /\ <<>> \in Seq(Methods)
    BY DEF Methods
  <2>4. <<>> \in Seq(Nat) /\ <<>> \in Seq(Nat \X Nat \X Nat)
    OBVIOUS
  <2>5. x \in Extras(Methods)
    BY <2>3, <2>4 DEF Extras
  <2>6. x.zip64 = <<>> /\ x.xxh3 = <<>>
    OBVIOUS
  <2> HIDE DEF x
  <2> QED
    BY <2>1, <2>2, <2>5, <2>6 DEF SizesSettled, f
<1>2. \A n : Around(n) \subseteq Nat
  BY DEF Around
<1>3. CaseInit => HeaderCase /\ EndCase
  <2> SUFFICES ASSUME CaseInit
               PROVE  HeaderCase /\ EndCase
    OBVIOUS
  <2>1. caseHeader = ClosedHeader(0, 0, FALSE) /\ caseOffset = 0
    BY DEF CaseInit
  <2>2. caseEnd[1] = 0 /\ caseEnd[2] = 0 /\ caseEnd[3] = 0
    BY DEF CaseInit
  <2>3. HeaderCase
    BY <1>1, <2>1 DEF HeaderCase
  <2>4. EndCase
    BY <2>2 DEF EndCase, directoryHeaderLen, fileHeaderLen
  <2> QED
    BY <2>3, <2>4
<1>4. HeaderCase /\ EndCase /\ [CaseNext]_caseVars => (HeaderCase /\ EndCase)'
  <2>1. ASSUME HeaderCase, EndCase, EncodeHeader
        PROVE  (HeaderCase /\ EndCase)'
    <3>1. PICK csize \in Nat, usize \in Nat, aes \in BOOLEAN :
            caseHeader' = ClosedHeader(csize, usize, aes)
      BY <1>2, <2>1 DEF EncodeHeader, CaseHeaders
    <3>2. caseOffset' \in Nat /\ caseEnd' = caseEnd
      BY <1>2, <2>1 DEF EncodeHeader
    <3> QED
      BY SMTT(30), <1>1, <2>1, <3>1, <3>2 DEF HeaderCase, EndCase
  <2>2. ASSUME HeaderCase, EndCase, EncodeEnd
        PROVE  (HeaderCase /\ EndCase)'
    <3>1. PICK n \in Nat :
            caseEnd' \in {n} \X (IF n = 0 THEN {0} ELSE LengthsFrom(directoryHeaderLen * n))
                          \X LengthsFrom(fileHeaderLen * n)
      BY <1>2, <2>2 DEF EncodeEnd, CaseEnds
    <3>2. ASSUME NEW least \in Nat, NEW m \in LengthsFrom(least)
          PROVE  m \in Nat /\ m >= least
      BY <1>2, <3>2 DEF LengthsFrom
    <3>3. directoryHeaderLen * n \in Nat /\ fileHeaderLen * n \in Nat
      BY DEF directoryHeaderLen, fileHeaderLen
    <3>4. /\ caseEnd'[1] = n
          /\ caseEnd'[2] \in Nat /\ caseEnd'[2] >= directoryHeaderLen * n
          /\ caseEnd'[3] \in Nat /\ caseEnd'[3] >= fileHeaderLen * n
      <4>1. CASE n = 0
        <5>1. directoryHeaderLen * n = 0
          BY <4>1 DEF directoryHeaderLen
        <5> QED
          BY <3>1, <3>2, <3>3, <4>1, <5>1
      <4>2. CASE n # 0
        BY <3>1, <3>2, <3>3, <4>2
      <4> QED
        BY <4>1, <4>2
    <3> QED
      BY <2>2, <3>4 DEF EncodeEnd, HeaderCase, EndCase
  <2>3. ASSUME HeaderCase, EndCase, UNCHANGED caseVars
        PROVE  (HeaderCase /\ EndCase)'
    BY <2>3 DEF caseVars, HeaderCase, EndCase
  <2> QED
    BY <2>1, <2>2, <2>3 DEF CaseNext
<1> QED
  BY <1>3, <1>4, PTL DEF CaseSpec

(* Hence the formats give back every case, with fields of any width.       *)
THEOREM FormatsAlwaysRoundTrip ==
  CaseSpec => [](RoundTrip /\ SaturatedMeansZip64 /\ EndRoundTrip)
BY CasesHold, RecordsRoundTrip, SaturatedAlwaysMeansZip64, EndsRoundTrip, PTL
=============================================================================
