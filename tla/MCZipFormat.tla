---------------------------- MODULE MCZipFormat ----------------------------
(***************************************************************************)
(* Bounded inputs for the conversions of ZipFormat: headers whose sizes    *)
(* lie on both sides of the 32 bit limit, at offsets on both sides of it,  *)
(* and end records whose count, size and offset lie around their limits.   *)
(* The names have a prefix of their own for a module of proofs that takes  *)
(* the cases together with the formats of an entry.                        *)
(***************************************************************************)
EXTENDS ZipFormat

VARIABLES
  caseHeader, (* the header to be recorded                                 *)
  caseOffset, (* where its local header is                                 *)
  caseEnd     (* record count, directory size and directory offset         *)

caseVars == <<caseHeader, caseOffset, caseEnd>>

Around(n) == {0, n - 1, n, n + 1} \cap Nat

(* A header as a closed file writer leaves it: the 32 bit sizes are those  *)
(* of the 64 bit ones or saturated, and the extra of its caller holds no   *)
(* zip64 field (CopyRawPart and FilterZipStream remove it).                *)
ClosedHeader(csize, usize, aes) ==
  LET zip64 == csize >= uint32max \/ usize >= uint32max
  IN [ name |-> 1, comment |-> 0,
       extra |-> [ NoExtra EXCEPT !.other = 5,
                     !.aes = IF aes THEN <<"Deflate">> ELSE <<>> ],
       version |-> IF zip64 THEN zipVersion45 ELSE zipVersion20,
       flags |-> {"descriptor"},
       method |-> IF aes THEN "AES" ELSE "Store", level |-> 0,
       crc |-> IF aes THEN 0 ELSE usize, xxh3 |-> usize + 1,
       csize |-> IF zip64 THEN uint32max ELSE csize,
       usize |-> IF zip64 THEN uint32max ELSE usize,
       csize64 |-> csize, usize64 |-> usize,
       encryption |-> IF aes THEN "AES256" ELSE "None",
       password |-> aes, aesStrength |-> IF aes THEN 3 ELSE 0 ]

CaseHeaders ==
  { ClosedHeader(csize, usize, aes) :
      csize \in Around(uint32max), usize \in Around(uint32max),
      aes \in BOOLEAN }

(* Counts around their limit, of records and local headers at least as     *)
(* long as their fixed parts: the size and the offset are the least ones,  *)
(* or around their own limit.                                              *)
LengthsFrom(least) == {least} \cup { n \in Around(uint32max) : n >= least }

CaseEnds ==
  UNION { {n} \X (IF n = 0 THEN {0} ELSE LengthsFrom(directoryHeaderLen * n))
              \X LengthsFrom(fileHeaderLen * n)
          : n \in Around(uint16max) }

CaseInit == /\ caseHeader = ClosedHeader(0, 0, FALSE)
            /\ caseOffset = 0
            /\ caseEnd = <<0, 0, 0>>

EncodeHeader == /\ caseHeader' \in CaseHeaders
                /\ caseOffset' \in Around(uint32max)
                /\ UNCHANGED caseEnd

EncodeEnd == /\ caseEnd' \in CaseEnds
             /\ UNCHANGED <<caseHeader, caseOffset>>

(* Every state reached is one case, of a header or of an end record.       *)
CaseNext == /\ <<caseHeader, caseOffset, caseEnd>> = <<ClosedHeader(0, 0, FALSE), 0, <<0, 0, 0>>>>
            /\ EncodeHeader \/ EncodeEnd

CaseSpec == CaseInit /\ [][CaseNext]_caseVars

-----------------------------------------------------------------------------
(* What writeDirectoryHeader records is what readDirectoryHeader returns:  *)
(* sizes, offset, checksum, hash and method, below and above 4 GiB.        *)
RoundTrip ==
  LET f == ReadDirectoryHeader(DirectoryHeader(caseHeader, caseOffset))
  IN /\ f.csize64 = caseHeader.csize64
     /\ f.usize64 = caseHeader.usize64
     /\ f.headerOffset = caseOffset
     /\ f.crc = caseHeader.crc
     /\ f.xxh3 = caseHeader.xxh3
     /\ f.method = IF caseHeader.extra.aes = <<>> THEN caseHeader.method
                   ELSE caseHeader.extra.aes[Len(caseHeader.extra.aes)]

(* A saturated 32 bit field means "see the zip64 extra field" (struct.go): *)
(* it is never written without one, so that no reader takes the limit      *)
(* itself for a size or an offset.                                         *)
SaturatedMeansZip64 ==
  LET rec == DirectoryHeader(caseHeader, caseOffset)
  IN uint32max \in {rec.csize, rec.usize, rec.offset}
       => rec.extra.zip64 # <<>>

(* The end records give back the number of entries and the offset of the   *)
(* directory, the locator finds the zip64 end record, and the Reader opens *)
(* the archive with all its files; it does so also when the archive's tool *)
(* wrote no zip64 records and truncated the count to 16 bits               *)
(* (Reader.init, reader.go:99).                                            *)
EndRoundTrip ==
  LET n    == caseEnd[1]
      e    == DirectoryEnd(n, caseEnd[2], caseEnd[3])
      d    == ReadDirectoryEnd(e, caseEnd[3] + caseEnd[2])
      size == caseEnd[3] + caseEnd[2] + EndLen(e)
      truncated == [ d EXCEPT !.records = n % (uint16max + 1) ]
  IN /\ d.ok
     /\ d.records = n
     /\ d.offset = caseEnd[3]
     /\ \A read \in {d, truncated} : Opened(read, n, size) = [ ok |-> TRUE, files |-> n ]
=============================================================================
