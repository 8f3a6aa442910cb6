---------------------------- MODULE EntryReader ----------------------------
(***************************************************************************)
(* Reading one entry: File.Open of reader.go and the readers it puts on    *)
(* top of one another, the section of the file, the decryption (crypto.go  *)
(* or zipcrypto.go), the decoder and the checksumReader.  Every reader     *)
(* takes units from the one below it, a step at a time.                    *)
(*                                                                         *)
(* f is a File together with what the archive holds for it.  Its data are  *)
(* counted in units; neither an HMAC nor a CRC is computed, flags tell     *)
(* what they would show.  The end marker of a Deflate stream is a unit of  *)
(* its own, and so is the authentication code behind AES data.             *)
(* Descriptors are sequences of words, of which the first two matter.      *)
(***************************************************************************)
EXTENDS Naturals, Sequences

CONSTANTS
  Files,        (* the entries that are read                               *)
  Signature,    (* dataDescriptorSignature                                 *)
  MaxUnits      (* bound: units of data                                    *)

Passwords == {"nil", "right", "wrong"}   (* wrong: it fails the check      *)
Words     == Nat

FileRecords ==
  [ method    : {"Store", "Deflate", "Unknown"},
    encrypted : BOOLEAN, ae : 0 .. 2, strength : 0 .. 3,
    password  : Passwords,
    defer     : BOOLEAN,          (* DeferAuth                             *)
    usize     : Nat,              (* UncompressedSize64                    *)
    crc       : Words,            (* CRC32                                 *)
    hasDescriptor : BOOLEAN,
    local     : BOOLEAN,          (* a local header is where it should be  *)
    header    : BOOLEAN,          (* the file holds the cipher's header    *)
    overhead  : BOOLEAN,          (* CompressedSize64 covers AES's overhead*)
    data      : 0 .. MaxUnits,    (* units of data by CompressedSize64     *)
    present   : Nat,              (* units the file holds from there, the  *)
                                  (* code being the one behind the data    *)
    authentic : BOOLEAN,          (* the code is the HMAC of all the data  *)
    marker    : Nat \ {0},        (* which unit ends the Deflate stream:   *)
                                  (* none of the data if it is greater     *)
    dataCrc   : Words,            (* CRC of what the decoder makes of them *)
    descriptor : Seq(Words) ]     (* words behind the data, at most four   *)

ASSUME MaxUnitsAssumption == MaxUnits \in Nat
ASSUME FilesAssumption == Files \subseteq FileRecords

VARIABLES
  f,           (* the entry                                                *)
  result,      (* what Open or the last Read returned; "unopened" before   *)
  taken,       (* units read from the section of the data                  *)
  below,       (* sticky error of the reader that the decoder reads        *)
  mac,         (* units written to a.mac                                   *)
  auth,        (* a.auth                                                   *)
  stage,       (* where a Read of the bufferedAuthReader is                *)
  buf,         (* units in its a.buf                                       *)
  held,        (* units that the decoder took and has not handed on        *)
  delivered,   (* units handed to the caller: r.nread                      *)
  broken       (* a read of the file has failed                            *)

vars == <<f, result, taken, below, mac, auth, stage, buf, held, delivered,
          broken>>
reader == <<taken, below, mac, auth, stage, buf>>

Results == { "unopened", "nil", "EOF", "ErrUnexpectedEOF", "ErrFormat",
             "ErrPassword", "ErrDecryption", "ErrAuthentication",
             "ErrAlgorithm", "ErrChecksum", "Corrupt", "IO" }
Errors == {"nil", "EOF", "ErrDecryption", "ErrAuthentication", "IO"}
Stages == {"buffer", "code", "compare", "pass"}

TypeOK ==
  /\ f \in FileRecords
  /\ result \in Results
  /\ taken \in 0 .. f.data
  /\ below \in Errors
  /\ mac \in 0 .. f.data
  /\ auth \in BOOLEAN
  /\ stage \in Stages
  /\ buf \in 0 .. f.data
  /\ held \in 0 .. f.data
  /\ delivered \in 0 .. f.data
  /\ broken \in BOOLEAN

Init ==
  /\ f \in Files
  /\ result = "unopened" /\ broken = FALSE
  /\ taken = 0 /\ mac = 0 /\ buf = 0 /\ held = 0 /\ delivered = 0
  /\ below = "nil" /\ auth = FALSE /\ stage = "buffer"

AES == f.encrypted /\ f.ae # 0
Buffered == AES /\ ~f.defer
isAE2 == f.ae = 2

-----------------------------------------------------------------------------
(* newDecryptionReader, in the order of its checks.                        *)
newDecryptionReader ==
  CASE f.strength = 0         -> "ErrDecryption"
    [] f.strength # 0 /\ ~f.header -> "ErrUnexpectedEOF"
    [] f.strength # 0 /\ f.header /\ f.password # "right" -> "ErrPassword"
    [] f.strength # 0 /\ f.header /\ f.password = "right" ->
         IF f.overhead THEN "nil" ELSE "ErrFormat"

(* readHeader of the zipCryptoDecryptReader; a password that is not the    *)
(* right one may pass: it counts as right then, and the data are garbage.  *)
readHeader ==
  IF ~f.header THEN "ErrUnexpectedEOF"
  ELSE IF f.password = "right" THEN "nil" ELSE "ErrPassword"

Decryption ==
  CASE ~f.encrypted                          -> "nil"
    [] f.encrypted /\ f.password = "nil"     -> "ErrPassword"
    [] f.encrypted /\ f.password # "nil"     ->
         IF f.ae = 0 THEN readHeader ELSE newDecryptionReader

Open ==
  /\ result = "unopened"
  /\ result' = IF ~f.local THEN "ErrFormat"
               ELSE IF Decryption # "nil" THEN Decryption
               ELSE IF f.method = "Unknown" THEN "ErrAlgorithm" ELSE "nil"
  /\ UNCHANGED <<f, reader, held, delivered, broken>>

(* The header cannot be read.                                              *)
OpenFails ==
  /\ result = "unopened"
  /\ result' = "IO" /\ broken' = TRUE
  /\ UNCHANGED <<f, reader, held, delivered>>

-----------------------------------------------------------------------------
(* Once open, a Read pulls data through all the layers.  The decoder reads *)
(* until it got an error; a decoder of stored data hands on what it got    *)
(* before it reads again, while the one for Deflate reads ahead.           *)
Reading == result = "nil"
Pulling == /\ Reading
           /\ below = "nil"
           /\ f.method = "Store" => held = 0

(* A read of the section: some units, or its end, or both at once.  The    *)
(* file may end before the section does.                                   *)
There == IF f.present < f.data THEN f.present ELSE f.data
SectionReads(n, end) ==
  /\ n <= There - taken
  /\ IF end THEN taken + n = There ELSE n > 0
  /\ taken' = taken + n

(* The section itself, or the zipCryptoDecryptReader on it.                *)
ReadSection(n, end) ==
  /\ Pulling /\ ~AES
  /\ SectionReads(n, end)
  /\ held' = held + n
  /\ below' = IF end THEN "EOF" ELSE "nil"
  /\ UNCHANGED <<f, result, mac, auth, stage, buf, delivered, broken>>

(* All of the code is there, and it is the HMAC of what a.mac was given.   *)
HasCode == f.present > f.data
checkAuthentication(covered) == f.authentic /\ covered = f.data

(* Mutated form: io.EOF is handed on, and the code not compared.           *)
AuthReaderEndUnseen(covered) == "EOF"
(* What the authReader makes of the end of the data.                       *)
AuthReaderEnd(covered) ==
  IF ~HasCode THEN "ErrDecryption"
  ELSE IF checkAuthentication(covered) THEN "EOF" ELSE "ErrAuthentication"

(* authReader: the units are handed on as they come, the last ones with    *)
(* what the comparison at the end has shown.                               *)
ReadStreaming(n, end) ==
  /\ Pulling /\ AES /\ f.defer
  /\ SectionReads(n, end)
  /\ held' = held + n
  /\ mac' = mac + n
  /\ below' = IF end THEN AuthReaderEnd(mac') ELSE "nil"
  /\ auth' = (end /\ HasCode /\ checkAuthentication(mac'))
  /\ UNCHANGED <<f, result, stage, buf, delivered, broken>>

(* The section fails: the units that came before the error are handed on   *)
(* with it, and are not written to a.mac.                                  *)
SectionFails(n) ==
  /\ Pulling /\ ~Buffered
  /\ n <= There - taken
  /\ taken' = taken + n
  /\ held' = held + n
  /\ below' = "IO" /\ broken' = TRUE
  /\ UNCHANGED <<f, result, mac, auth, stage, buf, delivered>>

(* The section of the code fails under an authReader: any error is         *)
(* ErrDecryption.                                                          *)
CodeFails(n) ==
  /\ Pulling /\ AES /\ f.defer
  /\ SectionReads(n, TRUE)
  /\ held' = held + n
  /\ mac' = mac + n
  /\ below' = "ErrDecryption" /\ broken' = TRUE
  /\ UNCHANGED <<f, result, auth, stage, buf, delivered>>

-----------------------------------------------------------------------------
(* bufferedAuthReader.Read: unless a.auth is set it buffers all the data,  *)
(* reads the code and compares; then it hands on what it has buffered.     *)
Buffer(n, end) ==
  /\ Pulling /\ Buffered /\ stage = "buffer"
  /\ SectionReads(n, end)
  /\ buf' = buf + n
  /\ stage' = IF end THEN "code" ELSE "buffer"
  /\ UNCHANGED <<f, result, below, mac, auth, held, delivered, broken>>

ReadCode ==
  /\ Pulling /\ Buffered /\ stage = "code"
  /\ IF HasCode
     THEN stage' = "compare" /\ UNCHANGED below
     ELSE below' = "ErrDecryption" /\ UNCHANGED stage
  /\ UNCHANGED <<f, result, taken, mac, auth, buf, held, delivered, broken>>

(* Mutated form: what the comparison has shown is not heeded.              *)
CompareUnheeded ==
  /\ Pulling /\ Buffered /\ stage = "compare"
  /\ mac' = mac + buf
  /\ auth' = checkAuthentication(mac')
  /\ stage' = "pass"
  /\ UNCHANGED <<f, result, taken, below, buf, held, delivered, broken>>
Compare ==
  /\ Pulling /\ Buffered /\ stage = "compare"
  /\ mac' = mac + buf
  /\ auth' = checkAuthentication(mac')
  /\ IF auth'
     THEN stage' = "pass" /\ UNCHANGED below
     ELSE below' = "ErrAuthentication" /\ UNCHANGED stage
  /\ UNCHANGED <<f, result, taken, buf, held, delivered, broken>>

(* The rest of this Read, and the beginning of the next one.               *)
PassOn(n) ==
  /\ Pulling /\ Buffered /\ stage = "pass"
  /\ n <= buf /\ (n = 0 => buf = 0)
  /\ buf' = buf - n
  /\ held' = held + n
  /\ below' = IF n = 0 THEN "EOF" ELSE "nil"
  /\ stage' = IF auth THEN "pass" ELSE "buffer"
  /\ UNCHANGED <<f, result, taken, mac, auth, delivered, broken>>

BufferFails ==
  /\ Pulling /\ Buffered /\ stage \in {"buffer", "code"}
  /\ below' = "IO" /\ broken' = TRUE
  /\ UNCHANGED <<f, result, taken, mac, auth, stage, buf, held, delivered>>

-----------------------------------------------------------------------------
(* Mutated form: what was asked for is counted, not what was read.         *)
DeliverAsked(n) ==
  /\ Reading
  /\ n \in 1 .. held
  /\ f.method = "Store" => n = held /\ below = "nil"
  /\ f.method = "Deflate" => delivered + n < f.marker
  /\ delivered' = delivered + MaxUnits
  /\ held' = held - n
  /\ UNCHANGED <<f, result, reader, broken>>
(* The decoder hands on units, and the checksumReader counts them.  Stored *)
(* units come as they were read; Deflate gives none behind its marker.     *)
Deliver(n) ==
  /\ Reading
  /\ n \in 1 .. held
  /\ f.method = "Store" => n = held /\ below = "nil"
  /\ f.method = "Deflate" => delivered + n < f.marker
  /\ delivered' = delivered + n
  /\ held' = held - n
  /\ UNCHANGED <<f, result, reader, broken>>

(* How the decoder ends with its last n units.  Stored data end as the     *)
(* reader below does.  Deflate ends at its marker and does not ask how the *)
(* reader below does; only without a marker it runs into that end, or into *)
(* a unit that does not fit.                                               *)
DecoderEnds(n, end) ==
  \/ /\ f.method = "Store"
     /\ n = held /\ below # "nil"
     /\ end = below
  \/ /\ f.method = "Deflate"
     /\ n < held /\ delivered + n + 1 = f.marker
     /\ end = "EOF"
  \/ /\ f.method = "Deflate"
     /\ n = held /\ below # "nil" /\ delivered + n < f.marker
     /\ end = IF below = "EOF" THEN "ErrUnexpectedEOF" ELSE below
  \/ /\ f.method = "Deflate"
     /\ n < held /\ f.marker > f.data
     /\ end = "Corrupt"

(* Mutated form: the descriptor is taken to have no signature.             *)
readDataDescriptorUnsigned ==
  IF Len(f.descriptor) < 3 THEN "ErrUnexpectedEOF"
  ELSE IF f.descriptor[1] = f.crc THEN "nil" ELSE "ErrChecksum"
(* readDataDescriptor: four words are read, and three will do if the first *)
(* is not the signature.                                                   *)
readDataDescriptor ==
  LET signed == f.descriptor[1] = Signature
  IN IF Len(f.descriptor) < 3 \/ (signed /\ Len(f.descriptor) < 4)
     THEN "ErrUnexpectedEOF"
     ELSE IF f.descriptor[IF signed THEN 2 ELSE 1] = f.crc
          THEN "nil" ELSE "ErrChecksum"

(* Mutated form: the descriptor's word is enough.                          *)
ChecksumDescriptorOnly(count) ==
  IF count # f.usize THEN "ErrUnexpectedEOF"
  ELSE IF f.hasDescriptor
       THEN IF readDataDescriptor = "nil" THEN "EOF" ELSE readDataDescriptor
       ELSE IF f.crc # 0 /\ f.dataCrc # f.crc THEN "ErrChecksum" ELSE "EOF"
(* The checksumReader at the end of the data, count units in all.          *)
Checksum(count) ==
  IF count # f.usize THEN "ErrUnexpectedEOF"
  ELSE IF f.hasDescriptor
       THEN IF readDataDescriptor # "nil" THEN readDataDescriptor
            ELSE IF f.dataCrc # f.crc THEN "ErrChecksum" ELSE "EOF"
       ELSE IF f.crc # 0 /\ f.dataCrc # f.crc THEN "ErrChecksum" ELSE "EOF"

(* The end, which may come with the last units; AE-2 has no checksumReader.*)
End(n) ==
  /\ Reading
  /\ n <= held
  /\ delivered' = delivered + n
  /\ held' = held - n
  /\ \E end \in Results :
       /\ DecoderEnds(n, end)
       /\ result' = IF end = "EOF" /\ ~isAE2 THEN Checksum(delivered') ELSE end
  /\ UNCHANGED <<f, reader, broken>>

(* The descriptor cannot be read.                                          *)
DescriptorFails(n) ==
  /\ Reading
  /\ n <= held
  /\ DecoderEnds(n, "EOF") /\ ~isAE2 /\ f.hasDescriptor
  /\ delivered + n = f.usize
  /\ delivered' = delivered + n
  /\ held' = held - n
  /\ result' = "IO" /\ broken' = TRUE
  /\ UNCHANGED <<f, reader>>

Next ==
  \/ Open \/ OpenFails
  \/ \E n \in 0 .. MaxUnits, end \in BOOLEAN :
       ReadSection(n, end) \/ ReadStreaming(n, end) \/ Buffer(n, end)
  \/ \E n \in 0 .. MaxUnits : SectionFails(n) \/ CodeFails(n)
  \/ ReadCode \/ Compare \/ BufferFails
  \/ \E n \in 0 .. MaxUnits : PassOn(n) \/ Deliver(n)
  \/ \E n \in 0 .. MaxUnits : End(n) \/ DescriptorFails(n)

Spec == Init /\ [][Next]_vars

-----------------------------------------------------------------------------
(* The units that the decoder makes of whole data.                         *)
Plain == IF f.method = "Store" THEN f.data ELSE f.marker - 1

(* Unless the caller asked for it with DeferAuth, not a unit of AES data   *)
(* leaves the reader before all of them were written to the HMAC and this  *)
(* was compared with the code: bufferedAuthReader.Read is to do its steps  *)
(* in that order, and to stop where one fails.                             *)
VerifiedBeforeRelease ==
  Buffered /\ held + delivered > 0 => auth /\ mac = f.data /\ f.authentic

(* Reading ends without an error only if what was read is what was meant:  *)
(* with the checksumReader, the length and the CRC that the directory      *)
(* records, where a CRC of 0 is no promise unless a descriptor repeats it; *)
(* for encrypted AE-2 data, buffered or stored, all that the code covers.  *)
(* Of an AE-2 field without the encryption flag, and of deflated data with *)
(* DeferAuth, which no reader checks, nothing is claimed.                  *)
EOFMeansWhole ==
  result = "EOF" =>
    /\ ~isAE2 => /\ delivered = f.usize
                 /\ f.dataCrc = f.crc \/ (f.crc = 0 /\ ~f.hasDescriptor)
    /\ isAE2 /\ f.encrypted /\ (f.defer => f.method = "Store") =>
                 delivered = Plain /\ f.authentic

(* "DeferAuth being set to true will *delay* hmac auth/integrity checks"   *)
(* (struct.go:112): once the end of the data was returned, the code has    *)
(* been compared.                                                          *)
EndAuthenticated == result = "EOF" /\ AES => f.authentic

(* So it is without DeferAuth, and for stored data: a decoder that hands   *)
(* on the end of its source reaches the check, and the check has seen all  *)
(* the data (authReader.Read, bufferedAuthReader.Read).                    *)
StoredEndAuthenticated ==
  result = "EOF" /\ AES /\ (f.defer => f.method = "Store") =>
    auth /\ mac = f.data /\ f.authentic

(* An entry of which directory, data and descriptor agree, with either     *)
(* form of descriptor, is refused by no check as long as the file can be   *)
(* read.  A CRC that equals the signature cannot be told from one.         *)
Sound ==
  /\ f.local /\ f.method # "Unknown"
  /\ f.encrypted => f.password = "right" /\ f.header
  /\ AES => f.strength # 0 /\ f.overhead /\ f.authentic /\ HasCode
  /\ f.present >= f.data
  /\ f.method = "Deflate" => f.marker = f.data
  /\ Plain = f.usize /\ (isAE2 \/ f.dataCrc = f.crc)
  /\ f.hasDescriptor /\ ~isAE2 =>
       \/ Len(f.descriptor) >= 4 /\ f.descriptor[1] = Signature
                                 /\ f.descriptor[2] = f.crc
       \/ /\ Len(f.descriptor) >= 3
          /\ f.descriptor[1] = f.crc /\ f.crc # Signature

SoundIsRead == Sound /\ ~broken => result \in {"unopened", "nil", "EOF"}
=============================================================================
