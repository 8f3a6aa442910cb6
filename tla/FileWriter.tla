----------------------------- MODULE FileWriter -----------------------------
(***************************************************************************)
(* One entry of an archive while it is written: the fileWriter of          *)
(* writer.go, with the compressor and the encryption writer below it, and  *)
(* the bytes it leaves in the stream.  These are operators, not a state    *)
(* machine: Writer keeps one fileWriter over a shared stream, and          *)
(* DetachedWriter one for each part over a stream of its own.              *)
(*                                                                         *)
(* Bytes are counted, not kept.  A checksum of n bytes is represented by   *)
(* an injective function of n, so that a checksum of too few or too many   *)
(* bytes differs from the right one.                                       *)
(***************************************************************************)
EXTENDS ZipFormat

Fold == INSTANCE SequencesExt

CONSTANTS
  Headers      (* the FileHeader objects of the callers: pointers          *)

(* Custom stands for a method added with RegisterCompressor, Unknown for   *)
(* one that is not registered.  AES is the method a WinZip AES entry shows *)
(* (99); it is not registered either.                                      *)
Methods == {"Store", "Deflate", "Custom", "Unknown", "AES"}

Ciphers == {"None", "ZipCrypto", "AES"}

Crc(n)  == n        (* the CRC-32 of no bytes is 0                         *)
Xxh3(n) == n + 1    (* the xxh3 of no bytes is not                         *)

zipCryptoHeaderLen == 12
authCodeLen        == 10

FileWriters ==
  [ fh : Headers, raw : BOOLEAN, method : Methods, enc : Ciphers,
    strength : 0 .. 3, first : BOOLEAN, rawCount : Nat, compCount : Nat,
    hashed : Nat, closed : BOOLEAN ]

Descriptors == [ crc : Nat, csize : Nat, usize : Nat, len : Nat ]

(* The bytes of one entry, as they lie in the stream: the local header at  *)
(* position at, the header of the cipher, the data, the authentication     *)
(* code and the data descriptor, if it has been written.  packed is the    *)
(* method the data is really compressed with.                              *)
Blocks ==
  [ at : Nat, local : Nat \ {0}, flags : SUBSET FlagBits, packed : Methods,
    cipher : Nat, data : Nat, auth : Nat,
    descriptor : Seq(Descriptors) ]

PayloadLen(b) == b.cipher + b.data + b.auth

DescriptorBytes(b) ==
  IF b.descriptor = <<>> THEN 0 ELSE b.descriptor[1].len

BlockLen(b) == b.local + PayloadLen(b) + DescriptorBytes(b)

-----------------------------------------------------------------------------
(* newFileWriter and newRawFileWriter.                                     *)

(* Mutated form: the descriptor is not announced.                          *)
StampedUnflagged(fh) == [ fh EXCEPT !.version = zipVersion20 ]
Stamped(fh) == [ fh EXCEPT !.flags = @ \cup {"descriptor"},
                           !.version = zipVersion20 ]

(* A WinZip AES entry records its method in an extra field.                *)
writeWinZipExtra(fh) ==
  IF writesAES(fh)
  THEN [ fh EXCEPT !.extra.aes = Append(@, fh.method), !.method = "AES" ]
  ELSE fh

(* compressor returns nil for a method that is not registered; a raw       *)
(* writer compresses nothing and does not ask.                             *)
HasCompressor(fh, raw) == raw \/ fh.method \in {"Store", "Deflate", "Custom"}

ValidLevel(fh, raw) ==
  raw \/ fh.method # "Deflate" \/ fh.level \in (-2) .. 9

(* What is left in the header, whether an error is returned or not: each   *)
(* step has changed it by the time the next one fails.                     *)
PreparedHeader(fh, raw) ==
  IF HasCompressor(fh, raw) THEN writeWinZipExtra(Stamped(fh)) ELSE Stamped(fh)

(* The checks, in the code's order: compressor, AES key size, compression  *)
(* level, lengths of the name and of the extra as writeHeader sees them.   *)
Creatable(fh, raw) ==
  /\ HasCompressor(fh, raw)
  /\ writesAES(fh) => fh.aesStrength # 0
  /\ ValidLevel(fh, raw)
  /\ fh.name <= uint16max
  /\ ExtraLen(PreparedHeader(fh, raw).extra) <= uint16max

(* The constructor of a compressor that the caller registered may fail,    *)
(* between the check of the level and those of writeHeader.                *)
ConstructorMayFail(fh, raw) == ~raw /\ fh.method = "Custom"

CipherOf(fh) == IF ~fh.password THEN "None"
                ELSE IF writesAES(fh) THEN "AES" ELSE "ZipCrypto"

NewFileWriter(h, fh, raw) ==
  [ fh |-> h, raw |-> raw, method |-> fh.method, enc |-> CipherOf(fh),
    strength |-> fh.aesStrength, first |-> fh.password,
    rawCount |-> 0, compCount |-> 0, hashed |-> 0, closed |-> FALSE ]

(* writeHeader, for a header that PreparedHeader returned.                 *)
NewBlock(fh, packed, at) ==
  [ at |-> at, local |-> LocalHeaderLen(fh), flags |-> fh.flags,
    packed |-> packed, cipher |-> 0, data |-> 0, auth |-> 0,
    descriptor |-> <<>> ]

-----------------------------------------------------------------------------
(* Write and Close.                                                        *)

(* The header a cipher puts in front of the data: 12 bytes for ZipCrypto,  *)
(* a salt of half the key and 2 bytes of password verification for AES.    *)
CipherHeaderLen(fw) ==
  CASE fw.enc = "ZipCrypto" -> zipCryptoHeaderLen
    [] fw.enc = "AES"       -> 4 * (fw.strength + 1) + 2
    [] OTHER                -> 0

(* Raw and stored data pass through as they come; a compressor hands on    *)
(* what it likes.                                                          *)
PassesThrough(fw) == fw.raw \/ fw.method = "Store"

(* The compressor hands c bytes to the encryption writer, which starts     *)
(* with the header of the cipher; even an empty write starts it.           *)
StartsCipher(fw, c) == fw.first /\ (c > 0 \/ PassesThrough(fw))

HeaderOnWrite(fw, c) == IF StartsCipher(fw, c) THEN CipherHeaderLen(fw) ELSE 0

(* Write of n bytes, for which the compressor hands on c.                  *)
Written(fw, n, c) ==
  [ fw EXCEPT !.first = @ /\ ~StartsCipher(fw, c),
              !.rawCount = @ + n,
              !.hashed = IF fw.raw THEN @ ELSE @ + n,
              !.compCount = @ + HeaderOnWrite(fw, c) + c ]

WrittenBlock(b, fw, c) ==
  [ b EXCEPT !.cipher = @ + HeaderOnWrite(fw, c), !.data = @ + c ]

(* Mutated form: the header of the cipher is left to the first Write.      *)
HeaderOnCloseNever(fw) == 0
(* Close: an encryption writer that was never written to still has its     *)
(* header to write.                                                        *)
HeaderOnClose(fw) == IF fw.first THEN CipherHeaderLen(fw) ELSE 0

AuthLen(fw) == IF fw.enc = "AES" THEN authCodeLen ELSE 0

(* Mutated form: the authentication code is not counted.                   *)
FinishedWithoutAuth(fw, d) ==
  [ fw EXCEPT !.first = FALSE, !.closed = TRUE,
              !.compCount = @ + HeaderOnClose(fw) + d ]
(* Close, when the compressor has d more bytes to hand on.                 *)
Finished(fw, d) ==
  [ fw EXCEPT !.first = FALSE, !.closed = TRUE,
              !.compCount = @ + HeaderOnClose(fw) + d + AuthLen(fw) ]

(* Mutated form: the 32 bit sizes are not saturated.                       *)
UpdatedHeaderUnsaturated(fh, fw) ==
  [ fh EXCEPT !.csize64 = fw.compCount, !.csize = fw.compCount,
              !.usize64 = IF fw.raw THEN @ ELSE fw.rawCount,
              !.usize = IF fw.raw THEN fh.usize64 ELSE fw.rawCount,
              !.xxh3 = IF fw.raw THEN @ ELSE Xxh3(fw.hashed),
              !.crc = IF fw.enc = "AES" THEN 0
                      ELSE IF fw.raw THEN @ ELSE Crc(fw.hashed) ]
(* The header after Close; fw is finished.  AE-2 stores no CRC.            *)
UpdatedHeader(fh, fw) ==
  LET crc   == IF fw.enc = "AES" THEN 0
               ELSE IF fw.raw THEN fh.crc ELSE Crc(fw.hashed)
      sized == [ fh EXCEPT !.csize64 = fw.compCount,
                           !.usize64 = IF fw.raw THEN @ ELSE fw.rawCount,
                           !.xxh3 = IF fw.raw THEN @ ELSE Xxh3(fw.hashed),
                           !.crc = crc ]
  IN IF isZip64(sized)
     THEN [ sized EXCEPT !.csize = uint32max, !.usize = uint32max,
                         !.version = zipVersion45 ]
     ELSE [ sized EXCEPT !.csize = sized.csize64, !.usize = sized.usize64 ]

(* The data descriptor of an updated header: 8 byte sizes for zip64, and   *)
(* no signature for AES.                                                   *)
Descriptor(fh, fw) ==
  [ crc |-> fh.crc, csize |-> fh.csize64, usize |-> fh.usize64,
    len |-> (IF isZip64(fh) THEN dataDescriptor64Len ELSE dataDescriptorLen)
              - (IF fw.enc = "AES" THEN 4 ELSE 0) ]

FinishedBlock(b, fw, fh, d) ==
  [ b EXCEPT !.cipher = @ + HeaderOnClose(fw), !.data = @ + d,
             !.auth = @ + AuthLen(fw),
             !.descriptor = <<Descriptor(fh, fw)>> ]

(* Close, when Close of the compressor fails after handing on d bytes: the *)
(* file is closed, its header is not updated and no descriptor follows.    *)
Abandoned(fw, d) ==
  [ fw EXCEPT !.closed = TRUE, !.first = @ /\ ~StartsCipher(fw, d),
              !.compCount = @ + HeaderOnWrite(fw, d) + d ]

(* The writer below refuses: a bytes arrive of what one call had to write, *)
(* the h bytes of the cipher's header first.  What arrives of the          *)
(* authentication code is counted with the data.                           *)
ArrivedBlock(b, h, a) ==
  LET c == IF a < h THEN a ELSE h
  IN [ b EXCEPT !.cipher = @ + c, !.data = @ + (a - c) ]

(* Write of n bytes then: they are hashed all the same.  ZipCrypto does    *)
(* not begin its header twice, AES does.                                   *)
WrittenShort(fw, n, h, a) ==
  [ fw EXCEPT !.first = @ /\ (h = 0 \/ (fw.enc = "AES" /\ a < h)),
              !.hashed = IF fw.raw THEN @ ELSE @ + n,
              !.rawCount = @ + (IF PassesThrough(fw) /\ a > h THEN a - h ELSE 0),
              !.compCount = @ + a ]

(* Close then: the header is not updated, and no descriptor follows.       *)
FinishedShort(fw, a) ==
  [ fw EXCEPT !.first = FALSE, !.closed = TRUE, !.compCount = @ + a ]

(* The bytes a compressor may still hold when it is closed: Deflate ends   *)
(* with a final block.                                                     *)
Tails(fw) == IF PassesThrough(fw) THEN {0}
             ELSE IF fw.method = "Deflate" THEN {1}
             ELSE {0, 1}

-----------------------------------------------------------------------------
(* The length of the central directory: the records as they are encoded    *)
(* one after the other.                                                    *)
DirectorySize(records) ==
  Fold!FoldLeft(LAMBDA n, rec : n + RecordLen(rec), 0, records)

(* A header as a caller hands it in, with or without a password: the       *)
(* fields that the writer adds to the extra are not there yet, and         *)
(* SetPassword has set the flag.  (SetPassword, crypto.go)                 *)
CleanHeader(f) ==
  /\ f.extra.zip64 = <<>>
  /\ ~writesAES(f) => f.extra.aes = <<>>
  /\ f.password => "encrypted" \in f.flags

(* The 32 bit sizes hold what the 64 bit ones do when those fit, as the    *)
(* record takes them from there.  (DirectoryHeader)                        *)
SizesSettled(f) == ~isZip64(f) => f.csize = f.csize64 /\ f.usize = f.usize64

(* What a reader makes of a record agrees with the entry it finds: its     *)
(* payload has the length the record says, is preceded by a local header   *)
(* and followed by a descriptor that say the same.                         *)
Agrees(rec, b) ==
  LET r == ReadDirectoryHeader(rec)
  IN /\ r.flags = b.flags
     /\ r.csize64 = PayloadLen(b)
     /\ b.descriptor[1].crc = r.crc
     /\ b.descriptor[1].csize = r.csize64
     /\ b.descriptor[1].usize = r.usize64
     /\ "encrypted" \notin r.flags => b.cipher = 0
     /\ r.method = b.packed
=============================================================================
