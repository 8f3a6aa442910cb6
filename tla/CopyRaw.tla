------------------------------ MODULE CopyRaw ------------------------------
(***************************************************************************)
(* CopyRawPart of raw_writer.go: a part is copied into an attached Writer  *)
(* without being compressed again, and given another password.  The call   *)
(* is a process over the Writer, whose actions it takes one by one: it     *)
(* may end at each of them, and leaves there what it has done so far.      *)
(* Between copies the caller uses the Writer as before.                    *)
(*                                                                         *)
(* A part is a record of what its local header says and of what follows.   *)
(* A check byte, a time and a CRC are numbers.  The payload comes from a   *)
(* descriptorStripper, of which RawPart says what it does, or a            *)
(* LimitedReader.                                                          *)
(***************************************************************************)
EXTENDS Writer

CONSTANTS
  Parts,         (* parts to be copied                                     *)
  Times,         (* modification times                                     *)
  Overrides,     (* what modifyHeader may leave                            *)
  MaxInt64,      (* math.MaxInt64                                          *)
  NoCall         (* no CopyRawPart is under way                            *)

PartRecords ==
  [ name : Nat, other : Nat, flags : SUBSET FlagBits, method : Methods,
    time : Times, crc : Nat, usize : Nat,
    data      : Nat,      (* bytes of compressed data                      *)
    check     : Nat,      (* the check byte in the cipher's header         *)
    available : Nat,      (* bytes of the payload that src has             *)
    trailer   : BOOLEAN ] (* and the descriptor behind them                *)

(* OverridableFileHeader; other are the bytes of Extra.  A callback adds   *)
(* none of the fields there that the writer adds itself.                   *)
OverridableFileHeader ==
  [ name : Nat, comment : Nat, other : Nat, xxh3 : Nat, time : Times ]

Calls == [ part : Parts, h : Headers, old : {"none", "right", "wrong"},
           new : BOOLEAN, override : OverridableFileHeader ]

ASSUME PartsAssumption == Parts \subseteq PartRecords
ASSUME CallAssumption  ==
  /\ Times \subseteq Nat /\ MaxInt64 \in Nat
  /\ Overrides \subseteq OverridableFileHeader
  /\ NoCall \notin Calls

VARIABLES
  call,       (* the arguments of the CopyRawPart under way                *)
  step,       (* what it does next                                         *)
  read,       (* bytes of the payload that were read                       *)
  result,     (* what the last copy returned                               *)
  times,      (* ModifiedTime of the FileHeaders                           *)
  start,      (* history: the archive when the copy began                  *)
  stamped,    (* history: the check bytes written, by entry                *)
  copied      (* history: the copies that returned nil, by entry           *)

copyVars == <<call, step, read, result, times, start, stamped, copied>>

CopyTypeOK ==
  /\ TypeOK
  /\ call \in Calls \cup {NoCall}
  /\ step \in {"idle", "cipher", "create", "copy", "close"}
  /\ step = "idle" <=> call = NoCall
  /\ read \in Nat
  /\ step \in {"copy", "close"} => Open /\ last.fh = call.h
  /\ times \in [Headers -> Times]

CopyInit ==
  /\ Init
  /\ call = NoCall /\ step = "idle" /\ read = 0 /\ result = "none"
  /\ times \in [Headers -> Times]
  /\ start = <<>> /\ stamped = {} /\ copied = {}

Archive == <<dir, blocks, count>>

-----------------------------------------------------------------------------
(* zipCryptoCheckBytes: the second byte.                                   *)
zipCryptoCheckBytes(flags, time, crc) ==
  IF "descriptor" \in flags THEN time ELSE crc

sourceEncrypted(part) == "encrypted" \in part.flags
hasDescriptor(part)   == "descriptor" \in part.flags

PayloadSize(part) ==
  part.data + IF sourceEncrypted(part) THEN zipCryptoHeaderLen ELSE 0

(* Without modifyHeader the fields stay as ReadLocalFileHeader read them.  *)
Overridden(part) ==
  Overrides \cup { [ name |-> part.name, comment |-> 0, other |-> part.other,
                     xxh3 |-> 0, time |-> part.time ] }

(* The FileHeader of the copy: ReadLocalFileHeader, without the zip64      *)
(* field, overridden, and with the new password.  With a descriptor the    *)
(* CRC and the sizes of the local header are 0.                            *)
CopiedHeader(part, new, override) ==
  LET known(n) == IF hasDescriptor(part) THEN 0 ELSE n
      rekeyed  == new /\ sourceEncrypted(part)
  IN [ name |-> override.name, comment |-> override.comment,
       version |-> 0, level |-> 0,
       extra |-> [ NoExtra EXCEPT !.other = override.other ],
       flags |-> IF rekeyed THEN part.flags ELSE part.flags \ {"encrypted"},
       method |-> part.method, crc |-> known(part.crc), xxh3 |-> override.xxh3,
       csize |-> 0, usize |-> 0,
       csize64 |-> known(PayloadSize(part)), usize64 |-> known(part.usize),
       encryption |-> IF rekeyed THEN "Standard" ELSE "None",
       password |-> rekeyed, aesStrength |-> 0 ]

(* Mutated form: the cipher's header is read after the entry was created.  *)
StepAfterCreateFirst(s) ==
  CASE s = "begin"  -> "create"
    [] s = "create" -> IF sourceEncrypted(call.part) THEN "cipher" ELSE "copy"
    [] s = "cipher" -> "copy"
(* Reject a wrong password before writing anything.                        *)
StepAfter(s) ==
  CASE s = "begin"  -> IF sourceEncrypted(call'.part) THEN "cipher" ELSE "create"
    [] s = "cipher" -> "create"
    [] s = "create" -> "copy"

Returns(r) ==
  /\ result' = r
  /\ step' = "idle"
  /\ call' = NoCall

(* The call up to the point where the payload is set up; the local header  *)
(* becomes the copy's, with what modifyHeader gives it.                    *)
CopyRawPart(h, part, old, new, override) ==
  /\ step = "idle" /\ Usable
  /\ \A i \in 1 .. Len(dir) : dir[i].fh # h
  /\ fh' = [ fh EXCEPT ![h] = CopiedHeader(part, new, override) ]
  /\ times' = [ times EXCEPT ![h] = override.time ]
  /\ start' = Archive
  /\ read' = 0
  /\ IF sourceEncrypted(part) /\ part.method = "AES" THEN Returns("unsupported")
     ELSE IF sourceEncrypted(part) /\ old = "none" THEN Returns("ErrPassword")
     ELSE IF ~hasDescriptor(part) /\ PayloadSize(part) > MaxInt64
          THEN Returns("ErrFormat")
     ELSE /\ call' = [ part |-> part, h |-> h, old |-> old, new |-> new,
                       override |-> override ]
          /\ step' = StepAfter("begin")
          /\ UNCHANGED result
  /\ UNCHANGED <<dir, last, closed, count, base, blocks, sink, cd, stamped, copied>>

(* Mutated form: the check byte is taken after the override.               *)
SourceCheckLate(c) ==
  zipCryptoCheckBytes(c.part.flags, times[c.h], c.part.crc)
SourceCheck(c) ==
  zipCryptoCheckBytes(c.part.flags, c.part.time, c.part.crc)

(* dr.readHeader(): what a wrong password makes of the byte may be right.  *)
ReadCipherHeader ==
  /\ step = "cipher"
  /\ \E found \in IF call.old = "right" THEN {call.part.check}
                  ELSE {SourceCheck(call), SourceCheck(call) + 1} :
       IF call.part.available < zipCryptoHeaderLen
       THEN Returns("ErrUnexpectedEOF") /\ UNCHANGED read
       ELSE IF found # SourceCheck(call)
       THEN Returns("ErrPassword") /\ UNCHANGED read
       ELSE /\ read' = zipCryptoHeaderLen
            /\ step' = StepAfter("cipher")
            /\ UNCHANGED <<call, result>>
  /\ UNCHANGED vars
  /\ UNCHANGED <<times, start, stamped, copied>>

(* Mutated form: the error of CreateRaw is not looked at.                  *)
CreateCopyUnchecked ==
  /\ step = "create"
  /\ Create(call.h, TRUE)
  /\ step' = StepAfter("create")
  /\ UNCHANGED <<call, result, read, times, start, copied>>
CreateCopy ==
  /\ step = "create"
  /\ Create(call.h, TRUE)
  /\ IF Len(dir') > Len(dir)
     THEN step' = StepAfter("create") /\ UNCHANGED <<call, result>>
     ELSE Returns("error")
  /\ UNCHANGED <<read, times, start, copied>>

(* io.Copy: a piece of the payload.                                        *)
CopySome(n) ==
  /\ step = "copy"
  /\ n \in 1 .. call.part.available - read
  /\ Write(n, n)
  /\ read' = read + n
  /\ UNCHANGED <<call, step, result, times, start, copied>>

(* An error of src, while the local header, the header of the cipher or    *)
(* the payload is read, or of the sink: an entry that was created stays    *)
(* open.                                                                   *)
CopyFails ==
  /\ step \in {"cipher", "copy"} \/ (step = "idle" /\ Usable)
  /\ Returns("error")
  /\ UNCHANGED vars
  /\ UNCHANGED <<read, times, start, stamped, copied>>

(* Mutated form: only the checksum is taken from the descriptor.           *)
DescribedCrcOnly(f, part) == [ f EXCEPT !.crc = part.crc ]
(* fh takes over what the descriptor says.                                 *)
Described(f, part) ==
  IF hasDescriptor(part)
  THEN [ f EXCEPT !.crc = part.crc, !.csize64 = PayloadSize(part),
                  !.usize64 = part.usize ]
  ELSE f

(* The payload has ended: is it the whole of it?                           *)
CopyEnds ==
  /\ step = "copy"
  /\ read = call.part.available
  /\ IF hasDescriptor(call.part) /\ ~call.part.trailer
     THEN Returns("NoDescriptor") /\ UNCHANGED fh
     ELSE IF call.part.available < PayloadSize(call.part)
     THEN Returns("ErrUnexpectedEOF") /\ UNCHANGED fh
     ELSE /\ fh' = [ fh EXCEPT ![call.h] = Described(@, call.part) ]
          /\ step' = "close"
          /\ UNCHANGED <<call, result>>
  /\ UNCHANGED <<dir, last, closed, count, base, blocks, sink, cd>>
  /\ UNCHANGED <<read, times, start, stamped, copied>>

CloseCopy ==
  /\ step = "close"
  /\ CloseEntry
  /\ IF blocks'[Len(blocks)].descriptor # <<>>
     THEN /\ Returns("nil")
          /\ copied' = copied \cup { [ at |-> Len(blocks), of |-> call ] }
     ELSE Returns("error") /\ UNCHANGED copied
  /\ UNCHANGED <<read, times, start>>

(* The header of a ZipCrypto entry goes out with its first data, or when   *)
(* it is closed, and holds the check byte of that moment.                  *)
Stamps ==
  stamped' = stamped \cup
    { [ at |-> i, check |-> LET f == fh[dir[i].fh]
                            IN zipCryptoCheckBytes(f.flags, times[dir[i].fh], f.crc) ] :
      i \in { j \in DOMAIN blocks : /\ CipherOf(fh[dir[j].fh]) = "ZipCrypto"
                                    /\ blocks[j].cipher = 0
                                    /\ blocks'[j].cipher > 0 } }

CopyNext ==
  \/ \E h \in Headers, part \in Parts, old \in {"none", "right", "wrong"},
        new \in BOOLEAN :
       \E override \in Overridden(part) : CopyRawPart(h, part, old, new, override)
  \/ ReadCipherHeader
  \/ CreateCopy /\ Stamps
  \/ \E n \in 1 .. MaxRaw : CopySome(n) /\ Stamps
  \/ CopyFails
  \/ CopyEnds
  \/ CloseCopy /\ Stamps

(* The caller's own calls, between copies.                                 *)
OwnNext ==
  /\ step = "idle"
  /\ \/ \E h \in Headers : Fresh(h) /\ Create(h, FALSE)
     \/ \E n \in Sizes, c \in Sizes \cup Compressed : Write(n, c)
     \/ CloseEntry
     \/ Close
  /\ Stamps
  /\ UNCHANGED <<call, step, read, result, times, start, copied>>

SinkBreaks == SinkFails /\ UNCHANGED copyVars

CopySpec == CopyInit /\ [][CopyNext \/ OwnNext \/ SinkBreaks]_<<vars, copyVars>>

-----------------------------------------------------------------------------
(* A copy that returned nil is found in the directory with the CRC and the *)
(* sizes of its source, and holds all of its data: the descriptor of the   *)
(* source has replaced what its local header left open, and no later call  *)
(* takes that back.                                                        *)
CopiesReadBack ==
  \A c \in copied :
    LET part == c.of.part
        r == ReadDirectoryHeader(DirectoryHeader(fh[c.of.h], dir[c.at].offset))
        b == blocks[c.at]
    IN /\ r.crc = part.crc
       /\ r.usize64 = part.usize
       /\ r.method = part.method
       /\ r.headerOffset = b.at
       /\ b.data = part.data
       /\ b.descriptor[1].usize = part.usize

(* The check byte of an entry is the one that a reader derives from its    *)
(* record in the directory: the modification time and the flags are as     *)
(* they were when the header of the cipher was written.                    *)
CheckBytesMatch ==
  \A s \in stamped :
    LET f == fh[dir[s.at].fh]
    IN blocks[s.at].descriptor # <<>> =>
         s.check = zipCryptoCheckBytes(f.flags, times[dir[s.at].fh], f.crc)

(* A right password is never refused, whatever modifyHeader makes of the   *)
(* time.                                                                   *)
RightPasswordAccepted ==
  [][ step = "cipher" /\ step' = "idle" /\ call.old = "right" =>
        result' # "ErrPassword" ]_<<vars, copyVars>>

(* "a wrong oldPassword is reported as ErrPassword before anything is      *)
(* written" (raw_writer.go:134): the archive is then what it was when the  *)
(* copy began.                                                             *)
RefusedUntouched ==
  [][ step # "idle" /\ step' = "idle" /\ result' = "ErrPassword" =>
        start = Archive' ]_<<vars, copyVars>>

=============================================================================
