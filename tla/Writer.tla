------------------------------- MODULE Writer -------------------------------
(***************************************************************************)
(* The attached Writer of writer.go and raw_writer.go: entries are written *)
(* one after the other into one stream, behind a counter and a bufio       *)
(* buffer, and Close adds the central directory.                           *)
(*                                                                         *)
(* The caller is the environment.  It creates entries, writes to them and  *)
(* closes the Writer in any order, also after an error, within what the    *)
(* documentation asks of it (Fresh, Usable).  A Writer is not meant for    *)
(* concurrent use, so an action is a whole call.                           *)
(***************************************************************************)
EXTENDS FileWriter, FiniteSets

CONSTANTS
  NoFile,        (* w.last is nil                                          *)
  Initial,       (* the headers callers set up, before the first call      *)
  Offsets,       (* arguments of SetOffset                                 *)
  Sizes,         (* lengths of the slices given to Write                   *)
  Compressed,    (* what a compressor hands on during one Write            *)
  MaxEntries,    (* bound: entries of the archive                          *)
  MaxRaw,        (* bound: bytes written to one entry                      *)
  MaxRetries     (* bound: failed attempts to create an entry with one     *)
                 (* header, each of which may grow its extra               *)

ASSUME NoFileAssumption == NoFile \notin FileWriters
ASSUME InitialAssumption == Initial \subseteq FileHeaders(Methods)
ASSUME SizeAssumption ==
  /\ Offsets \subseteq Nat
  /\ Sizes \subseteq Nat
  /\ Compressed \subseteq Nat

VARIABLES
  fh,       (* the FileHeader objects                                      *)
  dir,      (* w.dir                                                       *)
  last,     (* w.last                                                      *)
  closed,   (* w.closed                                                    *)
  count,    (* w.cw.count                                                  *)
  base,     (* where the archive begins in the underlying stream           *)
  blocks,   (* the entries as they lie in the stream                       *)
  sink,     (* "failed" once the bufio.Writer holds an error: it is sticky *)
  cd        (* the central directory, once Close has returned nil          *)

vars == <<fh, dir, last, closed, count, base, blocks, sink, cd>>

Entries == [ fh : Headers, offset : Nat ]

(* The end of what was written to the stream.                              *)
EndOf(b) == IF b = <<>> THEN base ELSE b[Len(b)].at + BlockLen(b[Len(b)])

Sealed == cd # <<>>

Open == last # NoFile /\ ~last.closed

-----------------------------------------------------------------------------
TypeOK ==
  /\ fh \in [Headers -> FileHeaders(Methods)]
  /\ dir \in Seq(Entries)
  /\ last \in FileWriters \cup {NoFile}
  /\ closed \in BOOLEAN
  /\ closed \/ count \in Nat
  /\ base \in Nat
  /\ blocks \in Seq(Blocks)
  /\ sink \in {"ok", "failed"}

Init ==
  /\ fh \in [Headers -> Initial]
  /\ dir = <<>>
  /\ last = NoFile
  /\ closed = FALSE
  /\ count = 0
  /\ base = 0
  /\ blocks = <<>>
  /\ sink = "ok"
  /\ cd = <<>>

-----------------------------------------------------------------------------
(* What w.last.Close() may do, as the state it leaves: the header of the   *)
(* entry, the file writer, the entry in the stream, the count, and whether *)
(* nil is returned.                                                        *)
Now == [ fh |-> fh, last |-> last, blocks |-> blocks, count |-> count,
         ok |-> TRUE ]

LastBlock == blocks[Len(blocks)]

(* n bytes of a descriptor went to the stream after those that compCount   *)
(* has seen.                                                               *)
WithLast(fw, f, b, n, ok) ==
  [ fh     |-> [ fh EXCEPT ![last.fh] = f ],
    last   |-> fw,
    blocks |-> [ blocks EXCEPT ![Len(blocks)] = b ],
    count  |-> count + (fw.compCount - last.compCount) + n,
    ok     |-> ok ]

CloseSucceeds(d) ==
  LET fw == Finished(last, d)
      f  == UpdatedHeader(fh[last.fh], fw)
  IN WithLast(fw, f, FinishedBlock(LastBlock, last, f, d),
              Descriptor(f, last).len, TRUE)

CompressorFails(d) ==
  WithLast(Abandoned(last, d), fh[last.fh],
           WrittenBlock(LastBlock, last, d), 0, FALSE)

(* With a failed sink nothing reaches the stream any more; the header is   *)
(* updated all the same when only the descriptor was left to write.        *)
SinkRefuses(updated) ==
  LET fw == [ last EXCEPT !.closed = TRUE ]
  IN WithLast(fw,
              IF updated THEN UpdatedHeader(fh[last.fh], fw) ELSE fh[last.fh],
              LastBlock, 0, FALSE)

CloseLast ==
  IF sink = "ok"
  THEN { CloseSucceeds(d) : d \in Tails(last) }
         \cup { CompressorFails(d) :
                  d \in IF PassesThrough(last) \/ last.method # "Custom"
                        THEN {} ELSE Tails(last) }
  ELSE { SinkRefuses(u) :
           u \in IF last.enc = "None" /\ PassesThrough(last)
                 THEN {TRUE} ELSE BOOLEAN }

(* CreateHeader, CreateRaw and Close begin by closing the entry still open.*)
CloseIfOpen == IF Open THEN CloseLast ELSE {Now}

-----------------------------------------------------------------------------
(* What the caller keeps to: it does not hand in a FileHeader that an      *)
(* earlier entry uses (except by mistake the last one, which the code      *)
(* rejects), and does not create entries once Close has been called.       *)
Fresh(h) == \A i \in 1 .. Len(dir) - 1 : dir[i].fh # h

Usable == ~closed

(* Mutated form: the offset may be set at any time.                        *)
SetOffsetLate(n) ==
  /\ Usable
  /\ count' = n
  /\ base' = n
  /\ UNCHANGED <<fh, dir, last, closed, blocks, sink, cd>>
(* SetOffset panics once anything has been written.                        *)
SetOffset(n) ==
  /\ Usable
  /\ count = 0
  /\ count' = n
  /\ base' = n
  /\ UNCHANGED <<fh, dir, last, closed, blocks, sink, cd>>

(* Mutated form: no header is recognised.                                  *)
IsDuplicateNever(h) == FALSE
IsDuplicate(h) == dir # <<>> /\ dir[Len(dir)].fh = h

(* CreateHeader, and CreateRaw when raw: c is what closing the last entry  *)
(* left.                                                                   *)
AfterClose(c) ==
  /\ last' = c.last
  /\ blocks' = c.blocks
  /\ count' = c.count

CreateRejected(h, raw, c) ==
  /\ ~c.ok \/ IsDuplicate(h)
  /\ fh' = c.fh
  /\ AfterClose(c)
  /\ UNCHANGED dir

CreateFails(h, raw, c) ==
  /\ c.ok /\ ~IsDuplicate(h)
  /\ \/ ~Creatable(c.fh[h], raw)
     \/ ConstructorMayFail(c.fh[h], raw)
     \/ sink = "failed"
  /\ Len(c.fh[h].extra.aes) < MaxRetries
  /\ fh' = [ c.fh EXCEPT ![h] = PreparedHeader(c.fh[h], raw) ]
  /\ AfterClose(c)
  /\ UNCHANGED dir

CreateSucceeds(h, raw, c) ==
  /\ c.ok /\ ~IsDuplicate(h)
  /\ Creatable(c.fh[h], raw) /\ sink = "ok"
  /\ Len(dir) < MaxEntries
  /\ fh' = [ c.fh EXCEPT ![h] = PreparedHeader(c.fh[h], raw) ]
  /\ dir' = Append(dir, [ fh |-> h, offset |-> c.count ])
  /\ last' = NewFileWriter(h, c.fh[h], raw)
  /\ blocks' = Append(c.blocks,
                      NewBlock(PreparedHeader(c.fh[h], raw), c.fh[h].method,
                               EndOf(c.blocks)))
  /\ count' = c.count + LocalHeaderLen(PreparedHeader(c.fh[h], raw))

Create(h, raw) ==
  /\ Usable
  /\ \E c \in CloseIfOpen : \/ CreateRejected(h, raw, c)
                            \/ CreateFails(h, raw, c)
                            \/ CreateSucceeds(h, raw, c)
  /\ UNCHANGED <<closed, base, sink, cd>>

(* Write to the entry created last; the file writers of earlier entries    *)
(* are closed and refuse.  A compressor hands on nothing for an empty      *)
(* slice.  After an error of the sink the caller stops.                    *)
Write(n, c) ==
  /\ Open
  /\ sink = "ok"
  /\ last.rawCount + n <= MaxRaw
  /\ IF PassesThrough(last) THEN c = n ELSE c \in Compressed
  /\ n = 0 => c = 0
  /\ last' = Written(last, n, c)
  /\ blocks' = [ blocks EXCEPT ![Len(blocks)] = WrittenBlock(@, last, c) ]
  /\ count' = count + (last'.compCount - last.compCount)
  /\ UNCHANGED <<fh, dir, closed, base, sink, cd>>

(* w.last.Close(), by CopyRawPart or by the caller of the entry.           *)
CloseEntry ==
  /\ Open
  /\ \E c \in CloseLast : fh' = c.fh /\ AfterClose(c)
  /\ UNCHANGED <<dir, closed, base, sink, cd>>

(* A write that spills the buffer, or Flush, meets an error of the         *)
(* underlying writer.                                                      *)
SinkFails ==
  /\ sink = "ok"
  /\ ~Sealed
  /\ sink' = "failed"
  /\ UNCHANGED <<fh, dir, last, closed, count, base, blocks, cd>>

-----------------------------------------------------------------------------
(* Close.  Its first error is that of the last entry, before the Writer is *)
(* marked closed: the caller may call Close again.                         *)

DirectoryRecords(headers) ==
  [ i \in 1 .. Len(dir) |-> DirectoryHeader(headers[dir[i].fh], dir[i].offset) ]

DirectoryFits(headers) ==
  \A i \in 1 .. Len(dir) : DirectoryHeaderFits(headers[dir[i].fh], dir[i].offset)

CentralDirectory(headers, start) ==
  LET records == DirectoryRecords(headers)
  IN [ at |-> start, records |-> records,
       end |-> DirectoryEnd(Len(dir), DirectorySize(records), start) ]

CloseReturnsEarly(c) ==
  /\ ~c.ok
  /\ AfterClose(c)
  /\ UNCHANGED <<closed, cd>>

CloseWithoutDirectory(c) ==
  /\ c.ok
  /\ ~DirectoryFits(c.fh) \/ sink = "failed"
  /\ closed' = TRUE
  /\ last' = IF Open THEN NoFile ELSE last
  /\ blocks' = c.blocks
  /\ count' = c.count
  /\ UNCHANGED cd

(* Mutated form: the directory is taken from the headers as they were      *)
(* before the last entry was closed.                                       *)
CloseSealsStale(c) ==
  /\ c.ok
  /\ DirectoryFits(c.fh) /\ sink = "ok"
  /\ closed' = TRUE
  /\ last' = IF Open THEN NoFile ELSE last
  /\ blocks' = c.blocks
  /\ count' = c.count
  /\ cd' = << CentralDirectory(fh, c.count) >>
CloseSeals(c) ==
  /\ c.ok
  /\ DirectoryFits(c.fh) /\ sink = "ok"
  /\ closed' = TRUE
  /\ last' = IF Open THEN NoFile ELSE last
  /\ blocks' = c.blocks
  /\ LET directory == CentralDirectory(c.fh, c.count)
     IN /\ cd' = <<directory>>
        /\ count' = c.count + DirectorySize(directory.records)
                      + EndLen(directory.end)

Close ==
  /\ Usable
  /\ \E c \in CloseIfOpen : /\ fh' = c.fh
                            /\ \/ CloseReturnsEarly(c)
                               \/ CloseWithoutDirectory(c)
                               \/ CloseSeals(c)
  /\ UNCHANGED <<dir, base, sink>>

Next ==
  \/ \E n \in Offsets : SetOffset(n)
  \/ \E h \in Headers, raw \in BOOLEAN : Fresh(h) /\ Create(h, raw)
  \/ \E n \in Sizes, c \in Sizes \cup Compressed : Write(n, c)
  \/ CloseEntry
  \/ SinkFails
  \/ Close

Spec == Init /\ [][Next]_vars

-----------------------------------------------------------------------------
(* The offset recorded for an entry is where its local header lies: the    *)
(* count taken when the entry was created has missed no byte, whichever    *)
(* way the entries before it ended.  (CreateHeader, countWriter)           *)
OffsetsPointAtHeaders ==
  /\ Len(dir) = Len(blocks)
  /\ \A i \in 1 .. Len(dir) : dir[i].offset = blocks[i].at

(* As long as entries can be added the count is the position in the        *)
(* stream, SetOffset included.                                             *)
CountIsPosition == ~closed => count = EndOf(blocks)

(* The header of a cipher comes once and before any data, the              *)
(* authentication code once and after all of it, also for an entry that    *)
(* was never written to.  (encryptionWriter, zipCryptoWriter)              *)
Framed ==
  \A i \in 1 .. Len(blocks) :
    LET b == blocks[i]
        f == fh[dir[i].fh]
        header == CASE CipherOf(f) = "ZipCrypto" -> zipCryptoHeaderLen
                    [] CipherOf(f) = "AES" -> 4 * (f.aesStrength + 1) + 2
                    [] OTHER -> 0
    IN /\ b.cipher \in {0, header}
       /\ b.data > 0 \/ b.descriptor # <<>> => b.cipher = header
       /\ b.descriptor # <<>> =>
            b.auth = IF CipherOf(f) = "AES" THEN authCodeLen ELSE 0

(* What a reader makes of a sealed archive: record i leads to entry i, and *)
(* they agree.                                                             *)
ReadsBack(i) ==
  /\ ReadDirectoryHeader(cd[1].records[i]).headerOffset = blocks[i].at
  /\ Agrees(cd[1].records[i], blocks[i])

(* When Close has returned nil the end records lead to the directory, and  *)
(* every entry whose compressor did not fail reads back; an entry that was *)
(* abandoned does not harm the others.  Nothing is left in the buffer.     *)
SealedReadsBack ==
  Sealed =>
    LET end == ReadDirectoryEnd(cd[1].end, EndOf(blocks)
                                             + DirectorySize(cd[1].records))
    IN /\ sink = "ok"
       /\ ~Open
       /\ end.ok
       /\ end.offset = EndOf(blocks)
       /\ end.records = Len(blocks)
       /\ \A i \in 1 .. Len(blocks) : blocks[i].descriptor # <<>> => ReadsBack(i)

(* An entry that is finished stays as it is: nothing is written into it,   *)
(* and no later call, failed ones included, changes what the directory     *)
(* will say of it.                                                         *)
FinishedStays ==
  [][ \A i \in 1 .. Len(blocks) :
        blocks[i].descriptor # <<>> =>
          /\ blocks'[i] = blocks[i]
          /\ dir'[i] = dir[i]
          /\ DirectoryHeader(fh'[dir[i].fh], dir[i].offset)
               = DirectoryHeader(fh[dir[i].fh], dir[i].offset) ]_vars

-----------------------------------------------------------------------------
(* The Writer as the caller sees it, by the headers of the entries.        *)
EntryAt(i) ==
  [ state |-> IF blocks[i].descriptor # <<>> THEN "finished"
              ELSE IF Open /\ i = Len(blocks) THEN "open"
              ELSE "abandoned",
    size  |-> PayloadLen(blocks[i]) ]

EntryOf(h) ==
  IF \E i \in 1 .. Len(dir) : dir[i].fh = h
  THEN EntryAt(CHOOSE i \in 1 .. Len(dir) : dir[i].fh = h)
  ELSE [ state |-> "none", size |-> 0 ]

Listing ==
  [ i \in 1 .. Len(dir) |->
      [ header |-> dir[i].fh,
        size   |-> ReadDirectoryHeader(cd[1].records[i]).csize64 ] ]

Promise ==
  INSTANCE Archive WITH
    Attached <- TRUE,
    entry    <- [ h \in Headers |-> EntryOf(h) ],
    listed   <- IF Sealed THEN <<Listing>> ELSE <<>>

(* The attached Writer keeps what Archive promises: no call, and no        *)
(* failure, changes an entry that is finished, leaves two open, or seals   *)
(* an archive whose directory misses or misstates one.                     *)
ImplementsArchive == Promise!Spec
=============================================================================
