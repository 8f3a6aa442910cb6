--------------------------- MODULE DetachedWriter ---------------------------
(***************************************************************************)
(* The detached Writer of writer.go and raw_writer.go: goroutines write    *)
(* the parts of an archive, each to a writer of its own, and register them *)
(* under w.mu; the central directory is generated at the end, by Close or  *)
(* by GetCentralDirectoryBytes, and the caller puts the parts together in  *)
(* the order of the directory.                                             *)
(*                                                                         *)
(* An action is what one goroutine does between two operations on w.mu.    *)
(* generateCentralDirectory holds w.mu throughout; it is cut into its      *)
(* sort, the iterations of its loop and the encoding.  One goroutine may   *)
(* call Close and another GetCentralDirectoryBytes, both once all parts    *)
(* are created and closed (README.md:108).                                 *)
(***************************************************************************)
EXTENDS FileWriter

CONSTANTS
  NoFile,        (* no file writer, and no bytes, for a part               *)
  Initial,       (* the headers given to CreateFileParts                   *)
  Built,         (* the headers given to AddFileWithOffset, of entries the *)
                 (* caller has built by hand                               *)
  Explicit,      (* the offsets given to AddFileWithOffset                 *)
  Orders,        (* the order arguments                                    *)
  Sizes,         (* lengths of the slices given to Write                   *)
  Compressed,    (* what a compressor hands on during one Write            *)
  MaxRaw,        (* bound: bytes written to one part                       *)
  Late           (* parts are also created after a call that has failed    *)

ASSUME NoFileAssumption == NoFile \notin FileWriters \cup Blocks
ASSUME HeadersAssumption == Initial \cup Built \subseteq FileHeaders(Methods)
ASSUME NumbersAssumption ==
  /\ Explicit \subseteq Nat
  /\ Orders \subseteq Int
  /\ Sizes \subseteq Nat
  /\ Compressed \subseteq Nat
ASSUME LateAssumption == Late \in BOOLEAN

VARIABLES
  fh,       (* the FileHeader of each part                                 *)
  order,    (* its order                                                   *)
  part,     (* how far the goroutine of the part has come                  *)
  file,     (* its fileWriter                                              *)
  block,    (* what it has written                                         *)
  given,    (* the offset AddFileWithOffset was given                      *)
  dir,      (* w.dir                                                       *)
  log,      (* the parts in the order they were registered                 *)
  lock,     (* who holds w.mu                                              *)
  pc,       (* how far each caller of generateCentralDirectory has come    *)
  placed,   (* the iterations its loop has done                            *)
  offset,   (* its variable offset                                         *)
  closed,   (* w.closed                                                    *)
  cd        (* w.centralDirectory, or <<>> for nil                         *)

parts == <<fh, order, part, file, block, given>>
generator == <<lock, placed, offset>>
vars == <<parts, dir, log, generator, pc, closed, cd>>

Callers == {"Close", "GetCentralDirectoryBytes"}

(* A part is made once newFileWriter has returned and registered once it   *)
(* is open; added by AddFileWithOffset, it is neither.                     *)
PartStates == {"new", "made", "open", "closed", "added", "failed"}

CallStates ==
  {"idle", "called", "sort", "place", "encode", "returned", "failed", "again"}

(* The zero value of a FileHeader.                                         *)
ZeroHeader ==
  [ name |-> 0, comment |-> 0, extra |-> NoExtra, version |-> 0, flags |-> {},
    method |-> "Store", level |-> 0, crc |-> 0, xxh3 |-> 0,
    csize |-> 0, usize |-> 0, csize64 |-> 0, usize64 |-> 0,
    encryption |-> "None", password |-> FALSE, aesStrength |-> 0 ]

Entries == [ fh : Headers, offset : Nat ]

TypeOK ==
  /\ fh \in [Headers -> FileHeaders(Methods)]
  /\ order \in [Headers -> Int]
  /\ part \in [Headers -> PartStates]
  /\ file \in [Headers -> FileWriters \cup {NoFile}]
  /\ block \in [Headers -> Blocks \cup {NoFile}]
  /\ given \in [Headers -> Nat]
  /\ dir \in Seq(Entries)
  /\ log \in Seq(Headers)
  /\ lock \in Callers \cup {"free"}
  /\ pc \in [Callers -> CallStates]
  /\ placed \in 0 .. Len(dir)
  /\ offset \in Nat
  /\ closed \in BOOLEAN

Init ==
  /\ fh = [ p \in Headers |-> ZeroHeader ]
  /\ order = [ p \in Headers |-> 0 ]
  /\ part = [ p \in Headers |-> "new" ]
  /\ file = [ p \in Headers |-> NoFile ]
  /\ block = [ p \in Headers |-> NoFile ]
  /\ given = [ p \in Headers |-> 0 ]
  /\ dir = <<>>
  /\ log = <<>>
  /\ lock = "free"
  /\ pc = [ c \in Callers |-> "idle" ]
  /\ placed = 0
  /\ offset = 0
  /\ closed = FALSE
  /\ cd = <<>>

-----------------------------------------------------------------------------
(* The goroutines that write the parts.                                    *)

(* GetCentralDirectoryBytes "should be called after all file parts have    *)
(* been created and closed" (README.md:108).                               *)
Creating ==
  \A c \in Callers : pc[c] \in {"idle"} \cup (IF Late THEN {"again"} ELSE {})

(* newFileWriter or newRawFileWriter, called by CreateFileParts and        *)
(* CreateRawFileParts without w.mu.  An error of partWriter, or of the     *)
(* constructor of a compressor, is reported like one of the checks, and    *)
(* nothing is registered then.                                             *)
NewPart(p, f, n, raw) ==
  /\ Creating
  /\ part[p] = "new"
  /\ fh' = [ fh EXCEPT ![p] = PreparedHeader(f, raw) ]
  /\ order' = [ order EXCEPT ![p] = n ]
  /\ \/ /\ Creatable(f, raw)
        /\ part' = [ part EXCEPT ![p] = "made" ]
        /\ file' = [ file EXCEPT ![p] = NewFileWriter(p, f, raw) ]
        /\ block' = [ block EXCEPT ![p] = NewBlock(fh'[p], f.method, 0) ]
     \/ /\ part' = [ part EXCEPT ![p] = "failed" ]
        /\ UNCHANGED <<file, block>>
  /\ UNCHANGED <<given, dir, log, generator, pc, closed, cd>>

Registered(p, at) ==
  /\ lock = "free"
  /\ dir' = Append(dir, [ fh |-> p, offset |-> at ])
  /\ log' = Append(log, p)

(* addDetachedHeader, called by both.                                      *)
Register(p) ==
  /\ part[p] = "made"
  /\ Registered(p, 0)
  /\ part' = [ part EXCEPT ![p] = "open" ]
  /\ UNCHANGED <<fh, order, file, block, given, generator, pc, closed, cd>>

AddFileWithOffset(p, f, n, at) ==
  /\ Creating
  /\ part[p] = "new"
  /\ Registered(p, at)
  /\ fh' = [ fh EXCEPT ![p] = f ]
  /\ order' = [ order EXCEPT ![p] = n ]
  /\ given' = [ given EXCEPT ![p] = at ]
  /\ part' = [ part EXCEPT ![p] = "added" ]
  /\ UNCHANGED <<file, block, generator, pc, closed, cd>>

Write(p, n, c) ==
  /\ part[p] = "open"
  /\ file[p].rawCount + n <= MaxRaw
  /\ IF PassesThrough(file[p]) THEN c = n ELSE c \in Compressed
  /\ n = 0 => c = 0
  /\ file' = [ file EXCEPT ![p] = Written(@, n, c) ]
  /\ block' = [ block EXCEPT ![p] = WrittenBlock(@, file[p], c) ]
  /\ UNCHANGED <<fh, order, part, given, dir, log, generator, pc, closed, cd>>

ClosePart(p, d) ==
  /\ part[p] = "open"
  /\ d \in Tails(file[p])
  /\ file' = [ file EXCEPT ![p] = Finished(@, d) ]
  /\ fh' = [ fh EXCEPT ![p] = UpdatedHeader(@, file'[p]) ]
  /\ block' = [ block EXCEPT ![p] = FinishedBlock(@, file[p], fh'[p], d) ]
  /\ part' = [ part EXCEPT ![p] = "closed" ]
  /\ UNCHANGED <<order, given, dir, log, generator, pc, closed, cd>>

(* partWriter fails, or a compressor of the caller's in its Write, which   *)
(* ends the part: the goroutine gives it up, it stays in the directory,    *)
(* and the archive cannot be finished.  Bound: of len bytes nothing        *)
(* arrives, or all but the last one.                                       *)
Cuts(len) == IF len = 0 THEN {} ELSE {0, len - 1}

GivenUp(p) ==
  /\ part[p] = "open"
  /\ part' = [ part EXCEPT ![p] = "failed" ]
  /\ UNCHANGED <<order, given, dir, log, generator, pc, closed, cd>>

WriteFails(p, n, c) ==
  LET h == HeaderOnWrite(file[p], c)
  IN /\ GivenUp(p)
     /\ IF PassesThrough(file[p]) THEN c = n ELSE c \in Compressed
     /\ \E a \in Cuts(h + c) :
          /\ file' = [ file EXCEPT ![p] = WrittenShort(@, n, h, a) ]
          /\ block' = [ block EXCEPT ![p] = ArrivedBlock(@, h, a) ]
     /\ UNCHANGED fh

(* While Close of a part writes the last of the data, the header of a      *)
(* cipher that has none yet, or the authentication code.                   *)
ClosePartFails(p, d) ==
  LET h == HeaderOnClose(file[p])
  IN /\ GivenUp(p)
     /\ d \in Tails(file[p])
     /\ \E a \in Cuts(h + d + AuthLen(file[p])) :
          /\ file' = [ file EXCEPT ![p] = FinishedShort(@, a) ]
          /\ block' = [ block EXCEPT ![p] = ArrivedBlock(@, h, a) ]
     /\ UNCHANGED fh

(* When it writes the descriptor the header has been updated.              *)
DescriptorFails(p, d) ==
  /\ GivenUp(p)
  /\ d \in Tails(file[p])
  /\ file' = [ file EXCEPT ![p] = Finished(@, d) ]
  /\ fh' = [ fh EXCEPT ![p] = UpdatedHeader(@, file'[p]) ]
  /\ block' = [ block EXCEPT ![p] =
                 [ FinishedBlock(@, file[p], fh'[p], d) EXCEPT !.descriptor = <<>> ] ]

(* The compressor fails by itself, having handed on d bytes.               *)
CompressorFails(p, d) ==
  /\ GivenUp(p)
  /\ file[p].method = "Custom" /\ ~file[p].raw
  /\ d \in Tails(file[p])
  /\ file' = [ file EXCEPT ![p] = Abandoned(@, d) ]
  /\ block' = [ block EXCEPT ![p] = WrittenBlock(@, file[p], d) ]
  /\ UNCHANGED fh

-----------------------------------------------------------------------------
(* Close and GetCentralDirectoryBytes.                                     *)

Complete ==
  /\ \A p \in Headers : part[p] \notin {"made", "open"}
  /\ \A i \in 1 .. Len(dir) : part[dir[i].fh] # "failed"

(* Close sets w.closed and calls generateCentralDirectory; it does so only *)
(* once, and reports a second call as an error.                            *)
CallClose ==
  /\ Complete
  /\ pc["Close"] # "called" /\ lock # "Close"
  /\ closed' = TRUE
  /\ pc' = [ pc EXCEPT !["Close"] = IF closed THEN "failed" ELSE "called" ]
  /\ UNCHANGED <<parts, dir, log, generator, cd>>

CallGet ==
  /\ Complete
  /\ pc["GetCentralDirectoryBytes"] \in {"idle", "again", "returned"}
  /\ pc' = [ pc EXCEPT !["GetCentralDirectoryBytes"] = "called" ]
  /\ UNCHANGED <<parts, dir, log, generator, closed, cd>>

(* w.mu.Lock(), and the return when the directory is already there.        *)
Lock(c) ==
  /\ pc[c] = "called"
  /\ lock = "free"
  /\ IF cd # <<>>
     THEN /\ pc' = [ pc EXCEPT ![c] = "returned" ]
          /\ UNCHANGED lock
     ELSE /\ pc' = [ pc EXCEPT ![c] = "sort" ]
          /\ lock' = c
  /\ UNCHANGED <<parts, dir, log, placed, offset, closed, cd>>

(* Mutated form: entries of equal order come in any order.                 *)
BeforeUnstable(i, j) == order[dir[i].fh] <= order[dir[j].fh]
(* sort.SliceStable, by order: q[k] is where the k-th entry was.           *)
Before(i, j) ==
  \/ order[dir[i].fh] < order[dir[j].fh]
  \/ order[dir[i].fh] = order[dir[j].fh] /\ i < j

Permutation(n) ==
  { q \in [1 .. n -> 1 .. n] : \A k \in 1 .. n : \E i \in 1 .. n : q[i] = k }

SortDir(c) ==
  /\ pc[c] = "sort"
  /\ \E q \in Permutation(Len(dir)) :
       /\ \A i, j \in 1 .. Len(dir) : i < j => Before(q[i], q[j])
       /\ dir' = [ k \in 1 .. Len(dir) |-> dir[q[k]] ]
  /\ placed' = 0
  /\ offset' = 0
  /\ pc' = [ pc EXCEPT ![c] = "place" ]
  /\ UNCHANGED <<parts, log, lock, closed, cd>>

(* Mutated form: every descriptor is taken to carry a signature.           *)
PartLenSigned(f) ==
  LocalHeaderLen(f) + f.csize64
    + (IF isZip64(f) THEN dataDescriptor64Len ELSE dataDescriptorLen)
(* The length the generator takes a part to have.                          *)
PartLen(f) == LocalHeaderLen(f) + f.csize64 + DescriptorLen(f)

(* An offset other than 0 is kept: it was given, or computed earlier.      *)
OffsetOf(entry) == IF entry.offset > 0 THEN entry.offset ELSE offset

(* One iteration of the loop.                                              *)
Place(c) ==
  /\ pc[c] = "place"
  /\ placed < Len(dir)
  /\ LET entry == dir[placed + 1]
         at    == OffsetOf(entry)
     IN /\ dir' = [ dir EXCEPT ![placed + 1].offset = at ]
        /\ offset' = at + PartLen(fh[entry.fh])
  /\ placed' = placed + 1
  /\ UNCHANGED <<parts, log, lock, pc, closed, cd>>

PlaceEnds(c) ==
  /\ pc[c] = "place"
  /\ placed = Len(dir)
  /\ pc' = [ pc EXCEPT ![c] = "encode" ]
  /\ UNCHANGED <<parts, dir, log, generator, closed, cd>>

Records ==
  [ i \in 1 .. Len(dir) |-> DirectoryHeader(fh[dir[i].fh], dir[i].offset) ]

RecordsFit ==
  \A i \in 1 .. Len(dir) : DirectoryHeaderFits(fh[dir[i].fh], dir[i].offset)

Encode(c) ==
  /\ pc[c] = "encode"
  /\ RecordsFit
  /\ cd' = << [ records |-> Records,
                end     |-> DirectoryEnd(Len(dir), DirectorySize(Records), offset) ] >>
  /\ lock' = "free"
  /\ pc' = [ pc EXCEPT ![c] = "returned" ]
  /\ UNCHANGED <<parts, dir, log, placed, offset, closed>>

(* Mutated form: the error is returned with w.mu locked.                   *)
EncodeFailsLocked(c) ==
  /\ pc[c] = "encode"
  /\ ~RecordsFit
  /\ pc' = [ pc EXCEPT ![c] = "failed" ]
  /\ UNCHANGED <<parts, dir, log, generator, closed, cd>>
(* A record does not fit: the offsets already computed stay.               *)
EncodeFails(c) ==
  /\ pc[c] = "encode"
  /\ ~RecordsFit
  /\ lock' = "free"
  /\ pc' = [ pc EXCEPT ![c] = "failed" ]
  /\ UNCHANGED <<parts, dir, log, placed, offset, closed, cd>>

(* After an error the caller shortens the comments of the entries it built *)
(* by hand, and GetCentralDirectoryBytes may be called again.              *)
ShortenComments ==
  /\ \A c \in Callers : pc[c] \in {"idle", "failed"}
  /\ pc["GetCentralDirectoryBytes"] = "failed"
  /\ fh' = [ p \in Headers |->
               IF part[p] = "added" THEN [ fh[p] EXCEPT !.comment = 0 ]
               ELSE fh[p] ]
  /\ pc' = [ pc EXCEPT !["GetCentralDirectoryBytes"] = "again" ]
  /\ UNCHANGED <<order, part, file, block, given, dir, log, generator, closed, cd>>

Generate(c) ==
  \/ Lock(c)
  \/ SortDir(c)
  \/ Place(c)
  \/ PlaceEnds(c)
  \/ Encode(c)
  \/ EncodeFails(c)

Next ==
  \/ \E p \in Headers, f \in Initial, n \in Orders, raw \in BOOLEAN :
       NewPart(p, f, n, raw)
  \/ \E p \in Headers : Register(p)
  \/ \E p \in Headers, f \in Built, n \in Orders, at \in Explicit :
       AddFileWithOffset(p, f, n, at)
  \/ \E p \in Headers, n \in Sizes, c \in Sizes \cup Compressed :
       Write(p, n, c) \/ WriteFails(p, n, c)
  \/ \E p \in Headers, d \in {0, 1} :
       \/ ClosePart(p, d) \/ ClosePartFails(p, d)
       \/ DescriptorFails(p, d) \/ CompressorFails(p, d)
  \/ CallClose
  \/ CallGet
  \/ \E c \in Callers : Generate(c)
  \/ ShortenComments

Spec == Init /\ [][Next]_vars

(* A goroutine inside generateCentralDirectory goes on, and gets w.mu once *)
(* it is free for good; nobody else is asked to move.                      *)
FairSpec == Spec /\ \A c \in Callers : WF_vars(Generate(c))

-----------------------------------------------------------------------------
(* The directory lists every part that was created and added, once, in     *)
(* increasing order; parts of equal order in the order they were           *)
(* registered.  (generateCentralDirectory, addDetachedHeader)              *)
DirectoryOrdered ==
  LET Position(p) == CHOOSE k \in 1 .. Len(log) : log[k] = p
  IN cd # <<>> =>
       /\ Len(dir) = Len(log)
       /\ { dir[i].fh : i \in 1 .. Len(dir) }
            = { p \in Headers : part[p] \in {"closed", "added"} }
       /\ \A i, j \in 1 .. Len(dir) :
            i < j => LET p == dir[i].fh  q == dir[j].fh
                     IN \/ order[p] < order[q]
                        \/ order[p] = order[q] /\ Position(p) < Position(q)

(* Where the parts lie once the caller has put them together in the order  *)
(* of the directory: a part it placed itself at the offset it gave, any    *)
(* other after the one before it.  A part built by hand has the form this  *)
(* package gives it.                                                       *)
SizeOf(p) == IF part[p] = "added" THEN PartLen(fh[p]) ELSE BlockLen(block[p])

Starts ==
  LET start[i \in 1 .. Len(dir)] ==
        LET p == dir[i].fh
        IN IF part[p] = "added" THEN given[p]
           ELSE IF i = 1 THEN 0
           ELSE start[i - 1] + SizeOf(dir[i - 1].fh)
  IN start

(* What the callers hand in: fresh headers, also of the entries built by   *)
(* hand, and no offset 0, which stands for "not given" (writer.go:616).    *)
CleanCalls ==
  /\ \A f \in Initial : CleanHeader(f)
  /\ \A f \in Built : f.extra.zip64 = <<>>
  /\ 0 \notin Explicit

(* The entries built by hand have their sizes in both fields: the record   *)
(* takes the 32 bit ones as they are (writer.go:154).                      *)
SettledCalls == \A f \in Built : SizesSettled(f)

(* Read back from the archive put together so, every record leads to its   *)
(* part and agrees with it, and the end records to the directory right     *)
(* after the last part: also when an earlier call had failed.              *)
AssembledReadsBack ==
  cd # <<>> =>
    LET n   == Len(dir)
        at  == IF n = 0 THEN 0 ELSE Starts[n] + SizeOf(dir[n].fh)
        end == ReadDirectoryEnd(cd[1].end, at + DirectorySize(Records))
    IN /\ end.ok
       /\ end.records = n
       /\ end.offset = at
       /\ \A i \in 1 .. n :
            LET rec == cd[1].records[i]
            IN /\ ReadDirectoryHeader(rec).headerOffset = Starts[i]
               /\ part[dir[i].fh] = "closed" => Agrees(rec, block[dir[i].fh])

(* An offset that was not given is computed: every part created with       *)
(* CreateFileParts follows the one before it ("Only recalculate offset if  *)
(* it was not explicitly provided by AddFileWithOffset", writer.go:615).   *)
ComputedOffsetsFollow ==
  cd # <<>> =>
    \A i \in 1 .. Len(dir) :
      part[dir[i].fh] = "closed" =>
        ReadDirectoryHeader(cd[1].records[i]).headerOffset = Starts[i]

(* Whoever calls for the directory gets an answer, be it an error, even    *)
(* when the other caller's attempt has failed.                             *)
CallsReturn ==
  \A c \in Callers : pc[c] = "called" ~> pc[c] \in {"returned", "failed"}

-----------------------------------------------------------------------------
(* The detached Writer as the caller sees it.                              *)
Registers(p) == \E i \in 1 .. Len(dir) : dir[i].fh = p

EntryOf(p) ==
  [ state |-> CASE part[p] = "open" -> "open"
                [] part[p] \in {"closed", "added"} -> "finished"
                [] part[p] = "failed" /\ Registers(p) -> "abandoned"
                [] OTHER -> "none",
    size  |-> IF part[p] = "added" THEN fh[p].csize64
              ELSE IF Registers(p) THEN PayloadLen(block[p])
              ELSE 0 ]

Listing ==
  [ i \in 1 .. Len(dir) |->
      [ header |-> dir[i].fh,
        size   |-> ReadDirectoryHeader(cd[1].records[i]).csize64 ] ]

Promise ==
  INSTANCE Archive WITH
    Attached <- FALSE,
    entry    <- [ p \in Headers |-> EntryOf(p) ],
    listed   <- IF cd # <<>> THEN <<Listing>> ELSE <<>>

(* The detached Writer keeps what Archive promises, whatever its           *)
(* goroutines do at the same time: parts grow independently, and the       *)
(* directory comes once, with every part as its goroutine left it.         *)
ImplementsArchive == Promise!Spec
=============================================================================
