---------------------------- MODULE WriterProofs ----------------------------
(***************************************************************************)
(* Writer, for any number of entries, any sizes and any field widths: the  *)
(* offset it records for an entry is where the local header of the entry   *)
(* lies; an entry that is finished stays as it is; the header and the      *)
(* authentication code of its cipher come once and where they belong; a    *)
(* sealed archive reads back; and the whole implements Archive.  While     *)
(* entries are copied into it all this stays true, what was copied agrees  *)
(* with its source, a wrong password leaves the archive as it was, and a   *)
(* right one is accepted.                                                  *)
(*                                                                         *)
(* IInv are the books.  EInv adds who owns what: each entry has a          *)
(* FileHeader of its own, and the file writer that is open has that of the *)
(* last entry.  SInv adds what the headers say: of every entry what is     *)
(* true of it, as soon as it is finished.  CopyIInv, CopySInv, StampInv    *)
(* and CopyBInv add the books of a CopyRawPart, its headers, the check     *)
(* bytes, and the copies on their way and done.                            *)
(***************************************************************************)
EXTENDS CopyRaw, FileWriterProofs

(* The bounds and inputs of an instance, as Writer assumes them.           *)
USE NoFileAssumption, InitialAssumption, SizeAssumption

(* The offsets are the positions only because nothing is written that the  *)
(* count misses, and because a file writer that is still open owns the     *)
(* last entry and has not written its descriptor.                          *)
OpenIsLast ==
  Open => ~closed /\ blocks # <<>> /\ LastBlock.descriptor = <<>>

IInv == TypeOK /\ OffsetsPointAtHeaders /\ CountIsPosition /\ OpenIsLast

-----------------------------------------------------------------------------
(* What an outcome of closing the last entry may look like.                *)
Outcome(c) ==
  /\ c.fh \in [Headers -> FileHeaders(Methods)]
  /\ c.last \in FileWriters \cup {NoFile}
  /\ c.last # NoFile => c.last.closed
  /\ c.blocks \in Seq(Blocks)
  /\ Len(c.blocks) = Len(blocks)
  /\ \A i \in 1 .. Len(blocks) : c.blocks[i].at = blocks[i].at
  /\ c.count \in Nat
  /\ c.count = EndOf(c.blocks)

(* Replacing the last entry by one that begins at the same place and is    *)
(* longer by as much as the count grows keeps the books.                   *)
LEMMA ReplaceLast ==
  ASSUME IInv, ~closed, blocks # <<>>,
         NEW b \in Blocks, b.at = LastBlock.at,
         NEW n \in Nat, BlockLen(b) - BlockLen(LastBlock) = n
  PROVE  LET bs == [ blocks EXCEPT ![Len(blocks)] = b ]
         IN /\ bs \in Seq(Blocks)
            /\ bs # <<>>
            /\ Len(bs) = Len(blocks)
            /\ bs[Len(bs)] = b
            /\ \A i \in 1 .. Len(blocks) : bs[i].at = blocks[i].at
            /\ count + n \in Nat
            /\ count + n = EndOf(bs)
<1> DEFINE bs == [ blocks EXCEPT ![Len(blocks)] = b ]
<1>1. blocks \in Seq(Blocks) /\ count \in Nat
  BY DEF IInv, TypeOK
<1>2. Len(blocks) \in 1 .. Len(blocks)
  BY <1>1
<1>3. bs \in Seq(Blocks) /\ Len(bs) = Len(blocks) /\ bs # <<>>
  BY <1>1, <1>2
<1>4. bs[Len(bs)] = b
  BY <1>1, <1>2, <1>3
<1>5. \A i \in 1 .. Len(blocks) : bs[i].at = blocks[i].at
  BY <1>1, <1>2 DEF LastBlock
<1>6. count + n = EndOf(bs)
  <2>1. count = LastBlock.at + BlockLen(LastBlock)
    BY DEF IInv, CountIsPosition, EndOf, LastBlock
  <2>2. EndOf(bs) = LastBlock.at + BlockLen(b)
    BY <1>3, <1>4 DEF EndOf
  <2>3. LastBlock \in Blocks /\ LastBlock.at \in Nat
    <3>1. LastBlock \in Blocks
      BY <1>1, <1>2 DEF LastBlock
    <3> QED
      BY <3>1 DEF Blocks
  <2>4. BlockLen(LastBlock) \in Nat /\ BlockLen(b) \in Nat
    BY <2>3, BlockLenType
  <2> QED
    BY <2>1, <2>2, <2>3, <2>4
<1>7. count + n \in Nat
  BY <1>1
<1> QED
  BY <1>3, <1>4, <1>5, <1>6, <1>7, Zenon

(* Every outcome of closing the last entry: its books are those of the     *)
(* lemmas about Finished and Abandoned.                                    *)
LEMMA CloseOutcome ==
  ASSUME IInv, ~closed, NEW c \in CloseIfOpen
  PROVE  Outcome(c)
<1>1. /\ fh \in [Headers -> FileHeaders(Methods)]
      /\ last \in FileWriters \cup {NoFile}
      /\ blocks \in Seq(Blocks)
      /\ count \in Nat
  BY DEF IInv, TypeOK
<1>2. CASE ~Open
  <2>1. c = Now
    BY <1>2 DEF CloseIfOpen
  <2> QED
    BY <1>1, <1>2, <2>1 DEF Outcome, Now, Open, IInv, CountIsPosition
<1>3. CASE Open
  <2>1. last \in FileWriters /\ last.fh \in Headers
    BY <1>1, <1>3 DEF Open, FileWriters
  <2>2. fh[last.fh] \in FileHeaders(Methods)
    BY <1>1, <2>1
  <2>3. blocks # <<>> /\ LastBlock.descriptor = <<>>
    BY <1>3 DEF IInv, OpenIsLast
  <2>4. LastBlock \in Blocks
    BY SMTT(30), <1>1, <2>3 DEF LastBlock
  <2>5. ASSUME NEW fw \in FileWriters, fw.closed,
               NEW f \in FileHeaders(Methods),
               NEW b \in Blocks, b.at = LastBlock.at,
               NEW n \in Nat, NEW ok,
               fw.compCount - last.compCount + n \in Nat,
               BlockLen(b) - BlockLen(LastBlock)
                 = fw.compCount - last.compCount + n,
               c = WithLast(fw, f, b, n, ok)
        PROVE  Outcome(c)
    <3> DEFINE m == fw.compCount - last.compCount + n
    <3>1. /\ c.fh = [ fh EXCEPT ![last.fh] = f ]
          /\ c.last = fw
          /\ c.blocks = [ blocks EXCEPT ![Len(blocks)] = b ]
          /\ c.count = count + (fw.compCount - last.compCount) + n
      BY <2>5 DEF WithLast
    <3>2. fw.compCount \in Nat /\ last.compCount \in Nat
      BY <2>1, <2>5 DEF FileWriters
    <3>3. c.count = count + m
      BY <1>1, <2>5, <3>1, <3>2
    <3>4. m \in Nat /\ BlockLen(b) - BlockLen(LastBlock) = m
      BY <2>5
    <3>5. c.fh \in [Headers -> FileHeaders(Methods)]
      BY <1>1, <2>1, <2>5, <3>1
    <3> HIDE DEF m
    <3>6. /\ c.blocks \in Seq(Blocks)
          /\ Len(c.blocks) = Len(blocks)
          /\ \A i \in 1 .. Len(blocks) : c.blocks[i].at = blocks[i].at
          /\ count + m \in Nat
          /\ count + m = EndOf(c.blocks)
      BY <2>3, <2>5, <3>1, <3>4, ReplaceLast
    <3> QED
      BY <2>5, <3>1, <3>3, <3>5, <3>6 DEF Outcome
  <2>6. ASSUME NEW d \in Tails(last), c = CloseSucceeds(d)
        PROVE  Outcome(c)
    <3> DEFINE fw == Finished(last, d)
               f  == UpdatedHeader(fh[last.fh], fw)
               b  == FinishedBlock(LastBlock, last, f, d)
    <3>1. d \in Nat
      BY TailsType
    <3>2. fw \in FileWriters /\ fw.closed
      BY <2>1, <2>2, <2>3, <2>4, <3>1, FinishedBooks
    <3>3. f \in FileHeaders(Methods)
      BY <2>2, <3>2, UpdatedHeaderType
    <3>4. Descriptor(f, last).len \in Nat
      BY <2>1, <3>3, DescriptorType DEF Descriptors
    <3>5. c = WithLast(fw, f, b, Descriptor(f, last).len, TRUE)
      BY <2>6 DEF CloseSucceeds
    <3> HIDE DEF f
    <3>6. /\ b \in Blocks /\ b.at = LastBlock.at
          /\ BlockLen(b) - BlockLen(LastBlock)
               = fw.compCount - last.compCount + Descriptor(f, last).len
          /\ fw.compCount - last.compCount + Descriptor(f, last).len \in Nat
      BY <2>1, <2>3, <2>4, <3>1, <3>3, FinishedBooks
    <3> HIDE DEF fw, b
    <3> QED
      BY <2>5, <3>2, <3>3, <3>4, <3>5, <3>6
  <2>7. ASSUME NEW d \in Tails(last), c = CompressorFails(d)
        PROVE  Outcome(c)
    <3> DEFINE fw == Abandoned(last, d)
               b  == WrittenBlock(LastBlock, last, d)
    <3>1. d \in Nat
      BY TailsType
    <3>2. /\ fw \in FileWriters /\ fw.closed
          /\ fw.compCount = Written(last, 0, d).compCount
      BY <2>1, <3>1, AbandonedBooks
    <3>3. /\ b \in Blocks /\ b.at = LastBlock.at
          /\ BlockLen(b) - BlockLen(LastBlock) = fw.compCount - last.compCount
          /\ fw.compCount - last.compCount \in Nat
      <4>1. 0 \in Nat
        OBVIOUS
      <4> QED
        BY <2>1, <2>4, <3>1, <3>2, <4>1, WrittenBooks
    <3>4. c = WithLast(fw, fh[last.fh], b, 0, FALSE)
      BY <2>7 DEF CompressorFails
    <3>5. fw.compCount - last.compCount + 0 = fw.compCount - last.compCount
      BY <3>3
    <3> HIDE DEF fw, b
    <3> QED
      BY <2>2, <2>5, <3>2, <3>3, <3>4, <3>5
  <2>8. ASSUME NEW u \in BOOLEAN, c = SinkRefuses(u)
        PROVE  Outcome(c)
    <3> DEFINE fw == [ last EXCEPT !.closed = TRUE ]
               f  == IF u THEN UpdatedHeader(fh[last.fh], fw) ELSE fh[last.fh]
    <3>1. /\ fw \in FileWriters /\ fw.closed
          /\ fw.compCount = last.compCount /\ fw.compCount \in Nat
      BY <2>1 DEF FileWriters
    <3>2. f \in FileHeaders(Methods)
      BY <2>2, <3>1, UpdatedHeaderType
    <3>3. c = WithLast(fw, f, LastBlock, 0, FALSE)
      BY <2>8 DEF SinkRefuses
    <3>4. /\ 0 \in Nat
          /\ fw.compCount - last.compCount + 0 \in Nat
          /\ BlockLen(LastBlock) - BlockLen(LastBlock)
               = fw.compCount - last.compCount + 0
      BY <2>4, <3>1, BlockLenType
    <3> HIDE DEF fw, f
    <3> QED
      BY <2>4, <2>5, <3>1, <3>2, <3>3, <3>4
  <2> QED
    BY <1>3, <2>6, <2>7, <2>8 DEF CloseIfOpen, CloseLast
<1> QED
  BY <1>2, <1>3

(* The entries stay where they are and the directory is unchanged.         *)
LEMMA KeepsInvariant ==
  ASSUME IInv, NEW c, Outcome(c),
         fh' \in [Headers -> FileHeaders(Methods)],
         last' \in {c.last, NoFile}, blocks' = c.blocks,
         closed' \/ count' = c.count, closed' \in BOOLEAN,
         dir' = dir, base' = base, sink' \in {"ok", "failed"}
  PROVE  IInv'
<1>1. TypeOK'
  BY DEF IInv, TypeOK, Outcome
<1>2. OffsetsPointAtHeaders'
  BY DEF IInv, OffsetsPointAtHeaders, Outcome
<1>3. CountIsPosition'
  BY DEF CountIsPosition, Outcome, EndOf
<1>4. OpenIsLast'
  BY DEF OpenIsLast, Open, Outcome
<1> QED
  BY <1>1, <1>2, <1>3, <1>4 DEF IInv

(* A new entry begins where the last one ends, at the offset recorded.     *)
LEMMA CreateKeepsInvariant ==
  ASSUME IInv, ~closed, NEW h \in Headers, NEW raw \in BOOLEAN,
         NEW c \in CloseIfOpen, CreateSucceeds(h, raw, c),
         UNCHANGED <<closed, base, sink>>
  PROVE  IInv'
<1> DEFINE f == PreparedHeader(c.fh[h], raw)
           b == NewBlock(f, c.fh[h].method, EndOf(c.blocks))
<1>1. Outcome(c)
  BY CloseOutcome
<1>2. c.fh[h] \in FileHeaders(Methods) /\ c.fh[h].method \in Methods
  BY <1>1 DEF Outcome, FileHeaders
<1>3. f \in FileHeaders(Methods)
  BY <1>2, PreparedHeaderType
<1>4. LocalHeaderLen(f) \in Nat \ {0}
  BY <1>3, LocalHeaderLenType
<1>5. /\ c.count \in Nat /\ c.count = EndOf(c.blocks)
      /\ c.blocks \in Seq(Blocks) /\ Len(c.blocks) = Len(blocks)
      /\ \A i \in 1 .. Len(blocks) : c.blocks[i].at = blocks[i].at
  BY <1>1 DEF Outcome
<1>6. /\ b \in Blocks
      /\ b.at = EndOf(c.blocks)
      /\ b.descriptor = <<>>
      /\ BlockLen(b) = LocalHeaderLen(f)
  BY <1>2, <1>3, <1>5, NewBlockType
<1>7. /\ fh' = [ c.fh EXCEPT ![h] = f ]
      /\ dir' = Append(dir, [ fh |-> h, offset |-> c.count ])
      /\ last' = NewFileWriter(h, c.fh[h], raw)
      /\ blocks' = Append(c.blocks, b)
      /\ count' = c.count + LocalHeaderLen(f)
      /\ closed' = closed /\ base' = base /\ sink' = sink
  BY DEF CreateSucceeds
<1> HIDE DEF f, b
<1>8. /\ blocks' \in Seq(Blocks)
      /\ blocks' # <<>>
      /\ Len(blocks') = Len(blocks) + 1
      /\ blocks'[Len(blocks')] = b
      /\ \A i \in 1 .. Len(blocks) : blocks'[i].at = blocks[i].at
  <2>1. /\ blocks' \in Seq(Blocks)
        /\ Len(blocks') = Len(c.blocks) + 1
        /\ blocks'[Len(c.blocks) + 1] = b
    BY <1>5, <1>6, <1>7
  <2>2. ASSUME NEW i \in 1 .. Len(c.blocks)
        PROVE  blocks'[i] = c.blocks[i]
    BY <1>5, <1>6, <1>7
  <2> QED
    BY <1>5, <2>1, <2>2
<1>9. TypeOK'
  <2>1. fh' \in [Headers -> FileHeaders(Methods)]
    BY <1>1, <1>3, <1>7 DEF Outcome
  <2>2. dir' \in Seq(Entries)
    <3>1. dir \in Seq(Entries)
      BY DEF IInv, TypeOK
    <3>2. [ fh |-> h, offset |-> c.count ] \in Entries
      BY <1>5 DEF Entries
    <3> QED
      BY <1>7, <3>1, <3>2
  <2>3. last' \in FileWriters
    BY <1>2, <1>7, NewFileWriterType
  <2>4. count' \in Nat
    BY <1>4, <1>5, <1>7
  <2> QED
    BY <1>7, <1>8, <2>1, <2>2, <2>3, <2>4 DEF IInv, TypeOK
<1>10. OffsetsPointAtHeaders'
  <2>1. /\ dir \in Seq(Entries) /\ Len(dir) = Len(blocks)
        /\ \A i \in 1 .. Len(dir) : dir[i].offset = blocks[i].at
    BY DEF IInv, TypeOK, OffsetsPointAtHeaders
  <2>2. Len(dir') = Len(dir) + 1
    BY <1>7, <2>1
  <2>3. ASSUME NEW i \in 1 .. Len(dir')
        PROVE  dir'[i].offset = blocks'[i].at
    <3>1. CASE i = Len(dir) + 1
      BY <1>5, <1>6, <1>7, <1>8, <2>1, <3>1
    <3>2. CASE i \in 1 .. Len(dir)
      BY <1>7, <1>8, <2>1, <3>2
    <3> QED
      BY <2>1, <2>2, <3>1, <3>2
  <2> QED
    BY <1>8, <2>1, <2>2, <2>3 DEF OffsetsPointAtHeaders
<1>11. CountIsPosition'
  <2>1. (EndOf(blocks))' = b.at + BlockLen(b)
    BY <1>8 DEF EndOf
  <2> QED
    BY <1>5, <1>6, <1>7, <2>1 DEF CountIsPosition
<1>12. OpenIsLast'
  BY <1>6, <1>7, <1>8 DEF OpenIsLast, LastBlock
<1> QED
  BY <1>9, <1>10, <1>11, <1>12 DEF IInv

-----------------------------------------------------------------------------
(* The invariant holds before the first call.                              *)
(* CreateHeader and CreateRaw, whatever becomes of them.                   *)
LEMMA CreateInvariant ==
  ASSUME IInv, NEW h \in Headers, NEW raw \in BOOLEAN, Create(h, raw)
  PROVE  IInv'
<1> USE DEF AfterClose
<1>1. PICK c \in CloseIfOpen : \/ CreateRejected(h, raw, c)
                               \/ CreateFails(h, raw, c)
                               \/ CreateSucceeds(h, raw, c)
  BY DEF Create
<1>2. ~closed /\ UNCHANGED <<closed, base, sink>>
  BY DEF Create, Usable
<1>3. Outcome(c)
  BY <1>2, CloseOutcome
<1>4. closed \in BOOLEAN /\ sink \in {"ok", "failed"}
  BY DEF IInv, TypeOK
<1>5. CASE CreateRejected(h, raw, c)
  <2>1. c.fh \in [Headers -> FileHeaders(Methods)]
    BY <1>3 DEF Outcome
  <2> QED
    BY <1>2, <1>3, <1>4, <1>5, <2>1, KeepsInvariant DEF CreateRejected
<1>6. CASE CreateFails(h, raw, c)
  <2>1. c.fh \in [Headers -> FileHeaders(Methods)]
    BY <1>3 DEF Outcome
  <2>2. PreparedHeader(c.fh[h], raw) \in FileHeaders(Methods)
    BY <2>1, PreparedHeaderType
  <2>3. fh' \in [Headers -> FileHeaders(Methods)]
    BY <1>6, <2>1, <2>2 DEF CreateFails
  <2> QED
    BY <1>2, <1>3, <1>4, <1>6, <2>3, KeepsInvariant DEF CreateFails
<1>7. CASE CreateSucceeds(h, raw, c)
  BY <1>2, <1>7, CreateKeepsInvariant
<1> QED
  BY <1>1, <1>5, <1>6, <1>7

(* Write to the open entry: it grows by what is counted.                   *)
LEMMA WriteInvariant ==
  ASSUME IInv, NEW n \in Nat, NEW c \in Nat, Write(n, c)
  PROVE  IInv'
<1>1. n \in Nat /\ c \in Nat
  OBVIOUS
<1>2. Open /\ ~closed /\ blocks # <<>> /\ LastBlock.descriptor = <<>>
  BY DEF Write, IInv, OpenIsLast
<1>3. last \in FileWriters /\ ~last.closed /\ blocks \in Seq(Blocks)
  BY <1>2 DEF IInv, TypeOK, Open
<1>4. LastBlock \in Blocks
  BY <1>2, <1>3 DEF LastBlock
<1> DEFINE b == WrittenBlock(LastBlock, last, c)
           fw == Written(last, n, c)
           m == fw.compCount - last.compCount
<1>5. /\ fw \in FileWriters /\ fw.closed = last.closed
      /\ b \in Blocks /\ b.at = LastBlock.at
      /\ b.descriptor = LastBlock.descriptor
      /\ BlockLen(b) - BlockLen(LastBlock) = m
      /\ m \in Nat
  <2>1. ASSUME NEW w \in FileWriters, NEW e \in Blocks
        PROVE  /\ Written(w, n, c) \in FileWriters
               /\ Written(w, n, c).closed = w.closed
               /\ WrittenBlock(e, w, c) \in Blocks
               /\ WrittenBlock(e, w, c).at = e.at
               /\ WrittenBlock(e, w, c).descriptor = e.descriptor
               /\ BlockLen(WrittenBlock(e, w, c)) - BlockLen(e)
                    = Written(w, n, c).compCount - w.compCount
               /\ Written(w, n, c).compCount - w.compCount \in Nat
    BY <1>1, WrittenBooks, Zenon
  <2> QED
    BY <1>3, <1>4, <2>1, Zenon
<1>6. /\ last' = fw
      /\ blocks' = [ blocks EXCEPT ![Len(blocks)] = b ]
      /\ count' = count + m
      /\ UNCHANGED <<fh, dir, closed, base, sink, cd>>
  BY DEF Write, LastBlock
<1> HIDE DEF b, fw, m
<1>7. /\ blocks' \in Seq(Blocks)
      /\ blocks' # <<>>
      /\ Len(blocks') = Len(blocks)
      /\ blocks'[Len(blocks')] = b
      /\ \A i \in 1 .. Len(blocks) : blocks'[i].at = blocks[i].at
      /\ count + m \in Nat
      /\ count + m = EndOf(blocks')
  BY <1>2, <1>5, <1>6, ReplaceLast
<1>8. TypeOK'
  BY <1>5, <1>6, <1>7 DEF IInv, TypeOK
<1>9. OffsetsPointAtHeaders'
  BY <1>6, <1>7 DEF IInv, OffsetsPointAtHeaders
<1>10. CountIsPosition'
  BY <1>6, <1>7 DEF CountIsPosition, EndOf
<1>11. OpenIsLast'
  BY <1>2, <1>5, <1>6, <1>7 DEF OpenIsLast, LastBlock
<1> QED
  BY <1>8, <1>9, <1>10, <1>11 DEF IInv

LEMMA InitInvariant == Init => IInv
<1> SUFFICES ASSUME Init PROVE IInv
  OBVIOUS
<1>1. TypeOK
  <2>1. fh \in [Headers -> FileHeaders(Methods)]
    BY DEF Init
  <2>2. dir \in Seq(Entries) /\ blocks \in Seq(Blocks)
    BY DEF Init
  <2> QED
    BY <2>1, <2>2 DEF Init, TypeOK
<1>2. OffsetsPointAtHeaders /\ CountIsPosition /\ OpenIsLast
  BY DEF Init, OffsetsPointAtHeaders, CountIsPosition, EndOf, OpenIsLast, Open
<1> QED
  BY <1>1, <1>2 DEF IInv

(* Every call keeps it, whatever the call returns.                         *)
LEMMA StepInvariant == IInv /\ [Next]_vars => IInv'
<1> SUFFICES ASSUME IInv, [Next]_vars PROVE IInv'
  OBVIOUS
<1> USE DEF AfterClose
<1>1. ASSUME NEW n \in Offsets, SetOffset(n)
      PROVE  IInv'
  <2>1. TypeOK'
    BY <1>1 DEF SetOffset, IInv, TypeOK
  <2>2. OffsetsPointAtHeaders' /\ OpenIsLast'
    BY <1>1 DEF SetOffset, IInv, OffsetsPointAtHeaders, OpenIsLast, Open,
                LastBlock
  <2>3. blocks = <<>>
    <3> SUFFICES ASSUME blocks # <<>> PROVE FALSE
      OBVIOUS
    <3>1. blocks \in Seq(Blocks) /\ LastBlock \in Blocks
      BY DEF IInv, TypeOK, LastBlock
    <3>2. LastBlock.at \in Nat /\ BlockLen(LastBlock) \in Nat \ {0}
      <4>1. ASSUME NEW b \in Blocks PROVE b.at \in Nat
        BY DEF Blocks
      <4> QED
        BY <3>1, <4>1, BlockLenType
    <3>3. LastBlock.at + BlockLen(LastBlock) = 0
      BY <1>1 DEF SetOffset, Usable, IInv, CountIsPosition, EndOf, LastBlock
    <3> QED
      BY <3>2, <3>3
  <2>4. CountIsPosition'
    BY <1>1, <2>3 DEF SetOffset, CountIsPosition, EndOf
  <2> QED
    BY <2>1, <2>2, <2>4 DEF IInv
<1>2. ASSUME NEW h \in Headers, NEW raw \in BOOLEAN, Create(h, raw)
      PROVE  IInv'
  BY <1>2, CreateInvariant
<1>3. ASSUME NEW n \in Sizes, NEW c \in Sizes \cup Compressed, Write(n, c)
      PROVE  IInv'
  <2>1. n \in Nat /\ c \in Nat
    OBVIOUS
  <2> QED
    BY <1>3, <2>1, WriteInvariant
<1>4. ASSUME CloseEntry
      PROVE  IInv'
  <2>1. ~closed
    BY <1>4 DEF CloseEntry, IInv, OpenIsLast
  <2>2. PICK c \in CloseIfOpen : fh' = c.fh /\ AfterClose(c)
    BY <1>4 DEF CloseEntry, CloseIfOpen
  <2>3. Outcome(c) /\ c.fh \in [Headers -> FileHeaders(Methods)]
    BY <2>1, CloseOutcome DEF Outcome
  <2>4. closed \in BOOLEAN /\ sink \in {"ok", "failed"}
    BY DEF IInv, TypeOK
  <2> QED
    BY <1>4, <2>2, <2>3, <2>4, KeepsInvariant DEF CloseEntry
<1>5. CASE SinkFails
  <2>1. TypeOK'
    BY <1>5 DEF SinkFails, IInv, TypeOK
  <2>2. OffsetsPointAtHeaders' /\ CountIsPosition' /\ OpenIsLast'
    BY <1>5 DEF SinkFails, IInv, OffsetsPointAtHeaders, CountIsPosition,
                EndOf, OpenIsLast, Open, LastBlock
  <2> QED
    BY <2>1, <2>2 DEF IInv
<1>6. ASSUME Close
      PROVE  IInv'
  <2>1. ~closed /\ UNCHANGED <<dir, base, sink>>
    BY <1>6 DEF Close, Usable
  <2>2. PICK c \in CloseIfOpen : /\ fh' = c.fh
                                 /\ \/ CloseReturnsEarly(c)
                                    \/ CloseWithoutDirectory(c)
                                    \/ CloseSeals(c)
    BY <1>6 DEF Close
  <2>3. Outcome(c) /\ c.fh \in [Headers -> FileHeaders(Methods)]
    BY <2>1, CloseOutcome DEF Outcome
  <2>4. closed \in BOOLEAN /\ sink \in {"ok", "failed"}
    BY DEF IInv, TypeOK
  <2>5. last' \in {c.last, NoFile}
    <3>1. CASE Open
      BY <2>2, <3>1 DEF CloseReturnsEarly, CloseWithoutDirectory, CloseSeals
    <3>2. CASE ~Open
      <4>1. c.last = last
        BY <2>2, <3>2 DEF CloseIfOpen, Now
      <4> QED
        BY <2>2, <3>2, <4>1
        DEF CloseReturnsEarly, CloseWithoutDirectory, CloseSeals
    <3> QED
      BY <3>1, <3>2
  <2>6. /\ blocks' = c.blocks
        /\ closed' \/ count' = c.count
        /\ closed' \in BOOLEAN
    BY <2>2, <2>4 DEF CloseReturnsEarly, CloseWithoutDirectory, CloseSeals
  <2> QED
    BY <2>1, <2>2, <2>3, <2>4, <2>5, <2>6, KeepsInvariant
<1>7. CASE UNCHANGED vars
  <2>1. TypeOK'
    BY <1>7 DEF vars, IInv, TypeOK
  <2>2. OffsetsPointAtHeaders' /\ CountIsPosition' /\ OpenIsLast'
    BY <1>7 DEF vars, IInv, OffsetsPointAtHeaders, CountIsPosition,
                EndOf, OpenIsLast, Open, LastBlock
  <2> QED
    BY <2>1, <2>2 DEF IInv
<1> QED
  BY <1>1, <1>2, <1>3, <1>4, <1>5, <1>6, <1>7 DEF Next

(* The invariant of Writer, for all its instances.                         *)
THEOREM Invariant == Spec => []IInv
  BY InitInvariant, StepInvariant, PTL DEF Spec

(* Every variable keeps its type: lengths are never negative, and the 32   *)
(* bit sizes of a FileHeader fit their fields.                             *)
THEOREM TypeCorrect == Spec => []TypeOK
<1>1. IInv => TypeOK
  BY DEF IInv
<1> QED
  BY <1>1, Invariant, PTL

(* An entry is where its record in w.dir says, however the calls before it *)
(* ended and whatever they wrote.                                          *)
THEOREM OffsetsCorrect == Spec => []OffsetsPointAtHeaders
<1>1. IInv => OffsetsPointAtHeaders
  BY DEF IInv
<1> QED
  BY <1>1, Invariant, PTL

(* The count of the Writer is its position in the stream until Close.      *)
THEOREM CountCorrect == Spec => []CountIsPosition
<1>1. IInv => CountIsPosition
  BY DEF IInv
<1> QED
  BY <1>1, Invariant, PTL

-----------------------------------------------------------------------------
(* What becomes of the entries.                                            *)

Distinct ==
  \A i, j \in 1 .. Len(dir) : dir[i].fh = dir[j].fh => i = j

OpenOwns ==
  Open => /\ last.fh = dir[Len(dir)].fh
          /\ Writing(last, LastBlock, fh[last.fh])

AllFramed ==
  \A i \in 1 .. Len(blocks) : FramedAt(blocks[i], fh[dir[i].fh])

EInv == IInv /\ Distinct /\ OpenOwns /\ AllFramed

(* A finished entry, its offset and its header.                            *)
Untouched(bs, hs) ==
  \A i \in 1 .. Len(blocks) : blocks[i].descriptor # <<>> =>
    bs[i] = blocks[i] /\ hs[dir[i].fh] = fh[dir[i].fh]

-----------------------------------------------------------------------------
(* Closing the last entry leaves those that are finished alone, and frames *)
(* the last one, finished or abandoned.                                    *)
ClosedWell(c) ==
  /\ \A i \in 1 .. Len(blocks) : FramedAt(c.blocks[i], c.fh[dir[i].fh])
  /\ Untouched(c.blocks, c.fh)

(* The last entry changes, and its header; nothing else does.              *)
OnlyLast(c, b, f) ==
  /\ \A i \in 1 .. Len(blocks) : i # Len(blocks) =>
       c.blocks[i] = blocks[i] /\ c.fh[dir[i].fh] = fh[dir[i].fh]
  /\ c.blocks[Len(blocks)] = b /\ c.fh[dir[Len(blocks)].fh] = f
  /\ c.fh = [ fh EXCEPT ![last.fh] = f ]

LEMMA LastOnly ==
  ASSUME EInv, ~closed, Open, NEW fw, NEW f, NEW b, NEW n, NEW ok
  PROVE  OnlyLast(WithLast(fw, f, b, n, ok), b, f)
<1> DEFINE c == WithLast(fw, f, b, n, ok)
<1>1. /\ blocks \in Seq(Blocks) /\ Len(blocks) \in Nat /\ blocks # <<>>
      /\ dir \in Seq(Entries) /\ Len(dir) = Len(blocks)
      /\ fh \in [Headers -> FileHeaders(Methods)]
      /\ last.fh = dir[Len(dir)].fh
  BY DEF EInv, IInv, TypeOK, OpenIsLast, OffsetsPointAtHeaders, OpenOwns
<1>2. /\ c.fh = [ fh EXCEPT ![last.fh] = f ]
      /\ c.blocks = [ blocks EXCEPT ![Len(blocks)] = b ]
  BY DEF WithLast
<1>3. \A i \in 1 .. Len(blocks) : dir[i].fh \in Headers
  <2>1. \A i \in 1 .. Len(blocks) : dir[i] \in Entries
    BY <1>1
  <2> QED
    BY <2>1 DEF Entries
<1>4. Len(blocks) \in 1 .. Len(blocks)
  BY <1>1
<1> HIDE DEF c
<1>5. ASSUME NEW i \in 1 .. Len(blocks), i # Len(blocks)
      PROVE  c.blocks[i] = blocks[i] /\ c.fh[dir[i].fh] = fh[dir[i].fh]
  <2>1. dir[i].fh # last.fh
    BY <1>1, <1>4, <1>5 DEF EInv, Distinct
  <2>2. c.fh[dir[i].fh] = fh[dir[i].fh]
    BY <1>1, <1>2, <1>3, <2>1
  <2>3. c.blocks[i] = blocks[i]
    BY <1>1, <1>2, <1>5
  <2> QED
    BY <2>2, <2>3
<1>6. c.blocks[Len(blocks)] = b /\ c.fh[dir[Len(blocks)].fh] = f
  BY <1>1, <1>2, <1>3, <1>4
<1> QED
  BY <1>2, <1>5, <1>6 DEF c, OnlyLast

LEMMA LastChanges ==
  ASSUME EInv, ~closed, Open,
         NEW fw, NEW f, NEW b, NEW n, NEW ok, FramedAt(b, f)
  PROVE  ClosedWell(WithLast(fw, f, b, n, ok))
<1> DEFINE c == WithLast(fw, f, b, n, ok)
<1>1. LastBlock.descriptor = <<>>
  BY DEF EInv, IInv, OpenIsLast
<1>2. OnlyLast(c, b, f)
  BY LastOnly
<1> HIDE DEF c
<1>3. \A i \in 1 .. Len(blocks) : FramedAt(c.blocks[i], c.fh[dir[i].fh])
  BY <1>2 DEF OnlyLast, EInv, AllFramed
<1>4. Untouched(c.blocks, c.fh)
  BY <1>1, <1>2 DEF OnlyLast, Untouched, LastBlock
<1> QED
  BY <1>3, <1>4 DEF ClosedWell, c

LEMMA CloseWell ==
  ASSUME EInv, ~closed, NEW c \in CloseIfOpen
  PROVE  ClosedWell(c)
<1>1. CASE ~Open
  <2>1. c = Now
    BY <1>1 DEF CloseIfOpen
  <2>2. c.blocks = blocks /\ c.fh = fh
    BY <2>1 DEF Now
  <2> QED
    BY <2>2 DEF ClosedWell, Untouched, EInv, AllFramed
<1>2. CASE Open
  <2> DEFINE f == fh[last.fh]
  <2>1. last \in FileWriters /\ last.fh \in Headers
    BY <1>2 DEF Open, EInv, IInv, TypeOK, FileWriters
  <2>2. f \in FileHeaders(Methods)
    BY <2>1 DEF EInv, IInv, TypeOK
  <2>3. LastBlock \in Blocks /\ LastBlock.descriptor = <<>>
    BY <1>2 DEF EInv, IInv, TypeOK, OpenIsLast, LastBlock
  <2>4. Writing(last, LastBlock, f)
    BY <1>2 DEF EInv, OpenOwns
  <2> HIDE DEF f
  <2>5. ASSUME NEW d \in Tails(last), c = CloseSucceeds(d)
        PROVE  ClosedWell(c)
    <3> DEFINE fw == Finished(last, d)
               g  == UpdatedHeader(f, fw)
               b  == FinishedBlock(LastBlock, last, g, d)
    <3>1. d \in Nat
      BY TailsType
    <3>2. fw \in FileWriters
      BY <2>1, <2>2, <2>3, <3>1, FinishedBooks
    <3>3. CipherOf(g) = CipherOf(f) /\ g.aesStrength = f.aesStrength
      BY <2>2, <3>2, UpdatedKeeps
    <3>4. FramedAt(b, g)
      <4> HIDE DEF g
      <4> QED
        BY <2>1, <2>3, <2>4, <3>1, <3>3, FinishFrames
    <3>5. c = WithLast(fw, g, b, Descriptor(g, last).len, TRUE)
      BY <2>5 DEF CloseSucceeds, f
    <3> HIDE DEF fw, g, b
    <3> QED
      BY <1>2, <3>4, <3>5, LastChanges
  <2>6. ASSUME NEW d \in Tails(last), c = CompressorFails(d)
        PROVE  ClosedWell(c)
    <3> DEFINE b == WrittenBlock(LastBlock, last, d)
               w == Written(last, 0, d)
    <3>1. d \in Nat /\ 0 \in Nat
      BY TailsType
    <3>2. Writing(w, b, f)
      BY <2>1, <2>3, <2>4, <3>1, WriteFrames
    <3>3. /\ w \in FileWriters /\ b \in Blocks
          /\ b.descriptor = LastBlock.descriptor
      <4>1. ASSUME NEW v \in FileWriters, NEW e \in Blocks
            PROVE  /\ Written(v, 0, d) \in FileWriters
                   /\ WrittenBlock(e, v, d) \in Blocks
                   /\ WrittenBlock(e, v, d).descriptor = e.descriptor
        BY <3>1, WrittenBooks
      <4> QED
        BY <2>1, <2>3, <4>1
    <3>4. c = WithLast(Abandoned(last, d), f, b, 0, FALSE)
      BY <2>6 DEF CompressorFails, f
    <3> HIDE DEF b, w
    <3>5. FramedAt(b, f)
      BY <2>3, <3>2, <3>3, WritingIsFramed
    <3> QED
      BY <1>2, <3>4, <3>5, LastChanges
  <2>7. ASSUME NEW updated \in BOOLEAN, c = SinkRefuses(updated)
        PROVE  ClosedWell(c)
    <3> DEFINE fw == [ last EXCEPT !.closed = TRUE ]
               g  == IF updated THEN UpdatedHeader(f, fw) ELSE f
    <3>1. fw \in FileWriters
      BY <2>1 DEF FileWriters
    <3>2. CipherOf(g) = CipherOf(f) /\ g.aesStrength = f.aesStrength
      BY <2>2, <3>1, UpdatedKeeps
    <3>3. Writing(last, LastBlock, g)
      <4> HIDE DEF g
      <4> QED
        BY <2>4, <3>2 DEF Writing
    <3>4. FramedAt(LastBlock, g)
      <4> HIDE DEF g
      <4> QED
        BY <2>1, <2>3, <3>3, WritingIsFramed
    <3>5. c = WithLast(fw, g, LastBlock, 0, FALSE)
      BY <2>7 DEF SinkRefuses, f
    <3> HIDE DEF fw, g
    <3> QED
      BY <1>2, <3>4, <3>5, LastChanges
  <2>8. \/ \E d \in Tails(last) : c = CloseSucceeds(d) \/ c = CompressorFails(d)
        \/ \E updated \in BOOLEAN : c = SinkRefuses(updated)
    BY <1>2 DEF CloseIfOpen, CloseLast
  <2> QED
    BY <2>5, <2>6, <2>7, <2>8
<1> QED
  BY <1>1, <1>2

-----------------------------------------------------------------------------
Kept ==
  /\ Untouched(blocks', fh')
  /\ \A i \in 1 .. Len(blocks) : dir'[i] = dir[i]

Entered == Distinct /\ OpenOwns /\ AllFramed

(* A call that ends with the last entry closed and adds none.              *)
LEMMA ClosingKeeps ==
  ASSUME EInv, ~closed, NEW c \in CloseIfOpen,
         dir' = dir, blocks' = c.blocks, last' \in {c.last, NoFile},
         \A i \in 1 .. Len(blocks) : fh'[dir[i].fh] = c.fh[dir[i].fh]
  PROVE  Entered' /\ Kept
<1>1. ClosedWell(c)
  BY CloseWell
<1>2. Outcome(c)
  BY CloseOutcome DEF EInv
<1>3. ~Open'
  BY <1>2 DEF Open, Outcome
<1>4. AllFramed'
  BY <1>1, <1>2 DEF AllFramed, ClosedWell, Outcome
<1>5. Distinct' /\ OpenOwns'
  BY <1>3 DEF EInv, Distinct, OpenOwns
<1>6. Kept
  BY <1>1 DEF Kept, ClosedWell, Untouched
<1> QED
  BY <1>4, <1>5, <1>6 DEF Entered

(* A header that no entry uses.                                            *)
LEMMA NewHeader ==
  ASSUME EInv, NEW h \in Headers, Fresh(h), ~IsDuplicate(h)
  PROVE  \A i \in 1 .. Len(blocks) : dir[i].fh # h
<1>1. dir \in Seq(Entries) /\ Len(dir) \in Nat /\ Len(dir) = Len(blocks)
  BY DEF EInv, IInv, TypeOK, OffsetsPointAtHeaders
<1>2. \A i \in 1 .. Len(dir) : i = Len(dir) \/ i \in 1 .. Len(dir) - 1
  BY <1>1
<1>3. \A i \in 1 .. Len(dir) : dir # <<>>
  BY <1>1
<1> QED
  BY <1>1, <1>2, <1>3 DEF Fresh, IsDuplicate

LEMMA CreatingKeeps ==
  ASSUME EInv, ~closed, NEW h \in Headers, NEW raw \in BOOLEAN,
         Fresh(h), NEW c \in CloseIfOpen, CreateSucceeds(h, raw, c)
  PROVE  Entered' /\ Kept
<1> DEFINE f == PreparedHeader(c.fh[h], raw)
           b == NewBlock(f, c.fh[h].method, EndOf(c.blocks))
           fw == NewFileWriter(h, c.fh[h], raw)
<1>1. ClosedWell(c)
  BY CloseWell
<1>2. /\ c.fh \in [Headers -> FileHeaders(Methods)]
      /\ c.blocks \in Seq(Blocks) /\ Len(c.blocks) = Len(blocks)
      /\ c.fh[h] \in FileHeaders(Methods) /\ c.fh[h].method \in Methods
      /\ c.count \in Nat /\ EndOf(c.blocks) \in Nat
  <2>1. Outcome(c)
    BY CloseOutcome DEF EInv
  <2>2. c.fh[h] \in FileHeaders(Methods)
    BY <2>1 DEF Outcome
  <2>3. c.fh[h].method \in Methods
    BY <2>2 DEF FileHeaders
  <2> QED
    BY <2>1, <2>2, <2>3 DEF Outcome
<1>3. /\ dir \in Seq(Entries) /\ Len(dir) \in Nat /\ Len(dir) = Len(blocks)
  BY DEF EInv, IInv, TypeOK, OffsetsPointAtHeaders
<1>4. \A i \in 1 .. Len(blocks) : dir[i].fh # h
  BY NewHeader DEF CreateSucceeds
<1>5. f \in FileHeaders(Methods)
  BY <1>2, PreparedHeaderType
<1>6. b \in Blocks /\ b.descriptor = <<>>
  BY <1>2, <1>5, NewBlockType
<1>7. Writing(fw, b, f) /\ fw \in FileWriters /\ fw.fh = h
  BY <1>2, NewWriting, NewFileWriterType DEF NewFileWriter
<1>8. /\ fh' = [ c.fh EXCEPT ![h] = f ]
      /\ dir' = Append(dir, [ fh |-> h, offset |-> c.count ])
      /\ last' = fw
      /\ blocks' = Append(c.blocks, b)
  BY DEF CreateSucceeds
<1> HIDE DEF f, b, fw
<1>9. FramedAt(b, f)
  BY <1>6, <1>7, WritingIsFramed
<1>10. /\ Len(dir') = Len(dir) + 1 /\ Len(blocks') = Len(dir) + 1
       /\ dir'[Len(dir) + 1].fh = h /\ blocks'[Len(dir) + 1] = b
       /\ \A i \in 1 .. Len(dir) : dir'[i] = dir[i] /\ blocks'[i] = c.blocks[i]
  <2>1. [ fh |-> h, offset |-> c.count ] \in Entries
    BY <1>2 DEF Entries
  <2>2. /\ Len(dir') = Len(dir) + 1
        /\ dir'[Len(dir) + 1] = [ fh |-> h, offset |-> c.count ]
        /\ \A i \in 1 .. Len(dir) : dir'[i] = dir[i]
    BY <1>3, <1>8, <2>1
  <2>3. /\ Len(blocks') = Len(dir) + 1 /\ blocks'[Len(dir) + 1] = b
        /\ \A i \in 1 .. Len(dir) : blocks'[i] = c.blocks[i]
    BY <1>2, <1>3, <1>6, <1>8
  <2> QED
    BY <2>2, <2>3
<1>11. \A i \in 1 .. Len(dir) : dir[i].fh \in Headers
  <2>1. \A i \in 1 .. Len(dir) : dir[i] \in Entries
    BY <1>3
  <2> QED
    BY <2>1 DEF Entries
<1>12. /\ fh'[h] = f
       /\ \A i \in 1 .. Len(dir) : fh'[dir[i].fh] = c.fh[dir[i].fh]
  BY <1>2, <1>3, <1>4, <1>8, <1>11
<1>13. Distinct'
  BY <1>3, <1>4, <1>10 DEF EInv, Distinct
<1>14. AllFramed'
  BY <1>1, <1>3, <1>9, <1>10, <1>12 DEF AllFramed, ClosedWell
<1>15. OpenOwns'
  BY <1>3, <1>7, <1>8, <1>10, <1>12 DEF OpenOwns, LastBlock
<1>16. Kept
  BY <1>1, <1>3, <1>10, <1>12 DEF Kept, ClosedWell, Untouched
<1> QED
  BY <1>13, <1>14, <1>15, <1>16 DEF Entered

(* Write changes the last entry, which is not finished.                    *)
LEMMA WritingKeeps ==
  ASSUME EInv, NEW n \in Nat, NEW c \in Nat, Write(n, c)
  PROVE  Entered' /\ Kept
<1>1. /\ Open /\ last' = Written(last, n, c)
      /\ blocks' = [ blocks EXCEPT ![Len(blocks)] = WrittenBlock(LastBlock, last, c) ]
      /\ fh' = fh /\ dir' = dir
  BY DEF Write, LastBlock
<1>2. /\ blocks \in Seq(Blocks) /\ Len(blocks) \in 1 .. Len(blocks)
      /\ LastBlock \in Blocks /\ LastBlock.descriptor = <<>>
      /\ last \in FileWriters /\ Len(dir) = Len(blocks)
  BY <1>1 DEF EInv, IInv, TypeOK, OpenIsLast, LastBlock, Open,
              OffsetsPointAtHeaders
<1>3. Writing(last, LastBlock, fh[last.fh]) /\ last.fh = dir[Len(dir)].fh
  BY <1>1 DEF EInv, OpenOwns
<1> DEFINE w == Written(last, n, c)
           b == WrittenBlock(LastBlock, last, c)
<1>4. Writing(w, b, fh[last.fh])
  BY <1>2, <1>3, WriteFrames
<1>5. w \in FileWriters /\ b \in Blocks /\ b.descriptor = <<>>
  <2>1. ASSUME NEW v \in FileWriters, NEW e \in Blocks
        PROVE  /\ Written(v, n, c) \in FileWriters
               /\ WrittenBlock(e, v, c) \in Blocks
               /\ WrittenBlock(e, v, c).descriptor = e.descriptor
    BY WrittenBooks
  <2> QED
    BY <1>2, <2>1
<1>6. w.fh = last.fh
  BY <1>2 DEF Written, FileWriters
<1>7. last' = w /\ blocks' = [ blocks EXCEPT ![Len(blocks)] = b ]
  BY <1>1
<1> HIDE DEF w, b
<1>8. FramedAt(b, fh[last.fh])
  BY <1>4, <1>5, WritingIsFramed
<1>9. /\ Len(blocks') = Len(blocks) /\ blocks'[Len(blocks)] = b
      /\ \A i \in 1 .. Len(blocks) : i # Len(blocks) => blocks'[i] = blocks[i]
  BY <1>2, <1>7
<1>10. AllFramed'
  BY <1>1, <1>2, <1>3, <1>8, <1>9 DEF EInv, AllFramed
<1>11. OpenOwns'
  BY <1>1, <1>2, <1>3, <1>4, <1>6, <1>7, <1>9 DEF OpenOwns, LastBlock
<1>12. Distinct'
  BY <1>1 DEF EInv, Distinct
<1>13. Kept
  BY <1>1, <1>2, <1>9 DEF Kept, Untouched, LastBlock
<1> QED
  BY <1>10, <1>11, <1>12, <1>13 DEF Entered

LEMMA CloseLeaves ==
  ASSUME NEW c \in CloseIfOpen,
         CloseReturnsEarly(c) \/ CloseWithoutDirectory(c) \/ CloseSeals(c)
  PROVE  blocks' = c.blocks /\ last' \in {c.last, NoFile}
<1>1. blocks' = c.blocks
  BY DEF CloseReturnsEarly, CloseWithoutDirectory, CloseSeals, AfterClose
<1>2. CASE Open
  BY <1>1, <1>2
     DEF CloseReturnsEarly, CloseWithoutDirectory, CloseSeals, AfterClose
<1>3. CASE ~Open
  <2>1. c.last = last
    BY <1>3 DEF CloseIfOpen, Now
  <2> QED
    BY <1>1, <1>3, <2>1
       DEF CloseReturnsEarly, CloseWithoutDirectory, CloseSeals, AfterClose
<1> QED
  BY <1>2, <1>3

LEMMA EntryStep ==
  ASSUME EInv, [Next]_vars
  PROVE  EInv' /\ Kept
<1> SUFFICES Entered' /\ Kept
  BY StepInvariant DEF EInv, Entered
<1>1. ASSUME \/ \E n \in Offsets : SetOffset(n)
             \/ SinkFails \/ UNCHANGED vars
      PROVE  Entered' /\ Kept
  <2>1. UNCHANGED <<fh, dir, last, blocks>>
    BY <1>1 DEF SetOffset, SinkFails, vars
  <2>2. OpenOwns'
    BY <2>1 DEF EInv, OpenOwns, Open, LastBlock
  <2> QED
    BY <2>1, <2>2 DEF EInv, Entered, Distinct, AllFramed, Kept, Untouched
<1>2. ASSUME NEW h \in Headers, NEW raw \in BOOLEAN, Fresh(h), Create(h, raw)
      PROVE  Entered' /\ Kept
  <2>1. PICK c \in CloseIfOpen : \/ CreateRejected(h, raw, c)
                                 \/ CreateFails(h, raw, c)
                                 \/ CreateSucceeds(h, raw, c)
    BY <1>2 DEF Create
  <2>2. ~closed
    BY <1>2 DEF Create, Usable
  <2>3. CASE CreateRejected(h, raw, c)
    BY <2>2, <2>3, ClosingKeeps DEF CreateRejected, AfterClose
  <2>4. CASE CreateFails(h, raw, c)
    <3>1. \A i \in 1 .. Len(blocks) : dir[i].fh # h
      BY <1>2, <2>4, NewHeader DEF CreateFails
    <3>2. c.fh \in [Headers -> FileHeaders(Methods)]
      BY <2>2, CloseOutcome DEF Outcome, EInv
    <3>3. \A i \in 1 .. Len(blocks) : dir[i].fh \in Headers
      <4>1. dir \in Seq(Entries) /\ Len(dir) = Len(blocks)
        BY DEF EInv, IInv, TypeOK, OffsetsPointAtHeaders
      <4>2. \A i \in 1 .. Len(blocks) : dir[i] \in Entries
        BY <4>1
      <4> QED
        BY <4>2 DEF Entries
    <3>4. \A i \in 1 .. Len(blocks) : fh'[dir[i].fh] = c.fh[dir[i].fh]
      BY <2>4, <3>1, <3>2, <3>3 DEF CreateFails
    <3> QED
      BY <2>2, <2>4, <3>4, ClosingKeeps DEF CreateFails, AfterClose
  <2>5. CASE CreateSucceeds(h, raw, c)
    BY <1>2, <2>2, <2>5, CreatingKeeps
  <2> QED
    BY <2>1, <2>3, <2>4, <2>5
<1>3. ASSUME NEW n \in Sizes, NEW c \in Sizes \cup Compressed, Write(n, c)
      PROVE  Entered' /\ Kept
  <2>1. n \in Nat /\ c \in Nat
    OBVIOUS
  <2> QED
    BY <1>3, <2>1, WritingKeeps
<1>4. CASE CloseEntry
  <2>1. ~closed
    BY <1>4 DEF CloseEntry, EInv, IInv, OpenIsLast
  <2>2. PICK c \in CloseIfOpen : fh' = c.fh /\ AfterClose(c)
    BY <1>4 DEF CloseEntry, CloseIfOpen
  <2> QED
    BY <1>4, <2>1, <2>2, ClosingKeeps DEF CloseEntry, AfterClose
<1>5. CASE Close
  <2>1. ~closed /\ dir' = dir
    BY <1>5 DEF Close, Usable
  <2>2. PICK c \in CloseIfOpen : /\ fh' = c.fh
                                 /\ \/ CloseReturnsEarly(c)
                                    \/ CloseWithoutDirectory(c)
                                    \/ CloseSeals(c)
    BY <1>5 DEF Close
  <2>3. blocks' = c.blocks /\ last' \in {c.last, NoFile}
    BY <2>2, CloseLeaves
  <2> QED
    BY <2>1, <2>2, <2>3, ClosingKeeps
<1> QED
  BY <1>1, <1>2, <1>3, <1>4, <1>5 DEF Next

LEMMA EntryInit == Init => EInv
<1> SUFFICES ASSUME Init
             PROVE  EInv
  OBVIOUS
<1>1. dir = <<>> /\ blocks = <<>> /\ ~Open
  BY DEF Init, Open
<1>2. Len(dir) = 0 /\ Len(blocks) = 0
  BY <1>1
<1> QED
  BY <1>1, <1>2, InitInvariant DEF EInv, Distinct, OpenOwns, AllFramed

(* The inductive invariant: every entry has its own FileHeader, and the    *)
(* fileWriter that is open, last, has that of the last one.                *)
THEOREM EntryInvariant == Spec => []EInv
<1>1. EInv /\ [Next]_vars => EInv'
  BY EntryStep
<1> QED
  BY <1>1, EntryInit, PTL DEF Spec

(* The header of a cipher comes once and before any data, and the          *)
(* authentication code once and after all of it: however the entry was     *)
(* written, with empty slices or not at all, and however it ended.         *)
(* (encryptionWriter, zipCryptoWriter)                                     *)
THEOREM AlwaysFramed == Spec => []Framed
<1>1. ASSUME EInv
      PROVE  Framed
  BY <1>1 DEF EInv, AllFramed, FramedAt, HeaderLenOf, Framed
<1> QED
  BY <1>1, EntryInvariant, PTL

(* An entry that is finished is never written to again, and no call of the *)
(* Writer, CreateHeader and Close with their errors included, changes what *)
(* the directory will say of it.                                           *)
THEOREM FinishedAlwaysStays == Spec => FinishedStays
<1>1. ASSUME EInv, [Next]_vars
      PROVE  [ \A i \in 1 .. Len(blocks) :
                 blocks[i].descriptor # <<>> =>
                   /\ blocks'[i] = blocks[i]
                   /\ dir'[i] = dir[i]
                   /\ DirectoryHeader(fh'[dir[i].fh], dir[i].offset)
                        = DirectoryHeader(fh[dir[i].fh], dir[i].offset) ]_vars
  <2>1. Kept
    BY <1>1, EntryStep
  <2> QED
    BY <2>1 DEF Kept, Untouched
<1> QED
  BY <1>1, EntryInvariant, PTL DEF Spec, FinishedStays

-----------------------------------------------------------------------------
(* What the directory of a sealed archive says of its entries.             *)

Clean == \A h \in Headers : CleanHeader(fh[h])

AllRecorded ==
  \A i \in 1 .. Len(blocks) : RecordedAt(blocks[i], fh[dir[i].fh])

Counted == Open => last.compCount = PayloadLen(LastBlock)

(* Nothing is left to do once the archive is sealed.                       *)
SealedLast ==
  Sealed => /\ closed /\ ~Open /\ sink = "ok"
            /\ cd = << CentralDirectory(fh, EndOf(blocks)) >>

Recording == Clean /\ AllRecorded /\ Counted /\ SealedLast

SInv == EInv /\ Recording

-----------------------------------------------------------------------------
ClosedRecorded(c) ==
  /\ \A i \in 1 .. Len(blocks) : RecordedAt(c.blocks[i], c.fh[dir[i].fh])
  /\ \A h \in Headers : CleanHeader(c.fh[h])

LEMMA LastRecords ==
  ASSUME SInv, ~closed, Open,
         NEW fw, NEW f, NEW b, NEW n, NEW ok, RecordedAt(b, f), CleanHeader(f)
  PROVE  ClosedRecorded(WithLast(fw, f, b, n, ok))
<1> DEFINE c == WithLast(fw, f, b, n, ok)
<1>1. OnlyLast(c, b, f)
  BY LastOnly DEF SInv
<1>2. fh \in [Headers -> FileHeaders(Methods)]
  BY DEF SInv, EInv, IInv, TypeOK
<1> HIDE DEF c
<1>3. \A i \in 1 .. Len(blocks) : RecordedAt(c.blocks[i], c.fh[dir[i].fh])
  BY <1>1 DEF OnlyLast, SInv, Recording, AllRecorded
<1>4. \A h \in Headers : CleanHeader(c.fh[h])
  BY <1>1, <1>2 DEF OnlyLast, SInv, Recording, Clean
<1> QED
  BY <1>3, <1>4 DEF ClosedRecorded, c

LEMMA CloseRecords ==
  ASSUME SInv, ~closed, NEW c \in CloseIfOpen
  PROVE  ClosedRecorded(c)
<1>1. CASE ~Open
  <2>1. c = Now
    BY <1>1 DEF CloseIfOpen
  <2>2. c.blocks = blocks /\ c.fh = fh
    BY <2>1 DEF Now
  <2> QED
    BY <2>2 DEF ClosedRecorded, SInv, Recording, AllRecorded, Clean
<1>2. CASE Open
  <2> DEFINE f == fh[last.fh]
  <2>1. last \in FileWriters /\ last.fh \in Headers
    BY <1>2 DEF Open, SInv, EInv, IInv, TypeOK, FileWriters
  <2>2. f \in FileHeaders(Methods) /\ CleanHeader(f)
    BY <2>1 DEF SInv, EInv, IInv, TypeOK, Recording, Clean
  <2>3. LastBlock \in Blocks /\ LastBlock.descriptor = <<>>
          /\ Len(blocks) \in 1 .. Len(blocks)
    BY <1>2 DEF SInv, EInv, IInv, TypeOK, OpenIsLast, LastBlock
  <2>4. last.compCount = PayloadLen(LastBlock)
    BY <1>2 DEF SInv, Recording, Counted
  <2>5. LastBlock.flags = f.flags /\ LastBlock.packed = MethodOf(f)
    <3>1. last.fh = dir[Len(blocks)].fh
      BY <1>2 DEF SInv, EInv, IInv, OpenOwns, OffsetsPointAtHeaders
    <3> QED
      BY <2>3, <3>1 DEF SInv, Recording, AllRecorded, RecordedAt, LastBlock
  <2> HIDE DEF f
  <2>6. ASSUME NEW d \in Tails(last), c = CloseSucceeds(d)
        PROVE  ClosedRecorded(c)
    <3> DEFINE fw == Finished(last, d)
               g  == UpdatedHeader(f, fw)
               b  == FinishedBlock(LastBlock, last, g, d)
    <3>1. d \in Nat
      BY TailsType
    <3>2. fw \in FileWriters
      BY <2>1, <2>2, <2>3, <3>1, FinishedBooks
    <3>3. RecordedAt(b, g)
      BY <2>1, <2>2, <2>3, <2>4, <2>5, <3>1, FinishRecords
    <3>4. CleanHeader(g)
      BY <2>2, <3>2, UpdatedClean
    <3>5. c = WithLast(fw, g, b, Descriptor(g, last).len, TRUE)
      BY <2>6 DEF CloseSucceeds, f
    <3> HIDE DEF fw, g, b
    <3> QED
      BY <1>2, <3>3, <3>4, <3>5, LastRecords
  <2>7. ASSUME NEW d \in Tails(last), c = CompressorFails(d)
        PROVE  ClosedRecorded(c)
    <3> DEFINE b == WrittenBlock(LastBlock, last, d)
    <3>1. d \in Nat /\ 0 \in Nat
      BY TailsType
    <3>2. b.flags = LastBlock.flags /\ b.packed = LastBlock.packed
      BY <2>1, <2>3, <2>4, <3>1, WriteCounts
    <3>3. b.descriptor = <<>>
      <4>1. ASSUME NEW v \in FileWriters, NEW e \in Blocks
            PROVE  WrittenBlock(e, v, d).descriptor = e.descriptor
        BY <3>1, WrittenBooks
      <4> QED
        BY <2>1, <2>3, <4>1
    <3>4. c = WithLast(Abandoned(last, d), f, b, 0, FALSE)
      BY <2>7 DEF CompressorFails, f
    <3> HIDE DEF b
    <3>5. RecordedAt(b, f)
      BY <2>5, <3>2, <3>3 DEF RecordedAt
    <3> QED
      BY <1>2, <2>2, <3>4, <3>5, LastRecords
  <2>8. ASSUME NEW updated \in BOOLEAN, c = SinkRefuses(updated)
        PROVE  ClosedRecorded(c)
    <3> DEFINE fw == [ last EXCEPT !.closed = TRUE ]
               g  == IF updated THEN UpdatedHeader(f, fw) ELSE f
    <3>1. fw \in FileWriters
      BY <2>1 DEF FileWriters
    <3>2. CleanHeader(g) /\ MethodOf(g) = MethodOf(f) /\ g.flags = f.flags
      BY <2>2, <3>1, UpdatedClean, UpdatedSettled
    <3>3. c = WithLast(fw, g, LastBlock, 0, FALSE)
      BY <2>8 DEF SinkRefuses, f
    <3> HIDE DEF fw, g
    <3>4. RecordedAt(LastBlock, g)
      BY <2>3, <2>5, <3>2 DEF RecordedAt
    <3> QED
      BY <1>2, <3>2, <3>3, <3>4, LastRecords
  <2>9. \/ \E d \in Tails(last) : c = CloseSucceeds(d) \/ c = CompressorFails(d)
        \/ \E updated \in BOOLEAN : c = SinkRefuses(updated)
    BY <1>2 DEF CloseIfOpen, CloseLast
  <2> QED
    BY <2>6, <2>7, <2>8, <2>9
<1> QED
  BY <1>1, <1>2

-----------------------------------------------------------------------------
(* A call that ends with the last entry closed and adds none; the headers  *)
(* of no entry may have changed besides.                                   *)
LEMMA ClosingRecords ==
  ASSUME SInv, ~closed, NEW c \in CloseIfOpen,
         dir' = dir, blocks' = c.blocks, last' \in {c.last, NoFile},
         \A i \in 1 .. Len(blocks) : fh'[dir[i].fh] = c.fh[dir[i].fh],
         \A h \in Headers : CleanHeader(c.fh[h]) => CleanHeader(fh'[h])
  PROVE  Clean' /\ AllRecorded' /\ Counted' /\ ~Open'
<1>1. ClosedRecorded(c)
  BY CloseRecords
<1>2. Outcome(c)
  BY CloseOutcome DEF SInv, EInv
<1>3. ~Open'
  BY <1>2 DEF Open, Outcome
<1>4. AllRecorded'
  BY <1>1, <1>2 DEF AllRecorded, ClosedRecorded, Outcome
<1>5. Clean'
  BY <1>1 DEF Clean, ClosedRecorded
<1> QED
  BY <1>3, <1>4, <1>5 DEF Counted

LEMMA CreatingRecords ==
  ASSUME SInv, ~closed, NEW h \in Headers, NEW raw \in BOOLEAN,
         Fresh(h), NEW c \in CloseIfOpen, CreateSucceeds(h, raw, c)
  PROVE  Clean' /\ AllRecorded' /\ Counted'
<1> DEFINE f == PreparedHeader(c.fh[h], raw)
           b == NewBlock(f, c.fh[h].method, EndOf(c.blocks))
           fw == NewFileWriter(h, c.fh[h], raw)
<1>1. ClosedRecorded(c)
  BY CloseRecords
<1>2. /\ c.fh \in [Headers -> FileHeaders(Methods)]
      /\ c.blocks \in Seq(Blocks) /\ Len(c.blocks) = Len(blocks)
      /\ c.fh[h] \in FileHeaders(Methods) /\ c.fh[h].method \in Methods
      /\ c.count \in Nat /\ EndOf(c.blocks) \in Nat
  <2>1. Outcome(c)
    BY CloseOutcome DEF SInv, EInv
  <2>2. c.fh[h] \in FileHeaders(Methods)
    BY <2>1 DEF Outcome
  <2>3. c.fh[h].method \in Methods
    BY <2>2 DEF FileHeaders
  <2> QED
    BY <2>1, <2>2, <2>3 DEF Outcome
<1>3. /\ dir \in Seq(Entries) /\ Len(dir) \in Nat /\ Len(dir) = Len(blocks)
  BY DEF SInv, EInv, IInv, TypeOK, OffsetsPointAtHeaders
<1>4. \A i \in 1 .. Len(blocks) : dir[i].fh # h
  BY NewHeader DEF CreateSucceeds, SInv
<1>5. /\ CleanHeader(f) /\ MethodOf(f) = c.fh[h].method
      /\ f \in FileHeaders(Methods)
  <2>1. HasCompressor(c.fh[h], raw)
    BY DEF CreateSucceeds, Creatable
  <2>2. CleanHeader(c.fh[h])
    BY <1>1 DEF ClosedRecorded
  <2> QED
    BY <1>2, <2>1, <2>2, PreparedClean, PreparedHeaderType
<1>6. /\ b \in Blocks /\ b.descriptor = <<>> /\ b.flags = f.flags
      /\ b.packed = c.fh[h].method /\ PayloadLen(b) = 0
  <2>1. b \in Blocks /\ b.descriptor = <<>>
    BY <1>2, <1>5, NewBlockType
  <2>2. b.flags = f.flags /\ b.packed = c.fh[h].method /\ PayloadLen(b) = 0
    BY DEF NewBlock, PayloadLen
  <2> QED
    BY <2>1, <2>2
<1>7. fw.compCount = 0
  BY DEF NewFileWriter
<1>8. /\ fh' = [ c.fh EXCEPT ![h] = f ]
      /\ dir' = Append(dir, [ fh |-> h, offset |-> c.count ])
      /\ last' = fw
      /\ blocks' = Append(c.blocks, b)
  BY DEF CreateSucceeds
<1> HIDE DEF f, b, fw
<1>9. RecordedAt(b, f)
  BY <1>5, <1>6 DEF RecordedAt
<1>10. /\ Len(blocks') = Len(dir) + 1
       /\ dir'[Len(dir) + 1].fh = h /\ blocks'[Len(dir) + 1] = b
       /\ \A i \in 1 .. Len(dir) : dir'[i] = dir[i] /\ blocks'[i] = c.blocks[i]
  <2>1. [ fh |-> h, offset |-> c.count ] \in Entries
    BY <1>2 DEF Entries
  <2>2. /\ dir'[Len(dir) + 1] = [ fh |-> h, offset |-> c.count ]
        /\ \A i \in 1 .. Len(dir) : dir'[i] = dir[i]
    BY <1>3, <1>8, <2>1
  <2>3. /\ Len(blocks') = Len(dir) + 1 /\ blocks'[Len(dir) + 1] = b
        /\ \A i \in 1 .. Len(dir) : blocks'[i] = c.blocks[i]
    BY <1>2, <1>3, <1>6, <1>8
  <2> QED
    BY <2>2, <2>3
<1>11. \A i \in 1 .. Len(dir) : dir[i].fh \in Headers
  <2>1. \A i \in 1 .. Len(dir) : dir[i] \in Entries
    BY <1>3
  <2> QED
    BY <2>1 DEF Entries
<1>12. /\ fh'[h] = f
       /\ \A i \in 1 .. Len(dir) : fh'[dir[i].fh] = c.fh[dir[i].fh]
  BY <1>2, <1>3, <1>4, <1>8, <1>11
<1>13. Clean'
  BY <1>1, <1>2, <1>5, <1>8 DEF Clean, ClosedRecorded
<1>14. AllRecorded'
  BY <1>1, <1>3, <1>9, <1>10, <1>12 DEF AllRecorded, ClosedRecorded
<1>15. Counted'
  BY <1>3, <1>6, <1>7, <1>8, <1>10 DEF Counted, LastBlock
<1> QED
  BY <1>13, <1>14, <1>15

LEMMA WritingRecords ==
  ASSUME SInv, NEW n \in Nat, NEW c \in Nat, Write(n, c)
  PROVE  Clean' /\ AllRecorded' /\ Counted'
<1>1. /\ Open /\ last' = Written(last, n, c)
      /\ blocks' = [ blocks EXCEPT ![Len(blocks)] = WrittenBlock(LastBlock, last, c) ]
      /\ fh' = fh /\ dir' = dir
  BY DEF Write, LastBlock
<1>2. /\ blocks \in Seq(Blocks) /\ Len(blocks) \in 1 .. Len(blocks)
      /\ LastBlock \in Blocks /\ LastBlock.descriptor = <<>>
      /\ last \in FileWriters
  BY <1>1 DEF SInv, EInv, IInv, TypeOK, OpenIsLast, LastBlock, Open
<1>3. last.compCount = PayloadLen(LastBlock)
  BY <1>1 DEF SInv, Recording, Counted
<1> DEFINE w == Written(last, n, c)
           b == WrittenBlock(LastBlock, last, c)
<1>4. /\ w.compCount = PayloadLen(b)
      /\ b.flags = LastBlock.flags /\ b.packed = LastBlock.packed
  BY <1>2, <1>3, WriteCounts
<1>5. b.descriptor = <<>>
  <2>1. ASSUME NEW v \in FileWriters, NEW e \in Blocks
        PROVE  WrittenBlock(e, v, c).descriptor = e.descriptor
    BY WrittenBooks
  <2> QED
    BY <1>2, <2>1
<1>6. last' = w /\ blocks' = [ blocks EXCEPT ![Len(blocks)] = b ]
  BY <1>1
<1> HIDE DEF w, b
<1>7. /\ Len(blocks') = Len(blocks) /\ blocks'[Len(blocks)] = b
      /\ \A i \in 1 .. Len(blocks) : i # Len(blocks) => blocks'[i] = blocks[i]
  BY <1>2, <1>6
<1>8. AllRecorded'
  <2>1. \A i \in 1 .. Len(blocks) : RecordedAt(blocks[i], fh[dir[i].fh])
    BY DEF SInv, Recording, AllRecorded
  <2>2. RecordedAt(b, fh[dir[Len(blocks)].fh])
    <3>1. RecordedAt(LastBlock, fh[dir[Len(blocks)].fh])
      BY <1>2, <2>1 DEF LastBlock
    <3> QED
      BY <1>4, <1>5, <3>1 DEF RecordedAt
  <2>3. ASSUME NEW i \in 1 .. Len(blocks)
        PROVE  RecordedAt(blocks'[i], fh[dir[i].fh])
    <3>1. CASE i = Len(blocks)
      BY <1>7, <2>2, <3>1
    <3>2. CASE i # Len(blocks)
      BY <1>7, <2>1, <3>2
    <3> QED
      BY <3>1, <3>2
  <2>4. Len(blocks') = Len(blocks)
    BY <1>7
  <2>5. fh' = fh /\ dir' = dir
    BY <1>1
  <2>6. \A i \in 1 .. Len(blocks') : RecordedAt(blocks'[i], fh'[dir'[i].fh])
    BY <2>3, <2>4, <2>5
  <2> QED
    BY <2>6 DEF AllRecorded
<1>9. Counted'
  <2>1. LastBlock' = b
    BY <1>7 DEF LastBlock
  <2>2. last'.compCount = PayloadLen(b)
    BY <1>4, <1>6
  <2> QED
    BY <2>1, <2>2 DEF Counted
<1>10. Clean'
  BY <1>1 DEF SInv, Recording, Clean
<1> QED
  BY <1>8, <1>9, <1>10

-----------------------------------------------------------------------------
(* While the Writer is in use nothing is sealed.                           *)
LEMMA InUse ==
  ASSUME SInv
  PROVE  /\ Open \/ ~closed \/ sink # "ok" => ~Sealed
         /\ cd' = cd /\ ~Sealed => SealedLast'
BY DEF SInv, Recording, SealedLast, Sealed

LEMMA SealingLast ==
  ASSUME SInv, ~closed, NEW c \in CloseIfOpen, CloseSeals(c),
         fh' = c.fh, UNCHANGED <<dir, base, sink>>, ~Open'
  PROVE  SealedLast'
<1>1. /\ closed' = TRUE /\ sink' = "ok" /\ blocks' = c.blocks
      /\ cd' = << CentralDirectory(c.fh, c.count) >>
  BY DEF CloseSeals
<1>2. c.count = EndOf(c.blocks)
  BY CloseOutcome DEF SInv, EInv, Outcome
<1>3. CentralDirectory(fh, EndOf(blocks))' = CentralDirectory(c.fh, c.count)
  BY <1>1, <1>2 DEF CentralDirectory, DirectoryRecords, EndOf
<1> QED
  BY <1>1, <1>3 DEF SealedLast

LEMMA RecordStep ==
  ASSUME SInv, [Next]_vars
  PROVE  SInv'
<1>0. EInv'
  BY EntryStep DEF SInv
<1> SUFFICES Recording'
  BY <1>0 DEF SInv
<1>1. ASSUME \/ \E n \in Offsets : SetOffset(n)
             \/ SinkFails \/ UNCHANGED vars
      PROVE  Recording'
  <2>1. UNCHANGED <<fh, dir, last, blocks, cd>>
    BY <1>1 DEF SetOffset, SinkFails, vars
  <2>2. Counted'
    BY <2>1 DEF SInv, Recording, Counted, Open, LastBlock
  <2>3. Clean' /\ AllRecorded'
    BY <2>1 DEF SInv, Recording, Clean, AllRecorded
  <2>4. SealedLast'
    <3>1. CASE UNCHANGED vars
      <4>1. CentralDirectory(fh, EndOf(blocks))' = CentralDirectory(fh, EndOf(blocks))
        BY <3>1 DEF vars, CentralDirectory, DirectoryRecords, EndOf
      <4> QED
        BY <3>1, <4>1 DEF vars, SInv, Recording, SealedLast, Sealed, Open
    <3>2. CASE ~UNCHANGED vars
      <4>1. ~Sealed
        BY <1>1, <3>2, InUse DEF SetOffset, SinkFails, Usable
      <4> QED
        BY <2>1, <4>1, InUse
    <3> QED
      BY <3>1, <3>2
  <2> QED
    BY <2>2, <2>3, <2>4 DEF Recording
<1>2. ASSUME NEW h \in Headers, NEW raw \in BOOLEAN, Fresh(h), Create(h, raw)
      PROVE  Recording'
  <2>1. PICK c \in CloseIfOpen : \/ CreateRejected(h, raw, c)
                                 \/ CreateFails(h, raw, c)
                                 \/ CreateSucceeds(h, raw, c)
    BY <1>2 DEF Create
  <2>2. ~closed /\ cd' = cd
    BY <1>2 DEF Create, Usable
  <2>3. SealedLast'
    BY <2>2, InUse
  <2>4. c.fh \in [Headers -> FileHeaders(Methods)]
    BY <2>2, CloseOutcome DEF Outcome, SInv, EInv
  <2>5. CASE CreateRejected(h, raw, c)
    BY <2>2, <2>3, <2>5, ClosingRecords DEF CreateRejected, AfterClose, Recording
  <2>6. CASE CreateFails(h, raw, c)
    <3>1. \A i \in 1 .. Len(blocks) : dir[i].fh # h
      BY <1>2, <2>6, NewHeader DEF CreateFails, SInv
    <3>2. \A i \in 1 .. Len(blocks) : dir[i].fh \in Headers
      <4>1. dir \in Seq(Entries) /\ Len(dir) = Len(blocks)
        BY DEF SInv, EInv, IInv, TypeOK, OffsetsPointAtHeaders
      <4>2. \A i \in 1 .. Len(blocks) : dir[i] \in Entries
        BY <4>1
      <4> QED
        BY <4>2 DEF Entries
    <3>3. fh' = [ c.fh EXCEPT ![h] = PreparedHeader(c.fh[h], raw) ]
      BY <2>6 DEF CreateFails
    <3>4. \A i \in 1 .. Len(blocks) : fh'[dir[i].fh] = c.fh[dir[i].fh]
      BY <2>4, <3>1, <3>2, <3>3
    <3>5. \A k \in Headers : CleanHeader(c.fh[k]) => CleanHeader(fh'[k])
      <4>1. CleanHeader(c.fh[h]) => CleanHeader(PreparedHeader(c.fh[h], raw))
        BY <2>4, PreparedClean
      <4> QED
        BY <2>4, <3>3, <4>1
    <3>6. dir' = dir /\ blocks' = c.blocks /\ last' = c.last
      BY <2>6 DEF CreateFails, AfterClose
    <3> QED
      BY <2>2, <2>3, <3>4, <3>5, <3>6, ClosingRecords DEF Recording
  <2>7. CASE CreateSucceeds(h, raw, c)
    BY <1>2, <2>2, <2>3, <2>7, CreatingRecords DEF Recording
  <2> QED
    BY <2>1, <2>5, <2>6, <2>7
<1>3. ASSUME NEW n \in Sizes, NEW c \in Sizes \cup Compressed, Write(n, c)
      PROVE  Recording'
  <2>1. n \in Nat /\ c \in Nat
    OBVIOUS
  <2>2. SealedLast'
    BY <1>3, InUse DEF Write
  <2> QED
    BY <1>3, <2>1, <2>2, WritingRecords DEF Recording
<1>4. CASE CloseEntry
  <2>1. ~closed
    BY <1>4 DEF CloseEntry, SInv, EInv, IInv, OpenIsLast
  <2>2. PICK c \in CloseIfOpen : fh' = c.fh /\ AfterClose(c)
    BY <1>4 DEF CloseEntry, CloseIfOpen
  <2>3. SealedLast'
    BY <1>4, InUse DEF CloseEntry
  <2> QED
    BY <1>4, <2>1, <2>2, <2>3, ClosingRecords DEF CloseEntry, AfterClose, Recording
<1>5. CASE Close
  <2>1. ~closed /\ UNCHANGED <<dir, base, sink>>
    BY <1>5 DEF Close, Usable
  <2>2. PICK c \in CloseIfOpen : /\ fh' = c.fh
                                 /\ \/ CloseReturnsEarly(c)
                                    \/ CloseWithoutDirectory(c)
                                    \/ CloseSeals(c)
    BY <1>5 DEF Close
  <2>3. blocks' = c.blocks /\ last' \in {c.last, NoFile}
    BY <2>2, CloseLeaves
  <2>4. Clean' /\ AllRecorded' /\ Counted' /\ ~Open'
    BY <2>1, <2>2, <2>3, ClosingRecords
  <2>5. SealedLast'
    <3>1. CASE CloseSeals(c)
      BY <2>1, <2>2, <2>4, <3>1, SealingLast
    <3>2. CASE ~CloseSeals(c)
      <4>1. cd' = cd
        BY <2>2, <3>2 DEF CloseReturnsEarly, CloseWithoutDirectory
      <4> QED
        BY <2>1, <4>1, InUse
    <3> QED
      BY <3>1, <3>2
  <2> QED
    BY <2>4, <2>5 DEF Recording
<1> QED
  BY <1>1, <1>2, <1>3, <1>4, <1>5 DEF Next

LEMMA RecordInit ==
  ASSUME \A f \in Initial : CleanHeader(f), Init
  PROVE  SInv
<1>1. Len(blocks) = 0 /\ ~Open /\ ~Sealed
  BY DEF Init, Open, Sealed
<1>2. Clean
  BY DEF Init, Clean
<1> QED
  BY <1>1, <1>2, EntryInit DEF SInv, Recording, AllRecorded, Counted, SealedLast

(* The record of a finished entry says what is true of it.                 *)
LEMMA EntryReadsBack ==
  ASSUME SInv, Sealed, NEW i \in 1 .. Len(blocks), blocks[i].descriptor # <<>>
  PROVE  ReadsBack(i)
<1> DEFINE f == fh[dir[i].fh]
           rec == cd[1].records[i]
           r == ReadDirectoryHeader(rec)
<1>1. /\ dir \in Seq(Entries) /\ Len(dir) = Len(blocks)
      /\ dir[i].offset = blocks[i].at /\ blocks[i] \in Blocks
  BY DEF SInv, EInv, IInv, TypeOK, OffsetsPointAtHeaders
<1>2. dir[i].fh \in Headers /\ dir[i].offset \in Nat
  <2>1. dir[i] \in Entries
    BY <1>1
  <2> QED
    BY <2>1 DEF Entries
<1>3. f \in FileHeaders(Methods) /\ CleanHeader(f)
  BY <1>2 DEF SInv, EInv, IInv, TypeOK, Recording, Clean
<1>4. RecordedAt(blocks[i], f) /\ FramedAt(blocks[i], f)
  BY DEF SInv, EInv, AllFramed, Recording, AllRecorded
<1>5. rec = DirectoryHeader(f, dir[i].offset)
  <2>1. cd[1] = CentralDirectory(fh, EndOf(blocks))
    BY DEF SInv, Recording, SealedLast
  <2>2. cd[1].records = DirectoryRecords(fh)
    BY <2>1 DEF CentralDirectory
  <2> QED
    BY <1>1, <2>2 DEF DirectoryRecords
<1> HIDE DEF f, rec
<1>6. Agrees(rec, blocks[i]) /\ r.headerOffset = dir[i].offset
  BY <1>2, <1>3, <1>4, <1>5, RecordAgrees
<1> QED
  BY <1>1, <1>6 DEF ReadsBack, rec, r

LEMMA SealReadsBack ==
  ASSUME SInv
  PROVE  SealedReadsBack
<1> SUFFICES ASSUME Sealed
             PROVE  SealedReadsBack
  BY DEF SealedReadsBack
<1> DEFINE size == DirectorySize(cd[1].records)
           end  == ReadDirectoryEnd(cd[1].end, EndOf(blocks) + size)
<1>1. /\ sink = "ok" /\ ~Open
      /\ cd[1] = CentralDirectory(fh, EndOf(blocks))
  BY DEF SInv, Recording, SealedLast
<1>2. cd[1].end = DirectoryEnd(Len(dir), size, EndOf(blocks))
  BY <1>1 DEF CentralDirectory
<1>3. Len(dir) = Len(blocks)
  BY DEF SInv, EInv, IInv, OffsetsPointAtHeaders
<1> HIDE DEF size
<1>4. end.ok /\ end.offset = EndOf(blocks) /\ end.records = Len(blocks)
  BY <1>2, <1>3, EndReadsBack
<1>5. \A i \in 1 .. Len(blocks) : blocks[i].descriptor # <<>> => ReadsBack(i)
  BY EntryReadsBack
<1> QED
  BY <1>1, <1>4, <1>5 DEF SealedReadsBack, size

(* Once Close has returned nil, whatever was created, written, refused or  *)
(* abandoned before, and however large anything is, a reader that follows  *)
(* the end records finds the directory, and through it every finished      *)
(* entry, with the sizes, checksum, flags and method that are true of it.  *)
(* The headers are those a caller hands in fresh.  (CreateHeader, Close,   *)
(* writeDirectoryHeader, writeCentralDirectory, readDirectoryHeader)       *)
THEOREM SealedAlwaysReadsBack ==
  ASSUME \A f \in Initial : CleanHeader(f)
  PROVE  Spec => []SealedReadsBack
<1>1. Init => SInv
  BY RecordInit
<1>2. SInv /\ [Next]_vars => SInv'
  BY RecordStep
<1>3. SInv => SealedReadsBack
  BY SealReadsBack
<1> QED
  BY <1>1, <1>2, <1>3, PTL DEF Spec

-----------------------------------------------------------------------------
(* Writer implements Archive: how the entries move in one step.            *)

(* Closing touches no entry but the one that is open, and takes nothing    *)
(* from it.                                                                *)
Grown(bs) ==
  /\ \A i \in 1 .. Len(dir) : (Open /\ i = Len(dir)) \/ bs[i] = blocks[i]
  /\ Open => PayloadLen(bs[Len(dir)]) >= PayloadLen(blocks[Len(dir)])

LEMMA LastGrows ==
  ASSUME EInv, ~closed, Open, NEW fw, NEW f, NEW b, NEW n, NEW ok,
         PayloadLen(b) >= PayloadLen(LastBlock)
  PROVE  Grown(WithLast(fw, f, b, n, ok).blocks)
<1> DEFINE c == WithLast(fw, f, b, n, ok)
<1>1. OnlyLast(c, b, f)
  BY LastOnly
<1>2. Len(dir) = Len(blocks)
  BY DEF EInv, IInv, OffsetsPointAtHeaders
<1> HIDE DEF c
<1>3. /\ \A i \in 1 .. Len(dir) : i = Len(dir) \/ c.blocks[i] = blocks[i]
      /\ c.blocks[Len(dir)] = b
  BY <1>1, <1>2 DEF OnlyLast
<1>4. PayloadLen(c.blocks[Len(dir)]) >= PayloadLen(blocks[Len(dir)])
  BY <1>2, <1>3 DEF LastBlock
<1> QED
  BY <1>3, <1>4 DEF Grown, c

LEMMA CloseGrows ==
  ASSUME EInv, ~closed, NEW c \in CloseIfOpen
  PROVE  Grown(c.blocks)
<1>1. CASE ~Open
  BY <1>1 DEF CloseIfOpen, Now, Grown
<1>2. CASE Open
  <2>1. /\ last \in FileWriters /\ LastBlock \in Blocks
    BY <1>2 DEF Open, EInv, IInv, TypeOK, OpenIsLast, LastBlock
  <2>2. PayloadLen(LastBlock) \in Nat
    BY <2>1, 0 \in Nat, GrowingBlock
  <2>3. ASSUME NEW d \in Tails(last), c = CloseSucceeds(d)
        PROVE  Grown(c.blocks)
    <3>1. d \in Nat
      BY TailsType
    <3> DEFINE fw == Finished(last, d)
               f  == UpdatedHeader(fh[last.fh], fw)
               b  == FinishedBlock(LastBlock, last, f, d)
    <3>2. PayloadLen(b) >= PayloadLen(LastBlock)
      BY <2>1, <3>1, GrowingBlock
    <3>3. c = WithLast(fw, f, b, Descriptor(f, last).len, TRUE)
      BY <2>3 DEF CloseSucceeds
    <3> HIDE DEF fw, f, b
    <3> QED
      BY <1>2, <3>2, <3>3, LastGrows
  <2>4. ASSUME NEW d \in Tails(last), c = CompressorFails(d)
        PROVE  Grown(c.blocks)
    <3>1. d \in Nat
      BY TailsType
    <3>2. PayloadLen(WrittenBlock(LastBlock, last, d)) >= PayloadLen(LastBlock)
      BY <2>1, <3>1, GrowingBlock
    <3> QED
      BY <1>2, <2>4, <3>2, LastGrows DEF CompressorFails
  <2>5. ASSUME NEW updated \in BOOLEAN, c = SinkRefuses(updated)
        PROVE  Grown(c.blocks)
    <3>1. PayloadLen(LastBlock) >= PayloadLen(LastBlock)
      BY <2>2
    <3> QED
      BY <1>2, <2>5, <3>1, LastGrows DEF SinkRefuses
  <2>6. \/ \E d \in Tails(last) : c = CloseSucceeds(d) \/ c = CompressorFails(d)
        \/ \E updated \in BOOLEAN : c = SinkRefuses(updated)
    BY <1>2 DEF CloseIfOpen, CloseLast
  <2> QED
    BY <2>3, <2>4, <2>5, <2>6
<1> QED
  BY <1>1, <1>2

(* A step adds no entry, and leaves none open that was not, or adds one    *)
(* that is open and empty.                                                 *)
Advance ==
  /\ Grown(blocks')
  /\ \/ dir' = dir /\ Len(blocks') = Len(dir) /\ (Open' => Open)
     \/ /\ Len(dir') = Len(dir) + 1 /\ Len(blocks') = Len(dir) + 1
        /\ \A i \in 1 .. Len(dir) : dir'[i] = dir[i]
        /\ Open' /\ PayloadLen(blocks'[Len(dir) + 1]) = 0

LEMMA ClosingAdvances ==
  ASSUME EInv, ~closed, NEW c \in CloseIfOpen,
         dir' = dir, blocks' = c.blocks, last' \in {c.last, NoFile}
  PROVE  Advance
<1>1. Grown(c.blocks)
  BY CloseGrows
<1>2. Outcome(c)
  BY CloseOutcome DEF EInv
<1>3. ~Open'
  BY <1>2 DEF Open, Outcome
<1>4. Len(c.blocks) = Len(dir)
  BY <1>2 DEF Outcome, EInv, IInv, OffsetsPointAtHeaders
<1> QED
  BY <1>1, <1>3, <1>4 DEF Advance

LEMMA CreatingAdvances ==
  ASSUME EInv, ~closed, NEW h \in Headers, NEW raw \in BOOLEAN,
         NEW c \in CloseIfOpen, CreateSucceeds(h, raw, c)
  PROVE  Advance
<1> DEFINE b == NewBlock(PreparedHeader(c.fh[h], raw), c.fh[h].method, EndOf(c.blocks))
<1>1. /\ c.blocks \in Seq(Blocks) /\ Len(c.blocks) = Len(blocks)
      /\ c.fh[h] \in FileHeaders(Methods) /\ c.fh[h].method \in Methods
      /\ c.count \in Nat /\ EndOf(c.blocks) \in Nat
  <2>1. Outcome(c)
    BY CloseOutcome DEF EInv
  <2>2. c.fh[h] \in FileHeaders(Methods)
    BY <2>1 DEF Outcome
  <2>3. c.fh[h].method \in Methods
    BY <2>2 DEF FileHeaders
  <2> QED
    BY <2>1, <2>2, <2>3 DEF Outcome
<1>2. /\ dir \in Seq(Entries) /\ Len(dir) \in Nat /\ Len(dir) = Len(blocks)
      /\ [ fh |-> h, offset |-> c.count ] \in Entries
  BY <1>1 DEF EInv, IInv, TypeOK, OffsetsPointAtHeaders, Entries
<1>3. b \in Blocks
  BY <1>1, PreparedHeaderType, NewBlockType
<1>4. PayloadLen(b) = 0
  BY DEF NewBlock, PayloadLen
<1>5. /\ dir' = Append(dir, [ fh |-> h, offset |-> c.count ])
      /\ blocks' = Append(c.blocks, b)
      /\ last' = NewFileWriter(h, c.fh[h], raw)
  BY DEF CreateSucceeds
<1> HIDE DEF b
<1>6. /\ Len(dir') = Len(dir) + 1 /\ Len(blocks') = Len(dir) + 1
      /\ \A i \in 1 .. Len(dir) : dir'[i] = dir[i] /\ blocks'[i] = c.blocks[i]
      /\ blocks'[Len(dir) + 1] = b
  <2>1. Len(dir') = Len(dir) + 1 /\ \A i \in 1 .. Len(dir) : dir'[i] = dir[i]
    BY <1>2, <1>5
  <2>2. /\ Len(blocks') = Len(dir) + 1 /\ blocks'[Len(dir) + 1] = b
        /\ \A i \in 1 .. Len(dir) : blocks'[i] = c.blocks[i]
    BY <1>1, <1>2, <1>3, <1>5
  <2> QED
    BY <2>1, <2>2
<1>7. Open'
  <2>1. last' \in FileWriters
    BY <1>1, <1>5, NewFileWriterType
  <2>2. last'.closed = FALSE
    BY <1>5 DEF NewFileWriter
  <2> QED
    BY <2>1, <2>2 DEF Open
<1>8. Grown(blocks')
  <2>1. Grown(c.blocks)
    BY CloseGrows
  <2>2. Open => Len(dir) \in 1 .. Len(dir)
    BY <1>2 DEF EInv, IInv, OpenIsLast
  <2> QED
    BY <1>6, <2>1, <2>2 DEF Grown
<1> QED
  BY <1>4, <1>6, <1>7, <1>8 DEF Advance

LEMMA WritingAdvances ==
  ASSUME EInv, NEW n \in Nat, NEW d \in Nat, Write(n, d)
  PROVE  Advance
<1>1. /\ Open /\ dir' = dir
      /\ blocks' = [ blocks EXCEPT ![Len(blocks)] = WrittenBlock(LastBlock, last, d) ]
  BY DEF Write, LastBlock
<1>2. /\ blocks \in Seq(Blocks) /\ Len(blocks) \in 1 .. Len(blocks)
      /\ LastBlock \in Blocks /\ last \in FileWriters
      /\ Len(dir) = Len(blocks)
  BY <1>1 DEF EInv, IInv, TypeOK, OpenIsLast, OffsetsPointAtHeaders, LastBlock,
              Open
<1> DEFINE b == WrittenBlock(LastBlock, last, d)
<1>3. PayloadLen(b) >= PayloadLen(LastBlock)
  BY <1>2, GrowingBlock
<1>4. blocks' = [ blocks EXCEPT ![Len(blocks)] = b ]
  BY <1>1
<1> HIDE DEF b
<1>5. /\ Len(blocks') = Len(blocks) /\ blocks'[Len(blocks)] = b
      /\ \A i \in 1 .. Len(blocks) : i # Len(blocks) => blocks'[i] = blocks[i]
  BY <1>2, <1>4
<1>6. Grown(blocks')
  BY <1>1, <1>2, <1>3, <1>5 DEF Grown, LastBlock
<1> QED
  BY <1>1, <1>2, <1>5, <1>6 DEF Advance

LEMMA Advances ==
  ASSUME EInv, [Next]_vars
  PROVE  Advance
<1>1. ASSUME \/ \E n \in Offsets : SetOffset(n)
             \/ SinkFails \/ UNCHANGED vars
      PROVE  Advance
  <2>1. UNCHANGED <<dir, last, blocks>>
    BY <1>1 DEF SetOffset, SinkFails, vars
  <2>2. Len(dir) = Len(blocks) /\ (Open' <=> Open)
    BY <2>1 DEF EInv, IInv, OffsetsPointAtHeaders, Open
  <2>3. Open => PayloadLen(blocks[Len(dir)]) \in Nat
    <3>1. SUFFICES ASSUME Open
                   PROVE  PayloadLen(blocks[Len(dir)]) \in Nat
      OBVIOUS
    <3>2. blocks[Len(dir)] \in Blocks /\ last \in FileWriters
      BY <2>2, <3>1 DEF EInv, IInv, TypeOK, OpenIsLast, Open
    <3> QED
      BY <3>2, 0 \in Nat, GrowingBlock
  <2>4. Grown(blocks')
    BY <2>1, <2>3 DEF Grown
  <2> QED
    BY <2>1, <2>2, <2>4 DEF Advance
<1>2. ASSUME NEW h \in Headers, NEW raw \in BOOLEAN, Fresh(h), Create(h, raw)
      PROVE  Advance
  <2>1. PICK c \in CloseIfOpen : \/ CreateRejected(h, raw, c)
                                 \/ CreateFails(h, raw, c)
                                 \/ CreateSucceeds(h, raw, c)
    BY <1>2 DEF Create
  <2>2. ~closed
    BY <1>2 DEF Create, Usable
  <2>3. CASE CreateRejected(h, raw, c) \/ CreateFails(h, raw, c)
    <3>1. dir' = dir /\ blocks' = c.blocks /\ last' = c.last
      BY <2>3 DEF CreateRejected, CreateFails, AfterClose
    <3> QED
      BY <2>2, <3>1, ClosingAdvances
  <2>4. CASE CreateSucceeds(h, raw, c)
    BY <2>2, <2>4, CreatingAdvances
  <2> QED
    BY <2>1, <2>3, <2>4
<1>3. ASSUME NEW n \in Sizes, NEW c \in Sizes \cup Compressed, Write(n, c)
      PROVE  Advance
  <2>1. n \in Nat /\ c \in Nat
    OBVIOUS
  <2> QED
    BY <1>3, <2>1, WritingAdvances
<1>4. CASE CloseEntry
  <2>1. ~closed
    BY <1>4 DEF CloseEntry, EInv, IInv, OpenIsLast
  <2>2. PICK c \in CloseIfOpen : AfterClose(c)
    BY <1>4 DEF CloseEntry, CloseIfOpen
  <2> QED
    BY <1>4, <2>1, <2>2, ClosingAdvances DEF CloseEntry, AfterClose
<1>5. CASE Close
  <2>1. ~closed /\ dir' = dir
    BY <1>5 DEF Close, Usable
  <2>2. PICK c \in CloseIfOpen : \/ CloseReturnsEarly(c)
                                 \/ CloseWithoutDirectory(c)
                                 \/ CloseSeals(c)
    BY <1>5 DEF Close
  <2>3. blocks' = c.blocks /\ last' \in {c.last, NoFile}
    BY <2>2, CloseLeaves
  <2> QED
    BY <2>1, <2>2, <2>3, ClosingAdvances
<1> QED
  BY <1>1, <1>2, <1>3, <1>4, <1>5 DEF Next

(* An entry as Archive sees it: a block, and whether it is still open.     *)
Seen(b, isOpen) ==
  [ state |-> IF b.descriptor # <<>> THEN "finished"
              ELSE IF isOpen THEN "open"
              ELSE "abandoned",
    size  |-> PayloadLen(b) ]

(* The entry of a header is found whatever CHOOSE does.                    *)
LEMMA OneIndex ==
  ASSUME NEW d, NEW n, NEW i \in 1 .. n,
         \A j, k \in 1 .. n : d[j].fh = d[k].fh => j = k
  PROVE  (CHOOSE j \in 1 .. n : d[j].fh = d[i].fh) = i
OBVIOUS

LEMMA EntriesSeen ==
  ASSUME Distinct, NEW i \in 1 .. Len(dir)
  PROVE  EntryOf(dir[i].fh) = Seen(blocks[i], Open /\ i = Len(blocks))
<1> DEFINE k == CHOOSE j \in 1 .. Len(dir) : dir[j].fh = dir[i].fh
<1>1. k = i
  BY OneIndex DEF Distinct
<1>2. EntryOf(dir[i].fh) = EntryAt(k)
  BY DEF EntryOf
<1> HIDE DEF k
<1> QED
  BY <1>1, <1>2 DEF EntryAt, Seen

LEMMA EntriesSeenNext ==
  ASSUME Distinct', NEW i \in 1 .. Len(dir')
  PROVE  EntryOf(dir[i].fh)' = Seen(blocks'[i], Open' /\ i = Len(blocks'))
<1> DEFINE k == CHOOSE j \in 1 .. Len(dir') : dir'[j].fh = dir'[i].fh
<1>1. k = i
  BY OneIndex DEF Distinct
<1>2. EntryOf(dir[i].fh)' = Seen(blocks'[k], Open' /\ k = Len(blocks'))
  BY DEF EntryOf, EntryAt, Seen
<1> HIDE DEF k
<1> QED
  BY <1>1, <1>2

LEMMA NotSeen ==
  ASSUME NEW h
  PROVE  /\ (\A i \in 1 .. Len(dir) : dir[i].fh # h) =>
              EntryOf(h) = [ state |-> "none", size |-> 0 ]
         /\ (\A i \in 1 .. Len(dir') : dir'[i].fh # h) =>
              EntryOf(h)' = [ state |-> "none", size |-> 0 ]
BY DEF EntryOf

(* An entry that was there stays as it is, or grows if it was open.        *)
LEMMA EntryMoves ==
  ASSUME EInv, EInv', Advance, NEW i \in 1 .. Len(dir)
  PROVE  LET old == Seen(blocks[i], Open /\ i = Len(blocks))
             new == Seen(blocks'[i], Open' /\ i = Len(blocks'))
         IN new = old \/ Promise!Grows(old, new)
<1> DEFINE old == Seen(blocks[i], Open /\ i = Len(blocks))
           new == Seen(blocks'[i], Open' /\ i = Len(blocks'))
<1>1. Len(dir) = Len(blocks) /\ Len(dir) \in Nat
  BY DEF EInv, IInv, TypeOK, OffsetsPointAtHeaders
<1>2. CASE Open /\ i = Len(dir)
  <2>1. blocks[i].descriptor = <<>>
    BY <1>1, <1>2 DEF EInv, IInv, OpenIsLast, LastBlock
  <2>2. old.state = "open" /\ old.size = PayloadLen(blocks[i])
    BY <1>1, <1>2, <2>1 DEF Seen
  <2>3. /\ new.state \in {"open", "finished", "abandoned"}
        /\ new.size = PayloadLen(blocks'[i])
    BY DEF Seen
  <2>4. PayloadLen(blocks'[i]) >= PayloadLen(blocks[i])
    BY <1>2 DEF Advance, Grown
  <2> HIDE DEF old, new
  <2>5. Promise!Grows(old, new)
    BY <2>2, <2>3, <2>4 DEF Promise!Grows
  <2> QED
    BY <2>5 DEF old, new
<1>3. CASE ~(Open /\ i = Len(dir))
  <2>1. blocks'[i] = blocks[i]
    BY <1>3 DEF Advance, Grown
  <2>2. ~(Open' /\ i = Len(blocks'))
    BY <1>1, <1>3 DEF Advance
  <2> QED
    BY <1>1, <1>3, <2>1, <2>2 DEF Seen
<1> QED
  BY <1>2, <1>3

(* An entry that is added is open and empty.                               *)
LEMMA EntryBegins ==
  ASSUME EInv, EInv', Advance, Len(dir') = Len(dir) + 1
  PROVE  LET new == Seen(blocks'[Len(dir')], Open' /\ Len(dir') = Len(blocks'))
         IN new = [ state |-> "open", size |-> 0 ]
<1>1. Len(dir) \in Nat
  BY DEF EInv, IInv, TypeOK
<1>2. /\ Open' /\ Len(blocks') = Len(dir')
      /\ PayloadLen(blocks'[Len(dir')]) = 0
  BY <1>1 DEF Advance
<1>3. blocks'[Len(dir')].descriptor = <<>>
  BY <1>2 DEF EInv, IInv, OpenIsLast, LastBlock
<1> QED
  BY <1>2, <1>3 DEF Seen

LEMMA WorkStep ==
  ASSUME EInv, EInv', Advance, NEW h \in Headers
  PROVE  \/ EntryOf(h)' = EntryOf(h)
         \/ Promise!Begins(EntryOf(h), EntryOf(h)')
         \/ Promise!Grows(EntryOf(h), EntryOf(h)')
<1>1. /\ Len(dir) \in Nat
      /\ Len(dir') = Len(dir) \/ Len(dir') = Len(dir) + 1
      /\ \A i \in 1 .. Len(dir) : dir'[i] = dir[i] /\ i \in 1 .. Len(dir')
  BY DEF EInv, IInv, TypeOK, Advance
<1>2. CASE \E i \in 1 .. Len(dir) : dir[i].fh = h
  <2>1. PICK i \in 1 .. Len(dir) : dir[i].fh = h
    BY <1>2
  <2>2. i \in 1 .. Len(dir') /\ dir'[i].fh = h
    BY <1>1, <2>1
  <2>3. EntryOf(h) = Seen(blocks[i], Open /\ i = Len(blocks))
    BY <2>1, EntriesSeen DEF EInv
  <2>4. EntryOf(h)' = Seen(blocks'[i], Open' /\ i = Len(blocks'))
    BY <2>2, EntriesSeenNext DEF EInv
  <2> QED
    BY <2>3, <2>4, EntryMoves
<1>3. CASE /\ \A i \in 1 .. Len(dir) : dir[i].fh # h
           /\ Len(dir') = Len(dir) + 1 /\ dir'[Len(dir')].fh = h
  <2>1. EntryOf(h) = [ state |-> "none", size |-> 0 ]
    BY <1>3, NotSeen
  <2>2. Len(dir') \in 1 .. Len(dir')
    BY <1>1, <1>3
  <2>3. EntryOf(h)' = [ state |-> "open", size |-> 0 ]
    BY <1>3, <2>2, EntriesSeenNext, EntryBegins DEF EInv
  <2> QED
    BY <2>1, <2>3 DEF Promise!Begins, Promise!Absent
<1>4. CASE /\ \A i \in 1 .. Len(dir) : dir[i].fh # h
           /\ ~(Len(dir') = Len(dir) + 1 /\ dir'[Len(dir')].fh = h)
  <2>1. \A i \in 1 .. Len(dir') : dir'[i].fh # h
    BY <1>1, <1>4
  <2> QED
    BY <1>4, <2>1, NotSeen
<1> QED
  BY <1>2, <1>3, <1>4

(* At most the entry created last is open.                                 *)
LEMMA OneOpen ==
  ASSUME EInv'
  PROVE  LET opened == { h \in Headers : EntryOf(h)'.state = "open" }
         IN (\A g, h \in opened : g = h) /\ (~Open' => opened = {})
<1> DEFINE opened == { h \in Headers : EntryOf(h)'.state = "open" }
           x == dir'[Len(dir')].fh
<1>1. /\ Len(dir') \in Nat /\ Len(dir') = Len(blocks')
  BY DEF EInv, IInv, TypeOK, OffsetsPointAtHeaders
<1>2. ASSUME NEW h \in opened
      PROVE  Open' /\ h = x
  <2>1. PICK i \in 1 .. Len(dir') : dir'[i].fh = h
    BY <1>2, NotSeen
  <2>2. EntryOf(h)' = Seen(blocks'[i], Open' /\ i = Len(blocks'))
    BY <2>1, EntriesSeenNext DEF EInv
  <2>3. Open' /\ i = Len(blocks')
    BY <1>2, <2>2 DEF Seen
  <2> QED
    BY <1>1, <2>1, <2>3
<1> QED
  BY <1>2

(* Sealing lists every entry once, with its size.                          *)
LEMMA ListingRight ==
  ASSUME SInv, SInv', SealedReadsBack', Sealed'
  PROVE  LET d == Listing'
             e == [ h \in Headers |-> EntryOf(h)' ]
         IN Promise!Lists(d, e)
<1> DEFINE d == Listing'
           e == [ h \in Headers |-> EntryOf(h)' ]
           r(i) == ReadDirectoryHeader(cd'[1].records[i])
<1>1. /\ Len(dir') \in Nat /\ Len(dir') = Len(blocks') /\ ~Open'
      /\ \A i \in 1 .. Len(dir') : dir'[i].fh \in Headers
  <2>1. dir' \in Seq(Entries) /\ Len(dir') = Len(blocks')
    BY DEF SInv, EInv, IInv, TypeOK, OffsetsPointAtHeaders, Entries
  <2>2. \A i \in 1 .. Len(dir') : dir'[i] \in Entries
    BY <2>1
  <2>3. ~Open'
    BY DEF SInv, Recording, SealedLast
  <2> QED
    BY <2>1, <2>2, <2>3 DEF Entries
<1>2. /\ d = [ i \in 1 .. Len(dir') |->
                 [ header |-> dir'[i].fh, size |-> r(i).csize64 ] ]
      /\ Len(d) = Len(dir')
  BY <1>1 DEF Listing
<1>3. \A i \in 1 .. Len(dir') : d[i].header = dir'[i].fh /\ d[i].size = r(i).csize64
  BY <1>2
<1>4. \A i \in 1 .. Len(dir') :
         e[dir'[i].fh] = Seen(blocks'[i], Open' /\ i = Len(blocks'))
  <2>1. ASSUME NEW i \in 1 .. Len(dir')
        PROVE  EntryOf(dir[i].fh)' = Seen(blocks'[i], Open' /\ i = Len(blocks'))
    BY EntriesSeenNext DEF SInv, EInv
  <2> QED
    BY <1>1, <2>1
<1>5. \A i \in 1 .. Len(dir') :
         blocks'[i].descriptor # <<>> => r(i).csize64 = PayloadLen(blocks'[i])
  BY <1>1 DEF SealedReadsBack, ReadsBack, Agrees
<1> HIDE DEF d, e, r
<1>6. Promise!OpenIn(e) = {}
  BY <1>1, OneOpen DEF Promise!OpenIn, e, SInv
<1>7. { d[i].header : i \in 1 .. Len(d) } = { h \in Headers : e[h].state # "none" }
  <2>1. ASSUME NEW i \in 1 .. Len(d)
        PROVE  d[i].header \in { h \in Headers : e[h].state # "none" }
    <3>1. /\ i \in 1 .. Len(dir') /\ d[i].header = dir'[i].fh
          /\ dir'[i].fh \in Headers
      BY <1>1, <1>2, <1>3
    <3>2. e[dir'[i].fh] = Seen(blocks'[i], Open' /\ i = Len(blocks'))
      BY <1>4, <3>1
    <3>3. e[dir'[i].fh].state # "none"
      BY <3>2 DEF Seen
    <3> QED
      BY <3>1, <3>3
  <2>2. ASSUME NEW h \in Headers, e[h].state # "none"
        PROVE  \E i \in 1 .. Len(d) : d[i].header = h
    <3>1. EntryOf(h)'.state # "none"
      BY <2>2 DEF e
    <3>2. \E i \in 1 .. Len(dir') : dir'[i].fh = h
      BY <3>1, NotSeen
    <3> QED
      BY <1>2, <1>3, <3>2
  <2> QED
    BY <2>1, <2>2
<1>8. \A i, j \in 1 .. Len(d) : d[i].header = d[j].header => i = j
  BY <1>2, <1>3 DEF SInv, EInv, Distinct
<1>9. \A i \in 1 .. Len(d) :
         e[d[i].header].state = "finished" => d[i].size = e[d[i].header].size
  <2> SUFFICES ASSUME NEW i \in 1 .. Len(d), e[d[i].header].state = "finished"
               PROVE  d[i].size = e[d[i].header].size
    OBVIOUS
  <2>1. i \in 1 .. Len(dir') /\ d[i].header = dir'[i].fh /\ d[i].size = r(i).csize64
    BY <1>2, <1>3
  <2>2. e[d[i].header] = Seen(blocks'[i], Open' /\ i = Len(blocks'))
    BY <1>4, <2>1
  <2>3. blocks'[i].descriptor # <<>>
    BY <1>1, <2>2 DEF Seen
  <2>4. e[d[i].header].size = PayloadLen(blocks'[i])
    BY <2>2 DEF Seen
  <2> QED
    BY <1>5, <2>1, <2>3, <2>4
<1>10. Promise!Lists(d, e)
  BY <1>6, <1>7, <1>8, <1>9 DEF Promise!Lists
<1> QED
  BY <1>10 DEF d, e

LEMMA SealedRests ==
  ASSUME SInv, Sealed, [Next]_vars
  PROVE  UNCHANGED vars
<1>1. closed /\ ~Open
  BY DEF SInv, Recording, SealedLast
<1> QED
  BY <1>1 DEF Next, SetOffset, Create, Write, CloseEntry, SinkFails, Close, Usable

(* The attached Writer implements Archive, for all its instances: an entry *)
(* grows while it is open, one at a time, and never after; sealing lists   *)
(* every entry once and gives the size of each finished one.               *)
(* (CreateHeader, CreateRaw, fileWriter.Write, fileWriter.Close, Close)    *)
THEOREM ArchiveRefinement ==
  ASSUME \A f \in Initial : CleanHeader(f)
  PROVE  Spec => ImplementsArchive
<1> DEFINE e == [ h \in Headers |-> EntryOf(h) ]
           l == IF Sealed THEN <<Listing>> ELSE <<>>
<1>1. Init => Promise!Init
  <2> SUFFICES ASSUME Init
               PROVE  Promise!Init
    OBVIOUS
  <2>1. Len(dir) = 0 /\ ~Sealed
    BY DEF Init, Sealed
  <2>2. \A h \in Headers : EntryOf(h) = [ state |-> "none", size |-> 0 ]
    BY <2>1, NotSeen
  <2> QED
    BY <2>1, <2>2 DEF Promise!Init, Promise!Absent
<1>2. SInv /\ SInv' /\ [Next]_vars => [Promise!Next]_<<e, l>>
  <2> SUFFICES ASSUME SInv, SInv', [Next]_vars
               PROVE  [Promise!Next]_<<e, l>>
    OBVIOUS
  <2>1. CASE Sealed
    <3>1. UNCHANGED vars
      BY <2>1, SealedRests
    <3> QED
      BY <3>1 DEF vars, EntryOf, EntryAt, Open, Sealed, Listing
  <2>2. CASE ~Sealed
    <3>1. EInv /\ EInv' /\ Advance
      BY Advances DEF SInv
    <3>2. \A h \in Headers : \/ e'[h] = e[h]
                             \/ Promise!Begins(e[h], e'[h])
                             \/ Promise!Grows(e[h], e'[h])
      BY <3>1, WorkStep
    <3>3. \A g, h \in Promise!OpenIn(e') : g = h
      BY <3>1, OneOpen DEF Promise!OpenIn
    <3>4. Promise!Work
      BY <3>2, <3>3 DEF Promise!Work
    <3>5. l = <<>>
      BY <2>2
    <3>6. CASE ~Sealed'
      BY <3>4, <3>5, <3>6 DEF Promise!Next
    <3>7. CASE Sealed'
      <4>1. SealedReadsBack'
        BY SealReadsBack, PTL
      <4>2. Promise!Lists(Listing', e')
        BY <3>7, <4>1, ListingRight
      <4>3. l' # <<>> /\ l'[1] = Listing'
        BY <3>7
      <4> QED
        BY <3>4, <3>5, <4>2, <4>3 DEF Promise!Next
    <3> QED
      BY <3>6, <3>7
  <2> QED
    BY <2>1, <2>2
<1>3. Init => SInv
  BY RecordInit
<1>4. SInv /\ [Next]_vars => SInv'
  BY RecordStep
<1> QED
  BY <1>1, <1>2, <1>3, <1>4, PTL DEF Spec, Promise!Spec, ImplementsArchive

-----------------------------------------------------------------------------
(* CopyRawPart: the Writer with the steps of a copy.                       *)
USE PartsAssumption, CallAssumption

copied_vars == <<vars, copyVars>>

CopyStep == CopyNext \/ OwnNext \/ SinkBreaks

(* Nothing has been written when the password is checked.                  *)
NothingWritten == step = "cipher" => start = Archive

CopyIInv == IInv /\ CopyTypeOK

-----------------------------------------------------------------------------
(* What modifyHeader leaves is of its type.                                *)
LEMMA OverriddenType ==
  ASSUME NEW part \in PartRecords, NEW o \in Overridden(part)
  PROVE  o \in OverridableFileHeader
<1>1. /\ part.name \in Nat /\ part.other \in Nat /\ part.time \in Times
  BY DEF PartRecords
<1> QED
  BY <1>1 DEF Overridden, OverridableFileHeader

(* The headers a copy gives to its entry are headers.                      *)
LEMMA CopiedHeaderType ==
  ASSUME NEW part \in PartRecords, NEW new \in BOOLEAN,
         NEW o \in OverridableFileHeader
  PROVE  /\ CopiedHeader(part, new, o) \in FileHeaders(Methods)
         /\ PayloadSize(part) \in Nat
<1>10. /\ o.name \in Nat /\ o.comment \in Nat /\ o.other \in Nat
       /\ o.xxh3 \in Nat
  BY DEF OverridableFileHeader
<1>1. /\ part.flags \in SUBSET FlagBits
      /\ part.method \in Methods /\ part.crc \in Nat /\ part.usize \in Nat
      /\ part.data \in Nat
  BY DEF PartRecords
<1>2. PayloadSize(part) \in Nat
  BY <1>1 DEF PayloadSize, zipCryptoHeaderLen
<1> DEFINE rekeyed == new /\ sourceEncrypted(part)
           x == [ NoExtra EXCEPT !.other = o.other ]
<1>3. x \in Extras(Methods)
  <2>1. NoExtra \in Extras(Methods)
    BY DEF NoExtra, Extras
  <2> QED
    BY <1>10, <2>1, Zenon DEF Extras
<1>4. rekeyed \in BOOLEAN /\ part.flags \ {"encrypted"} \in SUBSET FlagBits
  BY <1>1 DEF sourceEncrypted
<1>5. 0 \in 0 .. uint32max
  BY WidthAssumption
<1> DEFINE crc   == IF hasDescriptor(part) THEN 0 ELSE part.crc
           csize == IF hasDescriptor(part) THEN 0 ELSE PayloadSize(part)
           usize == IF hasDescriptor(part) THEN 0 ELSE part.usize
           flags == IF rekeyed THEN part.flags ELSE part.flags \ {"encrypted"}
           enc   == IF rekeyed THEN "Standard" ELSE "None"
<1>6. crc \in Nat /\ csize \in Nat /\ usize \in Nat
  BY <1>1, <1>2
<1>7. flags \in SUBSET FlagBits /\ enc \in EncryptionMethods
  BY <1>1, <1>4 DEF EncryptionMethods
<1>8. CopiedHeader(part, new, o)
        = [ name |-> o.name, comment |-> o.comment, version |-> 0, level |-> 0,
            extra |-> x, flags |-> flags, method |-> part.method, crc |-> crc,
            xxh3 |-> o.xxh3, csize |-> 0, usize |-> 0, csize64 |-> csize,
            usize64 |-> usize, encryption |-> enc, password |-> rekeyed,
            aesStrength |-> 0 ]
  BY DEF CopiedHeader
<1> HIDE DEF x, rekeyed, crc, csize, usize, flags, enc
<1>9. CopiedHeader(part, new, o) \in FileHeaders(Methods)
  BY <1>1, <1>3, <1>4, <1>5, <1>6, <1>7, <1>8, <1>10 DEF FileHeaders
<1> QED
  BY <1>2, <1>9

LEMMA DescribedType ==
  ASSUME NEW part \in PartRecords, NEW f \in FileHeaders(Methods)
  PROVE  Described(f, part) \in FileHeaders(Methods)
<1>1. part.crc \in Nat /\ part.usize \in Nat /\ PayloadSize(part) \in Nat
  <2>1. part.crc \in Nat /\ part.usize \in Nat /\ part.data \in Nat
    BY DEF PartRecords
  <2> QED
    BY <2>1 DEF PayloadSize, zipCryptoHeaderLen
<1>2. [ f EXCEPT !.crc = part.crc, !.csize64 = PayloadSize(part),
                 !.usize64 = part.usize ] \in FileHeaders(Methods)
  BY <1>1, Zenon DEF FileHeaders
<1> QED
  BY <1>2 DEF Described

(* The header of an entry says nothing of where the entry lies.            *)
LEMMA HeaderChange ==
  ASSUME IInv, fh' \in [Headers -> FileHeaders(Methods)],
         UNCHANGED <<dir, last, closed, count, base, blocks, sink>>
  PROVE  IInv'
<1>1. TypeOK'
  BY DEF IInv, TypeOK
<1>2. OffsetsPointAtHeaders' /\ CountIsPosition' /\ OpenIsLast'
  BY DEF IInv, OffsetsPointAtHeaders, CountIsPosition, EndOf, OpenIsLast, Open,
         LastBlock
<1> QED
  BY <1>1, <1>2 DEF IInv

(* What the entry that is open is called, after a call of the Writer.      *)
LEMMA CreateOpens ==
  ASSUME IInv, NEW h \in Headers, NEW raw \in BOOLEAN, Create(h, raw),
         Len(dir') > Len(dir)
  PROVE  Open' /\ last'.fh = h
<1>1. PICK c \in CloseIfOpen : \/ CreateRejected(h, raw, c)
                               \/ CreateFails(h, raw, c)
                               \/ CreateSucceeds(h, raw, c)
  BY DEF Create
<1>2. ~closed
  BY DEF Create, Usable
<1>3. Len(dir) \in Nat
  BY DEF IInv, TypeOK
<1>4. dir' # dir
  BY <1>3
<1>5. CreateSucceeds(h, raw, c)
  BY <1>1, <1>4 DEF CreateRejected, CreateFails
<1>6. last' = NewFileWriter(h, c.fh[h], raw)
  BY <1>5 DEF CreateSucceeds
<1>7. c.fh[h] \in FileHeaders(Methods)
  BY <1>2, CloseOutcome DEF Outcome
<1>8. last' \in FileWriters /\ ~last'.closed
  BY <1>6, <1>7, NewFileWriterType
<1>9. last'.fh = h
  BY <1>6 DEF NewFileWriter
<1> QED
  BY <1>8, <1>9 DEF Open

LEMMA WriteKeepsOpen ==
  ASSUME IInv, NEW n \in Nat, NEW c \in Nat, Write(n, c)
  PROVE  Open' /\ last'.fh = last.fh
<1>1. Open /\ last' = Written(last, n, c)
  BY DEF Write
<1>2. last \in FileWriters
  BY <1>1 DEF Open, IInv, TypeOK
<1>3. last'.closed = last.closed /\ last' \in FileWriters
  <2>1. LastBlock \in Blocks
    BY <1>1 DEF IInv, TypeOK, OpenIsLast, LastBlock
  <2>2. ASSUME NEW w \in FileWriters, NEW e \in Blocks
        PROVE  Written(w, n, c) \in FileWriters /\ Written(w, n, c).closed = w.closed
    BY WrittenBooks
  <2> QED
    BY <1>1, <1>2, <2>1, <2>2
<1>4. last'.fh = last.fh
  BY <1>1, <1>2 DEF Written, FileWriters
<1> QED
  BY <1>1, <1>3, <1>4 DEF Open

-----------------------------------------------------------------------------
LEMMA CopyInitInvariant == CopyInit => CopyIInv
<1> SUFFICES ASSUME CopyInit
             PROVE  CopyIInv
  OBVIOUS
<1>1. IInv /\ TypeOK
  BY InitInvariant DEF CopyInit, IInv
<1>2. CopyTypeOK
  BY <1>1 DEF CopyInit, CopyTypeOK
<1> QED
  BY <1>1, <1>2 DEF CopyIInv

(* The variables of the call.                                              *)
CallTyped ==
  /\ call \in Calls \cup {NoCall}
  /\ step \in {"idle", "cipher", "create", "copy", "close"}
  /\ step = "idle" <=> call = NoCall
  /\ read \in Nat
  /\ step \in {"copy", "close"} => Open /\ last.fh = call.h
  /\ times \in [Headers -> Times]

LEMMA CopyType == CopyTypeOK <=> TypeOK /\ CallTyped
BY DEF CopyTypeOK, CallTyped

(* The copy under way is one of a part, to a header.                       *)
LEMMA UnderWay ==
  ASSUME CallTyped, step # "idle"
  PROVE  /\ call \in Calls /\ call # NoCall
         /\ call.part \in PartRecords /\ call.h \in Headers
         /\ call.override \in OverridableFileHeader
<1>1. call \in Calls /\ call # NoCall
  BY DEF CallTyped
<1>2. /\ call.part \in Parts /\ call.h \in Headers
      /\ call.override \in OverridableFileHeader
  BY <1>1 DEF Calls
<1> QED
  BY <1>1, <1>2

(* CopyRawPart returns without touching the header, or goes on to close.   *)
LEMMA CopyEndsCases ==
  ASSUME CopyEnds
  PROVE  /\ step = "copy" /\ read' = read /\ times' = times /\ start' = start
         /\ UNCHANGED <<dir, last, closed, count, base, blocks, sink>>
         /\ \/ /\ step' = "idle" /\ call' = NoCall /\ fh' = fh
               /\ result' \in {"NoDescriptor", "ErrUnexpectedEOF"}
            \/ /\ step' = "close" /\ call' = call
               /\ fh' = [ fh EXCEPT ![call.h] = Described(fh[call.h], call.part) ]
<1>1. CASE hasDescriptor(call.part) /\ ~call.part.trailer
  BY <1>1 DEF CopyEnds, Returns
<1>2. CASE /\ ~(hasDescriptor(call.part) /\ ~call.part.trailer)
           /\ call.part.available < PayloadSize(call.part)
  BY <1>2 DEF CopyEnds, Returns
<1>3. CASE /\ ~(hasDescriptor(call.part) /\ ~call.part.trailer)
           /\ ~(call.part.available < PayloadSize(call.part))
  BY <1>3 DEF CopyEnds
<1> QED
  BY <1>1, <1>2, <1>3

LEMMA CopyStepInvariant ==
  ASSUME CopyIInv, [CopyStep]_copied_vars
  PROVE  CopyIInv'
<1>1. IInv /\ TypeOK /\ CallTyped
  BY CopyType DEF CopyIInv
<1> SUFFICES IInv' /\ CallTyped'
  BY DEF CopyIInv, CopyTypeOK, CallTyped, IInv
<1>2. ASSUME NEW h \in Headers, NEW part \in Parts,
             NEW old \in {"none", "right", "wrong"}, NEW new \in BOOLEAN,
             NEW o \in Overridden(part), CopyRawPart(h, part, old, new, o)
      PROVE  IInv' /\ CallTyped'
  <2>1. CopiedHeader(part, new, o) \in FileHeaders(Methods)
    BY OverriddenType, CopiedHeaderType
  <2>2. fh' \in [Headers -> FileHeaders(Methods)]
    BY <1>1, <1>2, <2>1 DEF CopyRawPart, TypeOK
  <2>3. IInv'
    BY <1>1, <1>2, <2>2, HeaderChange DEF CopyRawPart
  <2>4. times' \in [Headers -> Times] /\ read' \in Nat
    BY <1>1, <1>2, OverriddenType DEF CopyRawPart, CallTyped, OverridableFileHeader
  <2>5. CASE step' = "idle" /\ call' = NoCall
    BY <2>3, <2>4, <2>5 DEF CallTyped
  <2>6. CASE /\ call' = [ part |-> part, h |-> h, old |-> old, new |-> new,
                          override |-> o ]
             /\ step' = StepAfter("begin")
    <3>1. call' \in Calls /\ call' # NoCall
      BY <2>6, OverriddenType DEF Calls
    <3>2. step' \in {"cipher", "create"}
      BY <2>6 DEF StepAfter
    <3> QED
      BY <2>3, <2>4, <3>1, <3>2 DEF CallTyped
  <2> QED
    BY <1>2, <2>5, <2>6 DEF CopyRawPart, Returns
<1>3. CASE ReadCipherHeader
  <2>1. UNCHANGED vars /\ times' = times /\ step = "cipher"
    BY <1>3 DEF ReadCipherHeader
  <2>2. IInv'
    BY <1>1, <2>1, StepInvariant
  <2>3. call \in Calls /\ call # NoCall
    BY <1>1, <2>1, UnderWay
  <2>4. CASE step' = "idle" /\ call' = NoCall /\ read' = read
    BY <1>1, <2>1, <2>2, <2>4 DEF CallTyped
  <2>5. CASE step' = StepAfter("cipher") /\ call' = call /\ read' = zipCryptoHeaderLen
    <3>1. step' = "create"
      BY <2>5 DEF StepAfter
    <3> QED
      BY <1>1, <2>1, <2>2, <2>3, <2>5, <3>1 DEF CallTyped, zipCryptoHeaderLen
  <2>6. \/ step' = "idle" /\ call' = NoCall /\ read' = read
        \/ step' = StepAfter("cipher") /\ call' = call /\ read' = zipCryptoHeaderLen
    BY <1>3 DEF ReadCipherHeader, Returns
  <2> QED
    BY <2>4, <2>5, <2>6
<1>4. CASE CreateCopy
  <2>1. /\ step = "create" /\ Create(call.h, TRUE)
        /\ read' = read /\ times' = times
    BY <1>4 DEF CreateCopy
  <2>2. call \in Calls /\ call # NoCall /\ call.h \in Headers
    BY <1>1, <2>1, UnderWay
  <2>3. IInv'
    BY <1>1, <2>1, <2>2, CreateInvariant
  <2>4. CASE Len(dir') > Len(dir)
    <3>1. step' = "copy" /\ call' = call
      BY <1>4, <2>4 DEF CreateCopy, StepAfter
    <3>2. Open' /\ last'.fh = call.h
      BY <1>1, <2>1, <2>2, <2>4, CreateOpens
    <3> QED
      BY <1>1, <2>1, <2>2, <2>3, <3>1, <3>2 DEF CallTyped
  <2>5. CASE ~(Len(dir') > Len(dir))
    <3>1. step' = "idle" /\ call' = NoCall
      BY <1>4, <2>5 DEF CreateCopy, Returns
    <3> QED
      BY <1>1, <2>1, <2>3, <3>1 DEF CallTyped
  <2> QED
    BY <2>4, <2>5
<1>5. ASSUME NEW n \in 1 .. MaxRaw, CopySome(n)
      PROVE  IInv' /\ CallTyped'
  <2>1. /\ step = "copy" /\ Write(n, n) /\ n \in 1 .. call.part.available - read
        /\ read' = read + n /\ UNCHANGED <<call, step, times>>
    BY <1>5 DEF CopySome
  <2>2. call \in Calls /\ call # NoCall /\ call.part \in PartRecords
    BY <1>1, <2>1, UnderWay
  <2>3. n \in Nat
    <3>1. call.part.available \in Nat /\ read \in Nat
      BY <1>1, <2>2 DEF PartRecords, CallTyped
    <3> QED
      BY <2>1, <3>1
  <2>4. IInv'
    BY <1>1, <2>1, <2>3, WriteInvariant
  <2>5. Open' /\ last'.fh = last.fh
    BY <1>1, <2>1, <2>3, WriteKeepsOpen
  <2>6. read' \in Nat
    BY <1>1, <2>1, <2>3 DEF CallTyped
  <2> QED
    BY <1>1, <2>1, <2>2, <2>4, <2>5, <2>6 DEF CallTyped
<1>6. CASE CopyFails
  <2>1. UNCHANGED vars /\ times' = times /\ read' = read
        /\ step' = "idle" /\ call' = NoCall
    BY <1>6 DEF CopyFails, Returns
  <2> QED
    BY <1>1, <2>1, StepInvariant DEF CallTyped
<1>7. CASE CopyEnds
  <2>1. /\ step = "copy" /\ read' = read /\ times' = times
        /\ UNCHANGED <<dir, last, closed, count, base, blocks, sink>>
        /\ \/ step' = "idle" /\ call' = NoCall /\ fh' = fh
           \/ /\ step' = "close" /\ call' = call
              /\ fh' = [ fh EXCEPT ![call.h] = Described(fh[call.h], call.part) ]
    BY <1>7, CopyEndsCases
  <2>2. call \in Calls /\ call # NoCall
          /\ call.part \in PartRecords /\ call.h \in Headers
    BY <1>1, <2>1, UnderWay
  <2>3. Described(fh[call.h], call.part) \in FileHeaders(Methods)
    BY <1>1, <2>2, DescribedType DEF TypeOK
  <2>4. fh' \in [Headers -> FileHeaders(Methods)]
    BY <1>1, <2>1, <2>3 DEF TypeOK
  <2>5. IInv'
    BY <1>1, <2>1, <2>4, HeaderChange
  <2> QED
    BY <1>1, <2>1, <2>2, <2>5 DEF CallTyped, Open
<1>8. CASE CloseCopy
  <2>1. /\ CloseEntry /\ step' = "idle" /\ call' = NoCall
        /\ read' = read /\ times' = times
    BY <1>8 DEF CloseCopy, Returns
  <2>2. IInv'
    BY <1>1, <2>1, StepInvariant DEF Next
  <2> QED
    BY <1>1, <2>1, <2>2 DEF CallTyped
<1>9. CASE OwnNext
  <2>1. step = "idle" /\ UNCHANGED <<call, step, read, times>>
    BY <1>9 DEF OwnNext
  <2>2. CallTyped'
    BY <1>1, <2>1 DEF CallTyped
  <2>3. FALSE \in BOOLEAN
    OBVIOUS
  <2>4. Next
    BY <1>9, <2>3 DEF OwnNext, Next
  <2> QED
    BY <1>1, <2>2, <2>4, StepInvariant
<1>10. CASE SinkBreaks
  <2>1. UNCHANGED <<call, step, read, times, last>> /\ SinkFails
    BY <1>10 DEF SinkBreaks, copyVars, SinkFails
  <2>2. IInv'
    BY <1>1, <2>1, StepInvariant DEF Next
  <2> QED
    BY <1>1, <2>1, <2>2 DEF CallTyped, Open
<1>11. CASE UNCHANGED copied_vars
  <2>1. UNCHANGED vars /\ UNCHANGED <<call, step, read, times, last>>
    BY <1>11 DEF copied_vars, copyVars, vars
  <2>2. IInv'
    BY <1>1, <2>1, StepInvariant
  <2> QED
    BY <1>1, <2>1, <2>2 DEF CallTyped, Open
<1> QED
  BY <1>2, <1>3, <1>4, <1>5, <1>6, <1>7, <1>8, <1>9, <1>10, <1>11
     DEF CopyStep, CopyNext

(* The inductive invariant: CopyRawPart keeps the books of the Writer at   *)
(* every one of its steps, wherever it returns.                            *)
THEOREM CopyInvariant == CopySpec => []CopyIInv
<1>1. CopyIInv /\ [CopyStep]_copied_vars => CopyIInv'
  BY CopyStepInvariant
<1> QED
  BY <1>1, CopyInitInvariant, PTL DEF CopySpec, CopyStep, copied_vars

(* Every variable keeps its type; while CopyRawPart copies and closes, the *)
(* entry it created is still the one that is open.                         *)
THEOREM CopyTypeCorrect == CopySpec => []CopyTypeOK
<1>1. CopyIInv => CopyTypeOK
  BY DEF CopyIInv
<1> QED
  BY <1>1, CopyInvariant, PTL

(* An entry is where w.dir says, also when entries have been copied and    *)
(* copies have failed half way.                                            *)
THEOREM CopyOffsetsCorrect == CopySpec => []OffsetsPointAtHeaders
<1>1. CopyIInv => OffsetsPointAtHeaders
  BY DEF CopyIInv, IInv
<1> QED
  BY <1>1, CopyInvariant, PTL

-----------------------------------------------------------------------------
LEMMA NothingWrittenStep ==
  ASSUME NothingWritten, [CopyStep]_copied_vars
  PROVE  /\ NothingWritten'
         /\ step # "idle" /\ step' = "idle" /\ result' = "ErrPassword" =>
              start = Archive'
<1> USE DEF NothingWritten, Archive
<1>1. ASSUME NEW h \in Headers, NEW part \in Parts,
             NEW old \in {"none", "right", "wrong"}, NEW new \in BOOLEAN,
             NEW o \in Overridden(part), CopyRawPart(h, part, old, new, o)
      PROVE  step = "idle" /\ start' = Archive'
  BY <1>1 DEF CopyRawPart
<1>2. CASE ReadCipherHeader
  BY <1>2 DEF ReadCipherHeader, Returns, vars, StepAfter
<1>3. CASE CreateCopy
  BY <1>3 DEF CreateCopy, Returns, StepAfter
<1>4. CASE \E n \in 1 .. MaxRaw : CopySome(n)
  BY <1>4 DEF CopySome
<1>5. CASE CopyFails \/ CopyEnds
  BY <1>5, CopyEndsCases DEF CopyFails, Returns
<1>6. CASE CloseCopy
  BY <1>6 DEF CloseCopy, Returns
<1>7. CASE OwnNext
  BY <1>7 DEF OwnNext
<1>8. CASE SinkBreaks
  BY <1>8 DEF SinkBreaks, SinkFails, copyVars
<1>9. CASE UNCHANGED copied_vars
  BY <1>9 DEF copied_vars, vars, copyVars
<1> QED
  BY <1>1, <1>2, <1>3, <1>4, <1>5, <1>6, <1>7, <1>8, <1>9 DEF CopyStep, CopyNext

(* A wrong oldPassword is reported before anything is written              *)
(* (raw_writer.go:134): no byte, no entry and no header of the archive has *)
(* changed when CopyRawPart returns ErrPassword.                           *)
THEOREM RefusedAlwaysUntouched == CopySpec => RefusedUntouched
<1>1. CopyInit => NothingWritten
  BY DEF CopyInit, NothingWritten
<1>2. NothingWritten /\ [CopyStep]_copied_vars =>
        /\ NothingWritten'
        /\ [ step # "idle" /\ step' = "idle" /\ result' = "ErrPassword" =>
               start = Archive' ]_<<vars, copyVars>>
  BY NothingWrittenStep
<1> QED
  BY <1>1, <1>2, PTL DEF CopySpec, CopyStep, copied_vars, RefusedUntouched

-----------------------------------------------------------------------------
(* Parts as an encrypting writer leaves them: the check byte in the header *)
(* of the cipher is the one that the local header calls for.               *)
SoundChecks ==
  \A part \in Parts :
    part.check = zipCryptoCheckBytes(part.flags, part.time, part.crc)

LEMMA AcceptedStep ==
  ASSUME CopyIInv, SoundChecks, CopyStep, step = "cipher", step' = "idle",
         call.old = "right"
  PROVE  result' # "ErrPassword"
<1>1. ReadCipherHeader \/ CopyFails \/ SinkBreaks
  BY CopyEndsCases
     DEF CopyStep, CopyNext, CopyRawPart, CreateCopy, CopySome,
         CloseCopy, OwnNext
<1>8. CASE CopyFails
  BY <1>8 DEF CopyFails, Returns
<1> SUFFICES ASSUME ~CopyFails
             PROVE  result' # "ErrPassword"
  BY <1>8
<1>2. ReadCipherHeader
  BY <1>1 DEF SinkBreaks, copyVars
<1>3. call.part \in Parts
  <2>1. call \in Calls
    BY UnderWay DEF CopyIInv, CopyTypeOK, CallTyped
  <2> QED
    BY <2>1 DEF Calls
<1>4. call.part.check = SourceCheck(call)
  BY <1>3 DEF SoundChecks, SourceCheck
<1>5. PICK found \in {call.part.check} :
        \/ Returns("ErrUnexpectedEOF")
        \/ found # SourceCheck(call)
        \/ step' = StepAfter("cipher")
  BY <1>2 DEF ReadCipherHeader
<1>6. step' # StepAfter("cipher")
  BY DEF StepAfter
<1>7. result' = "ErrUnexpectedEOF"
  BY <1>4, <1>5, <1>6 DEF Returns
<1> QED
  BY <1>7

(* A right oldPassword is never refused: the byte is compared with the one *)
(* that the source was written with, whatever time modifyHeader gives the  *)
(* copy.  (CopyRawPart, zipCryptoCheckBytes)                               *)
THEOREM RightPasswordAlwaysAccepted ==
  ASSUME SoundChecks
  PROVE  CopySpec => RightPasswordAccepted
<1>1. CopyIInv /\ [CopyStep]_copied_vars =>
        [ step = "cipher" /\ step' = "idle" /\ call.old = "right" =>
            result' # "ErrPassword" ]_<<vars, copyVars>>
  BY AcceptedStep DEF copied_vars
<1> QED
  BY <1>1, CopyInvariant, PTL
     DEF CopySpec, CopyStep, copied_vars, RightPasswordAccepted

-----------------------------------------------------------------------------
(* The archive with copies in it reads back.  Until its entry is created   *)
(* the header of the copy under way belongs to no entry.                   *)
Reserved ==
  step \in {"cipher", "create"} => \A i \in 1 .. Len(dir) : dir[i].fh # call.h

CopySInv == CopyIInv /\ SInv /\ Reserved

LEMMA CopiedHeaderClean ==
  ASSUME NEW part \in PartRecords, NEW new \in BOOLEAN,
         NEW o \in OverridableFileHeader
  PROVE  CleanHeader(CopiedHeader(part, new, o))
<1> DEFINE g == CopiedHeader(part, new, o)
           rekeyed == new /\ sourceEncrypted(part)
<1>1. /\ g.extra = [ NoExtra EXCEPT !.other = o.other ]
      /\ g.password = rekeyed
      /\ g.flags = IF rekeyed THEN part.flags ELSE part.flags \ {"encrypted"}
  BY DEF CopiedHeader
<1>2. g.extra.zip64 = <<>> /\ g.extra.aes = <<>>
  BY <1>1 DEF NoExtra
<1> HIDE DEF g
<1>3. g.password => "encrypted" \in g.flags
  BY <1>1 DEF sourceEncrypted
<1> QED
  BY <1>2, <1>3 DEF CleanHeader, g

(* What the descriptor changes is neither the cipher nor the method.       *)
LEMMA DescribedKeeps ==
  ASSUME NEW part, NEW f \in FileHeaders(Methods)
  PROVE  LET g == Described(f, part)
         IN /\ CipherOf(g) = CipherOf(f) /\ g.aesStrength = f.aesStrength
            /\ g.flags = f.flags /\ MethodOf(g) = MethodOf(f)
            /\ CleanHeader(f) => CleanHeader(g)
<1> DEFINE g == Described(f, part)
<1>1. /\ g.password = f.password /\ g.encryption = f.encryption
      /\ g.aesStrength = f.aesStrength /\ g.flags = f.flags
      /\ g.extra = f.extra /\ g.method = f.method
  BY DEF Described, FileHeaders
<1> HIDE DEF g
<1>2. /\ CipherOf(g) = CipherOf(f) /\ g.aesStrength = f.aesStrength
      /\ g.flags = f.flags /\ MethodOf(g) = MethodOf(f)
      /\ CleanHeader(f) => CleanHeader(g)
  BY <1>1 DEF CipherOf, writesAES, MethodOf, CleanHeader
<1> QED
  BY <1>2 DEF g

(* One header changes, of no entry or of one that is still open.           *)
LEMMA OneHeader ==
  ASSUME SInv, ~Sealed, NEW h \in Headers, NEW g \in FileHeaders(Methods),
         CleanHeader(g), fh' = [ fh EXCEPT ![h] = g ],
         UNCHANGED <<dir, last, closed, count, base, blocks, sink, cd>>,
         \A i \in 1 .. Len(blocks) : dir[i].fh = h =>
           /\ blocks[i].descriptor = <<>>
           /\ FramedAt(blocks[i], g) /\ RecordedAt(blocks[i], g),
         Open /\ last.fh = h => Writing(last, LastBlock, g)
  PROVE  SInv' /\ Kept
<1>1. /\ fh \in [Headers -> FileHeaders(Methods)]
      /\ dir \in Seq(Entries) /\ Len(dir) = Len(blocks)
      /\ last \in FileWriters \cup {NoFile}
  BY DEF SInv, EInv, IInv, TypeOK, OffsetsPointAtHeaders
<1>2. \A i \in 1 .. Len(blocks) : dir[i].fh \in Headers
  <2>1. \A i \in 1 .. Len(blocks) : dir[i] \in Entries
    BY <1>1
  <2> QED
    BY <2>1 DEF Entries
<1>3. \A k \in Headers : fh'[k] = IF k = h THEN g ELSE fh[k]
  BY <1>1
<1>4. IInv'
  <2>1. fh' \in [Headers -> FileHeaders(Methods)]
    BY <1>1
  <2> QED
    BY <2>1, HeaderChange DEF SInv, EInv
<1>5. Distinct'
  BY DEF SInv, EInv, Distinct
<1>6. AllFramed'
  BY <1>2, <1>3 DEF SInv, EInv, AllFramed
<1>7. OpenOwns'
  <2>1. Open => last.fh \in Headers
    BY <1>1 DEF Open, FileWriters
  <2>2. Open' <=> Open
    BY DEF Open
  <2> QED
    BY <1>3, <2>1, <2>2 DEF SInv, EInv, OpenOwns, LastBlock
<1>8. AllRecorded'
  BY <1>2, <1>3 DEF SInv, Recording, AllRecorded
<1>9. Clean'
  BY <1>3 DEF SInv, Recording, Clean
<1>10. Counted'
  BY DEF SInv, Recording, Counted, Open, LastBlock
<1>11. SealedLast'
  BY InUse
<1>12. Kept
  BY <1>2, <1>3 DEF Kept, Untouched
<1> QED
  BY <1>4, <1>5, <1>6, <1>7, <1>8, <1>9, <1>10, <1>11, <1>12
     DEF SInv, EInv, Recording

LEMMA WriterCall ==
  ASSUME SInv, [Next]_vars
  PROVE  SInv' /\ Kept
BY RecordStep, EntryStep DEF SInv

(* The steps of a copy that are no calls of the Writer, or, in Write, not  *)
(* of the lengths that its callers use.                                    *)
LEMMA CallRecords ==
  ASSUME CopySInv, NEW h \in Headers, NEW part \in Parts,
         NEW old \in {"none", "right", "wrong"}, NEW new \in BOOLEAN,
         NEW o \in Overridden(part), CopyRawPart(h, part, old, new, o)
  PROVE  SInv' /\ Kept /\ Reserved'
<1>1. /\ ~closed /\ \A i \in 1 .. Len(dir) : dir[i].fh # h
      /\ fh' = [ fh EXCEPT ![h] = CopiedHeader(part, new, o) ]
      /\ UNCHANGED <<dir, last, closed, count, base, blocks, sink, cd>>
  BY DEF CopyRawPart, Usable
<1>2. CopiedHeader(part, new, o) \in FileHeaders(Methods)
        /\ CleanHeader(CopiedHeader(part, new, o))
  BY OverriddenType, CopiedHeaderType, CopiedHeaderClean
<1>3. ~Sealed
  BY <1>1, InUse DEF CopySInv
<1>4. Len(dir) = Len(blocks) /\ (Open => Len(dir) \in 1 .. Len(dir))
  BY DEF CopySInv, SInv, EInv, IInv, TypeOK, OffsetsPointAtHeaders, OpenIsLast
<1>5. Open => last.fh # h
  BY <1>1, <1>4 DEF CopySInv, SInv, EInv, OpenOwns
<1>6. SInv' /\ Kept
  BY <1>1, <1>2, <1>3, <1>4, <1>5, OneHeader DEF CopySInv
<1>7. \/ step' = "idle"
      \/ call' = [ part |-> part, h |-> h, old |-> old, new |-> new,
                          override |-> o ]
  BY DEF CopyRawPart, Returns
<1> QED
  BY <1>1, <1>6, <1>7 DEF Reserved

LEMMA SomeRecords ==
  ASSUME CopySInv, NEW n \in 1 .. MaxRaw, CopySome(n)
  PROVE  SInv' /\ Kept /\ Reserved' /\ n \in Nat
<1>1. /\ step = "copy" /\ Write(n, n) /\ n \in 1 .. call.part.available - read
      /\ step' = step
  BY DEF CopySome
<1>2. call.part \in PartRecords /\ read \in Nat
  BY <1>1, UnderWay, CopyType DEF CopySInv, CopyIInv, CallTyped
<1>3. n \in Nat
  <2>1. call.part.available \in Nat
    BY <1>2 DEF PartRecords
  <2> QED
    BY <1>1, <1>2, <2>1
<1>4. IInv'
  BY <1>1, <1>3, WriteInvariant DEF CopySInv, SInv, EInv
<1>5. Entered' /\ Kept
  BY <1>1, <1>3, WritingKeeps DEF CopySInv, SInv
<1>6. Clean' /\ AllRecorded' /\ Counted'
  BY <1>1, <1>3, WritingRecords DEF CopySInv
<1>7. SealedLast'
  BY <1>1, InUse DEF CopySInv, Write
<1> QED
  BY <1>1, <1>3, <1>4, <1>5, <1>6, <1>7
     DEF SInv, EInv, Entered, Recording, Reserved

LEMMA EndsRecords ==
  ASSUME CopySInv, CopyEnds
  PROVE  SInv' /\ Kept /\ Reserved'
<1>1. /\ step = "copy" /\ step' \in {"idle", "close"}
      /\ UNCHANGED <<dir, last, closed, count, base, blocks, sink, cd>>
      /\ \/ fh' = fh
         \/ fh' = [ fh EXCEPT ![call.h] = Described(fh[call.h], call.part) ]
  BY CopyEndsCases DEF CopyEnds
<1>2. call.part \in PartRecords /\ call.h \in Headers /\ Open /\ last.fh = call.h
  BY <1>1, UnderWay, CopyType DEF CopySInv, CopyIInv, CallTyped
<1> DEFINE f == fh[call.h]
           g == Described(f, call.part)
<1>3. f \in FileHeaders(Methods) /\ CleanHeader(f)
  BY <1>2 DEF CopySInv, CopyIInv, IInv, TypeOK, SInv, Recording, Clean
<1>4. /\ g \in FileHeaders(Methods) /\ CleanHeader(g)
      /\ CipherOf(g) = CipherOf(f) /\ g.aesStrength = f.aesStrength
      /\ g.flags = f.flags /\ MethodOf(g) = MethodOf(f)
  BY <1>2, <1>3, DescribedType, DescribedKeeps
<1>5. CASE fh' = fh
  BY <1>1, <1>5, WriterCall DEF vars, CopySInv, Reserved
<1>6. CASE fh' = [ fh EXCEPT ![call.h] = g ]
  <2>1. /\ Len(dir) = Len(blocks) /\ Len(blocks) \in 1 .. Len(blocks)
        /\ last.fh = dir[Len(dir)].fh /\ Writing(last, LastBlock, f)
        /\ LastBlock.descriptor = <<>> /\ LastBlock \in Blocks
        /\ last \in FileWriters
    BY <1>2 DEF CopySInv, SInv, EInv, IInv, TypeOK, OffsetsPointAtHeaders,
                OpenIsLast, OpenOwns, LastBlock, Open
  <2>2. \A i \in 1 .. Len(blocks) : dir[i].fh = call.h => i = Len(blocks)
    BY <1>2, <2>1 DEF CopySInv, SInv, EInv, Distinct
  <2>3. RecordedAt(LastBlock, f)
    BY <1>2, <2>1 DEF CopySInv, SInv, Recording, AllRecorded, LastBlock
  <2> HIDE DEF f, g
  <2>4. Writing(last, LastBlock, g)
    BY <1>4, <2>1 DEF Writing
  <2>5. FramedAt(LastBlock, g)
    BY <2>1, <2>4, WritingIsFramed
  <2>6. RecordedAt(LastBlock, g)
    BY <1>4, <2>1, <2>3 DEF RecordedAt
  <2>7. ~Sealed
    BY <1>2, InUse DEF CopySInv
  <2>8. \A i \in 1 .. Len(blocks) : dir[i].fh = call.h =>
          /\ blocks[i].descriptor = <<>>
          /\ FramedAt(blocks[i], g) /\ RecordedAt(blocks[i], g)
    BY <2>1, <2>2, <2>5, <2>6 DEF LastBlock
  <2>9. SInv' /\ Kept
    BY <1>1, <1>2, <1>4, <1>6, <2>4, <2>7, <2>8, OneHeader DEF CopySInv
  <2> QED
    BY <1>1, <2>9 DEF Reserved
<1> QED
  BY <1>1, <1>5, <1>6

(* Most steps of a copy are calls of the Writer.                           *)
LEMMA CopyRecords ==
  ASSUME CopySInv, [CopyStep]_copied_vars
  PROVE  CopySInv' /\ Kept
<1>1. CopyIInv'
  BY CopyStepInvariant DEF CopySInv
<1> SUFFICES SInv' /\ Kept /\ Reserved'
  BY <1>1 DEF CopySInv
<1>2. ASSUME NEW h \in Headers, NEW part \in Parts,
             NEW old \in {"none", "right", "wrong"}, NEW new \in BOOLEAN,
             NEW o \in Overridden(part), CopyRawPart(h, part, old, new, o)
      PROVE  SInv' /\ Kept /\ Reserved'
  BY <1>2, CallRecords
<1>3. CASE CreateCopy
  <2>1. step = "create" /\ Create(call.h, TRUE) /\ step' \in {"idle", "copy"}
    BY <1>3 DEF CreateCopy, Returns, StepAfter
  <2>2. call.h \in Headers
    BY <2>1, UnderWay, CopyType DEF CopySInv, CopyIInv
  <2>3. Fresh(call.h)
    <3>1. Len(dir) \in Nat
      BY DEF CopySInv, CopyIInv, IInv, TypeOK
    <3> QED
      BY <2>1, <3>1 DEF CopySInv, Reserved, Fresh
  <2>4. Next
    BY <2>1, <2>2, <2>3 DEF Next
  <2> QED
    BY <2>1, <2>4, WriterCall DEF CopySInv, Reserved
<1>4. ASSUME NEW n \in 1 .. MaxRaw, CopySome(n)
      PROVE  SInv' /\ Kept /\ Reserved'
  BY <1>4, SomeRecords
<1>5. CASE CopyEnds
  BY <1>5, EndsRecords
<1>6. CASE ReadCipherHeader \/ CopyFails \/ UNCHANGED copied_vars
  <2>1. UNCHANGED vars
    BY <1>6 DEF ReadCipherHeader, CopyFails, copied_vars
  <2>2. \/ step' = "idle"
        \/ step \in {"cipher", "create"} /\ call' = call
        \/ step' = step /\ call' = call
    BY <1>6 DEF ReadCipherHeader, CopyFails, Returns, copied_vars, copyVars
  <2> QED
    BY <2>1, <2>2, WriterCall DEF CopySInv, Reserved, vars
<1>7. CASE CloseCopy \/ OwnNext
  <2>1. step' = "idle"
    BY <1>7 DEF CloseCopy, OwnNext, Returns
  <2>2. FALSE \in BOOLEAN
    OBVIOUS
  <2>3. Next
    BY <1>7, <2>2 DEF CloseCopy, OwnNext, Next
  <2> QED
    BY <2>1, <2>3, WriterCall DEF CopySInv, Reserved
<1>8. CASE SinkBreaks
  <2>1. SinkFails /\ UNCHANGED <<call, step, dir>>
    BY <1>8 DEF SinkBreaks, SinkFails, copyVars
  <2> QED
    BY <2>1, WriterCall DEF Next, CopySInv, Reserved
<1> QED
  BY <1>2, <1>3, <1>4, <1>5, <1>6, <1>7, <1>8 DEF CopyStep, CopyNext

LEMMA CopySInit ==
  ASSUME \A f \in Initial : CleanHeader(f), CopyInit
  PROVE  CopySInv
<1>1. CopyIInv /\ SInv
  BY CopyInitInvariant, RecordInit DEF CopyInit
<1> QED
  BY <1>1 DEF CopySInv, CopyInit, Reserved

(* An archive into which parts were copied reads back as one that was      *)
(* written: the end records lead to the directory and its records to the   *)
(* entries, also when copies failed half way and left theirs without a     *)
(* descriptor.  (CopyRawPart, CreateRaw, Close)                            *)
THEOREM CopySealedReadsBack ==
  ASSUME \A f \in Initial : CleanHeader(f)
  PROVE  CopySpec => []SealedReadsBack
<1>1. CopyInit => CopySInv
  BY CopySInit
<1>2. CopySInv /\ [CopyStep]_copied_vars => CopySInv'
  BY CopyRecords
<1>3. CopySInv => SealedReadsBack
  BY SealReadsBack DEF CopySInv
<1> QED
  BY <1>1, <1>2, <1>3, PTL DEF CopySpec, CopyStep, copied_vars

(* Nor does a copy, whichever way it ends, change an entry that is         *)
(* finished, or what the directory will say of it.                         *)
THEOREM CopyFinishedStays ==
  ASSUME \A f \in Initial : CleanHeader(f)
  PROVE  CopySpec => FinishedStays
<1>1. CopyInit => CopySInv
  BY CopySInit
<1>2. CopySInv /\ [CopyStep]_copied_vars => CopySInv'
  BY CopyRecords
<1>3. CopySInv /\ [CopyStep]_copied_vars =>
        [ \A i \in 1 .. Len(blocks) :
            blocks[i].descriptor # <<>> =>
              /\ blocks'[i] = blocks[i]
              /\ dir'[i] = dir[i]
              /\ DirectoryHeader(fh'[dir[i].fh], dir[i].offset)
                   = DirectoryHeader(fh[dir[i].fh], dir[i].offset) ]_vars
  BY CopyRecords DEF Kept, Untouched
<1> QED
  BY <1>1, <1>2, <1>3, PTL DEF CopySpec, CopyStep, copied_vars, FinishedStays

-----------------------------------------------------------------------------
(* The flags of an entry: as they were when it was created, the bit that   *)
(* announces a descriptor among them.                                      *)
FlagsMove ==
  /\ Len(blocks') >= Len(blocks)
  /\ \A i \in 1 .. Len(blocks) : blocks'[i].flags = blocks[i].flags
  /\ \A i \in 1 .. Len(blocks') :
       i \in 1 .. Len(blocks) \/ "descriptor" \in blocks'[i].flags

(* Each way of closing the entry leaves its flags.                         *)
LEMMA ClosingFlags ==
  ASSUME EInv, ~closed, NEW c \in CloseIfOpen
  PROVE  /\ Len(c.blocks) = Len(blocks) /\ Len(blocks) \in Nat
         /\ \A i \in 1 .. Len(blocks) : c.blocks[i].flags = blocks[i].flags
<1>1. Len(c.blocks) = Len(blocks) /\ Len(blocks) \in Nat
  BY CloseOutcome DEF EInv, IInv, TypeOK, Outcome
<1>2. CASE ~Open
  BY <1>1, <1>2 DEF CloseIfOpen, Now
<1>3. CASE Open
  <2>1. ASSUME NEW fw, NEW f, NEW b, NEW n, NEW ok,
               b.flags = LastBlock.flags, c = WithLast(fw, f, b, n, ok)
        PROVE  \A i \in 1 .. Len(blocks) : c.blocks[i].flags = blocks[i].flags
    <3>1. OnlyLast(WithLast(fw, f, b, n, ok), b, f)
      BY <1>3, LastOnly
    <3>2. OnlyLast(c, b, f)
      BY <2>1, <3>1
    <3> QED
      BY <2>1, <3>2 DEF OnlyLast, LastBlock
  <2>2. LastBlock \in Blocks
    BY <1>3 DEF EInv, IInv, TypeOK, OpenIsLast, LastBlock
  <2>3. ASSUME NEW d, NEW f
        PROVE  /\ WrittenBlock(LastBlock, last, d).flags = LastBlock.flags
               /\ FinishedBlock(LastBlock, last, f, d).flags = LastBlock.flags
    BY <2>2 DEF WrittenBlock, FinishedBlock, Blocks
  <2>4. \/ \E d \in Tails(last) : c = CloseSucceeds(d) \/ c = CompressorFails(d)
        \/ \E updated \in BOOLEAN : c = SinkRefuses(updated)
    BY <1>3 DEF CloseIfOpen, CloseLast
  <2>5. ASSUME NEW d \in Tails(last), c = CloseSucceeds(d)
        PROVE  \A i \in 1 .. Len(blocks) : c.blocks[i].flags = blocks[i].flags
    BY <2>1, <2>3, <2>5 DEF CloseSucceeds
  <2>6. ASSUME NEW d \in Tails(last), c = CompressorFails(d)
        PROVE  \A i \in 1 .. Len(blocks) : c.blocks[i].flags = blocks[i].flags
    BY <2>1, <2>3, <2>6 DEF CompressorFails
  <2>7. ASSUME NEW updated \in BOOLEAN, c = SinkRefuses(updated)
        PROVE  \A i \in 1 .. Len(blocks) : c.blocks[i].flags = blocks[i].flags
    BY <2>1, <2>7 DEF SinkRefuses
  <2> QED
    BY <1>1, <2>4, <2>5, <2>6, <2>7
<1> QED
  BY <1>2, <1>3, <1>1

LEMMA PreparedFlags ==
  ASSUME NEW f \in FileHeaders(Methods), NEW raw \in BOOLEAN
  PROVE  "descriptor" \in PreparedHeader(f, raw).flags
<1>1. "descriptor" \in Stamped(f).flags
  BY DEF Stamped, FileHeaders
<1>2. /\ "flags" \in DOMAIN Stamped(f)
      /\ writeWinZipExtra(Stamped(f)).flags = Stamped(f).flags
  BY DEF writeWinZipExtra, Stamped, FileHeaders
<1> QED
  BY <1>1, <1>2 DEF PreparedHeader

LEMMA WritingFlags ==
  ASSUME EInv, NEW n \in Nat, NEW d \in Nat, Write(n, d)
  PROVE  FlagsMove
<1>1. /\ Open
      /\ blocks' = [ blocks EXCEPT ![Len(blocks)] = WrittenBlock(LastBlock, last, d) ]
  BY DEF Write, LastBlock
<1>2. /\ blocks \in Seq(Blocks) /\ Len(blocks) \in 1 .. Len(blocks)
      /\ LastBlock \in Blocks
  BY <1>1 DEF EInv, IInv, TypeOK, OpenIsLast, LastBlock
<1> DEFINE b == WrittenBlock(LastBlock, last, d)
<1>3. b.flags = LastBlock.flags
  BY <1>2 DEF WrittenBlock, Blocks
<1>4. blocks' = [ blocks EXCEPT ![Len(blocks)] = b ]
  BY <1>1
<1> HIDE DEF b
<1>5. /\ Len(blocks') = Len(blocks) /\ blocks'[Len(blocks)] = b
      /\ \A i \in 1 .. Len(blocks) : i # Len(blocks) => blocks'[i] = blocks[i]
  BY <1>2, <1>4
<1> QED
  BY <1>2, <1>3, <1>5 DEF FlagsMove, LastBlock

LEMMA CreatingFlags ==
  ASSUME EInv, ~closed, NEW h \in Headers, NEW raw \in BOOLEAN,
         NEW c \in CloseIfOpen, CreateSucceeds(h, raw, c)
  PROVE  FlagsMove
<1> DEFINE b == NewBlock(PreparedHeader(c.fh[h], raw), c.fh[h].method, EndOf(c.blocks))
<1>1. c.fh[h] \in FileHeaders(Methods) /\ c.blocks \in Seq(Blocks)
  BY CloseOutcome DEF EInv, Outcome
<1>2. "descriptor" \in b.flags
  BY <1>1, PreparedFlags DEF NewBlock
<1>3. blocks' = Append(c.blocks, b)
  BY DEF CreateSucceeds
<1>4. /\ Len(c.blocks) = Len(blocks) /\ Len(blocks) \in Nat
      /\ \A i \in 1 .. Len(blocks) : c.blocks[i].flags = blocks[i].flags
  BY ClosingFlags
<1> HIDE DEF b
<1>5. /\ Len(blocks') = Len(blocks) + 1 /\ blocks'[Len(blocks) + 1] = b
      /\ \A i \in 1 .. Len(blocks) : blocks'[i] = c.blocks[i]
  BY <1>1, <1>3, <1>4
<1> QED
  BY <1>2, <1>4, <1>5 DEF FlagsMove

LEMMA FlagsStep ==
  ASSUME EInv, [Next]_vars
  PROVE  FlagsMove
<1>1. Len(blocks) \in Nat
  BY DEF EInv, IInv, TypeOK
<1>2. ASSUME ~closed, NEW c \in CloseIfOpen, blocks' = c.blocks
      PROVE  FlagsMove
  BY <1>2, ClosingFlags DEF FlagsMove
<1>3. ASSUME \/ \E n \in Offsets : SetOffset(n)
             \/ SinkFails \/ UNCHANGED vars
      PROVE  FlagsMove
  <2>1. UNCHANGED blocks
    BY <1>3 DEF SetOffset, SinkFails, vars
  <2> QED
    BY <1>1, <2>1 DEF FlagsMove
<1>4. ASSUME NEW h \in Headers, NEW raw \in BOOLEAN, Create(h, raw)
      PROVE  FlagsMove
  <2>1. PICK c \in CloseIfOpen : \/ CreateRejected(h, raw, c)
                                 \/ CreateFails(h, raw, c)
                                 \/ CreateSucceeds(h, raw, c)
    BY <1>4 DEF Create
  <2>2. ~closed
    BY <1>4 DEF Create, Usable
  <2>3. CASE CreateSucceeds(h, raw, c)
    BY <2>2, <2>3, CreatingFlags
  <2>4. CASE CreateRejected(h, raw, c) \/ CreateFails(h, raw, c)
    BY <1>2, <2>2, <2>4 DEF CreateRejected, CreateFails, AfterClose
  <2> QED
    BY <2>1, <2>3, <2>4
<1>5. ASSUME NEW n \in Sizes, NEW d \in Sizes \cup Compressed, Write(n, d)
      PROVE  FlagsMove
  <2>1. n \in Nat /\ d \in Nat
    BY SizeAssumption
  <2> QED
    BY <1>5, <2>1, WritingFlags
<1>6. CASE CloseEntry
  <2>1. ~closed
    BY <1>6 DEF CloseEntry, EInv, IInv, OpenIsLast
  <2>2. PICK c \in CloseIfOpen : AfterClose(c)
    BY <1>6 DEF CloseEntry, CloseIfOpen
  <2> QED
    BY <1>2, <2>1, <2>2 DEF AfterClose
<1>7. CASE Close
  <2>1. PICK c \in CloseIfOpen : \/ CloseReturnsEarly(c)
                                 \/ CloseWithoutDirectory(c)
                                 \/ CloseSeals(c)
    BY <1>7 DEF Close
  <2>2. ~closed /\ blocks' = c.blocks
    BY <1>7, <2>1, CloseLeaves DEF Close, Usable
  <2> QED
    BY <1>2, <2>2
<1> QED
  BY <1>3, <1>4, <1>5, <1>6, <1>7 DEF Next

(* The check byte of an entry is the time its header of the cipher went    *)
(* out with: every entry announces a descriptor, so that its CRC is not    *)
(* looked at, and its time is its own.                                     *)
Flagged == \A i \in 1 .. Len(blocks) : "descriptor" \in blocks[i].flags

Timed ==
  \A s \in stamped :
    s.at \in 1 .. Len(blocks) /\ s.check = times[dir[s.at].fh]

StampInv == Flagged /\ Timed

(* What a step does to the flags and the headers of the entries.           *)
LEMMA CopyFlags ==
  ASSUME CopySInv, [CopyStep]_copied_vars
  PROVE  FlagsMove
<1>1. EInv /\ Len(blocks) \in Nat
  BY DEF CopySInv, SInv, EInv, IInv, TypeOK
<1>2. ASSUME blocks' = blocks
      PROVE  FlagsMove
  BY <1>1, <1>2 DEF FlagsMove
<1>3. ASSUME Next
      PROVE  FlagsMove
  BY <1>1, <1>3, FlagsStep
<1>4. CASE \E h \in Headers, part \in Parts, old \in {"none", "right", "wrong"},
              new \in BOOLEAN :
             \E o \in Overridden(part) : CopyRawPart(h, part, old, new, o)
  BY <1>2, <1>4 DEF CopyRawPart
<1>5. CASE ReadCipherHeader \/ CopyFails \/ CopyEnds \/ UNCHANGED copied_vars
  BY <1>2, <1>5 DEF ReadCipherHeader, CopyFails, CopyEnds, copied_vars, vars
<1>6. CASE CreateCopy
  <2>1. call.h \in Headers /\ Create(call.h, TRUE) /\ step = "create"
    BY <1>6, UnderWay, CopyType DEF CopySInv, CopyIInv, CreateCopy
  <2>2. Fresh(call.h)
    <3>1. Len(dir) \in Nat
      BY DEF CopySInv, CopyIInv, IInv, TypeOK
    <3> QED
      BY <2>1, <3>1 DEF CopySInv, Reserved, Fresh
  <2> QED
    BY <1>3, <2>1, <2>2 DEF Next
<1>7. ASSUME NEW n \in 1 .. MaxRaw, CopySome(n)
      PROVE  FlagsMove
  BY <1>1, <1>7, SomeRecords, WritingFlags DEF CopySome
<1>8. CASE CloseCopy \/ OwnNext \/ SinkBreaks
  <2>1. FALSE \in BOOLEAN
    OBVIOUS
  <2> QED
    BY <1>3, <1>8, <2>1 DEF CloseCopy, OwnNext, SinkBreaks, Next
<1> QED
  BY <1>4, <1>5, <1>6, <1>7, <1>8 DEF CopyStep, CopyNext

(* Times change before an entry is created with the header.                *)
LEMMA TimesMove ==
  ASSUME CopySInv, [CopyStep]_copied_vars
  PROVE  /\ \A i \in 1 .. Len(blocks) : times'[dir[i].fh] = times[dir[i].fh]
         /\ stamped' = stamped \/ (Stamps /\ times' = times)
<1>1. /\ dir \in Seq(Entries) /\ Len(dir) = Len(blocks)
      /\ times \in [Headers -> Times]
  BY DEF CopySInv, CopyIInv, IInv, TypeOK, OffsetsPointAtHeaders, CopyTypeOK
<1>2. \A i \in 1 .. Len(dir) : dir[i].fh \in Headers
  <2>1. \A i \in 1 .. Len(dir) : dir[i] \in Entries
    BY <1>1
  <2> QED
    BY <2>1 DEF Entries
<1>3. ASSUME NEW h \in Headers, NEW part \in Parts,
             NEW old \in {"none", "right", "wrong"}, NEW new \in BOOLEAN,
             NEW o \in Overridden(part), CopyRawPart(h, part, old, new, o)
      PROVE  /\ stamped' = stamped
             /\ \A i \in 1 .. Len(dir) : times'[dir[i].fh] = times[dir[i].fh]
  <2>1. /\ stamped' = stamped /\ times' = [ times EXCEPT ![h] = o.time ]
        /\ \A i \in 1 .. Len(dir) : dir[i].fh # h
    BY <1>3 DEF CopyRawPart
  <2> QED
    BY <1>1, <1>2, <2>1
<1>4. CASE ReadCipherHeader \/ CopyFails \/ CopyEnds \/ SinkBreaks
             \/ UNCHANGED copied_vars
  BY <1>4 DEF ReadCipherHeader, CopyFails, CopyEnds, SinkBreaks, copyVars,
              copied_vars
<1>5. ASSUME \/ CreateCopy /\ Stamps
             \/ \E n \in 1 .. MaxRaw : CopySome(n) /\ Stamps
             \/ CloseCopy /\ Stamps
             \/ OwnNext
      PROVE  Stamps /\ times' = times
  BY <1>5 DEF CreateCopy, CopySome, CloseCopy, OwnNext
<1> QED
  BY <1>1, <1>3, <1>4, <1>5 DEF CopyStep, CopyNext

LEMMA StampStep ==
  ASSUME CopySInv, StampInv, [CopyStep]_copied_vars
  PROVE  StampInv'
<1>1. FlagsMove /\ Kept /\ Len(blocks) \in Nat /\ Len(blocks') \in Nat
      /\ blocks \in Seq(Blocks)
  BY CopyFlags, CopyRecords DEF CopySInv, CopyIInv, IInv, TypeOK
<1>2. Flagged'
  BY <1>1 DEF FlagsMove, StampInv, Flagged
<1>3. /\ \A i \in 1 .. Len(blocks) :
           i \in 1 .. Len(blocks') /\ times'[dir'[i].fh] = times[dir[i].fh]
      /\ stamped' = stamped \/ (Stamps /\ times' = times)
  BY <1>1, TimesMove DEF FlagsMove, Kept
<1>4. ASSUME NEW s \in stamped
      PROVE  s.at \in 1 .. Len(blocks') /\ s.check = times'[dir'[s.at].fh]
  BY <1>3 DEF StampInv, Timed
<1>5. ASSUME Stamps, NEW s \in stamped', s \notin stamped
      PROVE  s.at \in 1 .. Len(blocks) /\ s.check = times[dir[s.at].fh]
  <2>1. DOMAIN blocks = 1 .. Len(blocks)
    BY <1>1
  <2>2. PICK i \in 1 .. Len(blocks) :
          s = [ at |-> i, check |-> LET f == fh[dir[i].fh]
                IN zipCryptoCheckBytes(f.flags, times[dir[i].fh], f.crc) ]
    BY <1>5, <2>1 DEF Stamps
  <2>3. "descriptor" \in fh[dir[i].fh].flags
    BY DEF StampInv, Flagged, CopySInv, SInv, Recording, AllRecorded, RecordedAt
  <2> QED
    BY <2>2, <2>3 DEF zipCryptoCheckBytes
<1>6. Timed'
  BY <1>3, <1>4, <1>5 DEF Timed
<1> QED
  BY <1>2, <1>6 DEF StampInv

(* The byte a reader derives from the directory to check a password is the *)
(* one in the header of the cipher: modifyHeader sets the time before the  *)
(* entry is created, CreateRaw sets the descriptor bit before the header   *)
(* goes out, and what the descriptor of the source says of the CRC, known  *)
(* only at the end, does not matter.  (CopyRawPart, zipCryptoCheckBytes)   *)
THEOREM CheckBytesAlwaysMatch ==
  ASSUME \A f \in Initial : CleanHeader(f)
  PROVE  CopySpec => []CheckBytesMatch
<1>1. CopyInit => CopySInv /\ StampInv
  <2>1. CopyInit => Len(blocks) = 0 /\ stamped = {}
    BY DEF CopyInit, Init
  <2> QED
    BY <2>1, CopySInit DEF StampInv, Flagged, Timed
<1>2. CopySInv /\ StampInv /\ [CopyStep]_copied_vars => CopySInv' /\ StampInv'
  BY CopyRecords, StampStep
<1>3. CopySInv /\ StampInv => CheckBytesMatch
  <2> SUFFICES ASSUME CopySInv, StampInv, NEW s \in stamped
               PROVE  LET f == fh[dir[s.at].fh]
                      IN s.check = zipCryptoCheckBytes(f.flags, times[dir[s.at].fh], f.crc)
    BY DEF CheckBytesMatch
  <2>1. s.at \in 1 .. Len(blocks) /\ s.check = times[dir[s.at].fh]
    BY DEF StampInv, Timed
  <2>2. "descriptor" \in fh[dir[s.at].fh].flags
    BY <2>1 DEF StampInv, Flagged, CopySInv, SInv, Recording, AllRecorded, RecordedAt
  <2> QED
    BY <2>1, <2>2 DEF zipCryptoCheckBytes
<1> QED
  BY <1>1, <1>2, <1>3, PTL DEF CopySpec, CopyStep, copied_vars

-----------------------------------------------------------------------------
(* What is true of a copy on its way to an entry that reads back: until    *)
(* the descriptor of the source was read, its header says what the local   *)
(* header of the source did, and then what is true of it.                  *)

(* src has no more of the payload than there is.                           *)
WholeParts == \A part \in Parts : part.available <= PayloadSize(part)

Skipped(part) == IF sourceEncrypted(part) THEN zipCryptoHeaderLen ELSE 0

Announced(f, part) ==
  /\ f.crc = IF hasDescriptor(part) THEN 0 ELSE part.crc
  /\ f.usize64 = IF hasDescriptor(part) THEN 0 ELSE part.usize
  /\ MethodOf(f) = part.method

Describes(f, part) ==
  f.crc = part.crc /\ f.usize64 = part.usize /\ MethodOf(f) = part.method

Before ==
  /\ step = "cipher" => sourceEncrypted(call.part)
  /\ step = "create" => read = Skipped(call.part)
  /\ step \in {"cipher", "create"} =>
       fh[call.h] = CopiedHeader(call.part, call.new, call.override)

During ==
  /\ step \in {"copy", "close"} =>
       /\ last.raw /\ last.enc # "AES"
       /\ LastBlock.data + Skipped(call.part) = read
  /\ step = "copy" => Announced(fh[call.h], call.part)
  /\ step = "close" => /\ Describes(fh[call.h], call.part)
                       /\ read = PayloadSize(call.part)

After ==
  \A c \in copied :
    /\ c.at \in 1 .. Len(blocks) /\ dir[c.at].fh = c.of.h
    /\ blocks[c.at].descriptor # <<>>
    /\ blocks[c.at].data = c.of.part.data
    /\ Describes(fh[c.of.h], c.of.part)

(* The header that an entry is created with.                               *)
LEMMA CopiedAnnounces ==
  ASSUME NEW part \in PartRecords, NEW new \in BOOLEAN,
         NEW o \in OverridableFileHeader
  PROVE  LET f == CopiedHeader(part, new, o)
         IN /\ CipherOf(f) # "AES"
            /\ Announced(PreparedHeader(f, TRUE), part)
<1> DEFINE f == CopiedHeader(part, new, o)
           rekeyed == new /\ sourceEncrypted(part)
           g == Stamped(f)
<1>1. /\ f.password = rekeyed
      /\ f.encryption = IF rekeyed THEN "Standard" ELSE "None"
      /\ f.crc = IF hasDescriptor(part) THEN 0 ELSE part.crc
      /\ f.usize64 = IF hasDescriptor(part) THEN 0 ELSE part.usize
      /\ f.method = part.method
      /\ f.extra = [ NoExtra EXCEPT !.other = o.other ]
  BY DEF CopiedHeader
<1>2. f.extra.aes = <<>>
  BY <1>1 DEF NoExtra
<1>3. f \in FileHeaders(Methods)
  BY CopiedHeaderType
<1> HIDE DEF f
<1>4. /\ g.password = f.password /\ g.encryption = f.encryption
      /\ g.crc = f.crc /\ g.usize64 = f.usize64
      /\ g.method = f.method /\ g.extra = f.extra
  BY <1>3 DEF Stamped, FileHeaders
<1>5. ~writesAES(f) /\ ~writesAES(g)
  BY <1>1, <1>4 DEF writesAES
<1> HIDE DEF g
<1>6. PreparedHeader(f, TRUE) = g
  BY <1>5 DEF PreparedHeader, writeWinZipExtra, g
<1>7. CipherOf(f) # "AES"
  BY <1>5 DEF CipherOf
<1>8. Announced(g, part)
  BY <1>1, <1>2, <1>4 DEF Announced, MethodOf
<1> QED
  BY <1>6, <1>7, <1>8 DEF f

LEMMA DescribedDescribes ==
  ASSUME NEW part \in PartRecords, NEW f \in FileHeaders(Methods),
         Announced(f, part)
  PROVE  Describes(Described(f, part), part)
<1>1. MethodOf(Described(f, part)) = part.method
  BY DescribedKeeps DEF Announced
<1>2. CASE hasDescriptor(part)
  <2>1. Described(f, part).crc = part.crc /\ Described(f, part).usize64 = part.usize
    BY <1>2 DEF Described, FileHeaders
  <2> QED
    BY <1>1, <2>1 DEF Describes
<1>3. CASE ~hasDescriptor(part)
  BY <1>1, <1>3 DEF Described, Announced, Describes
<1> QED
  BY <1>2, <1>3

(* Close of a raw file writer leaves the CRC and the size in its header.   *)
LEMMA UpdatedDescribes ==
  ASSUME NEW fw \in FileWriters, fw.raw, fw.enc # "AES",
         NEW f \in FileHeaders(Methods), NEW part, Describes(f, part)
  PROVE  Describes(UpdatedHeader(f, fw), part)
<1> DEFINE sized == [ f EXCEPT !.csize64 = fw.compCount,
                               !.usize64 = IF fw.raw THEN @ ELSE fw.rawCount,
                               !.xxh3 = IF fw.raw THEN @ ELSE Xxh3(fw.hashed),
                               !.crc = IF fw.enc = "AES" THEN 0
                                       ELSE IF fw.raw THEN f.crc ELSE Crc(fw.hashed) ]
<1>1. sized.crc = f.crc /\ sized.usize64 = f.usize64 /\ DOMAIN sized = DOMAIN f
  BY DEF FileHeaders
<1>2. {"crc", "usize64"} \subseteq DOMAIN f
  BY DEF FileHeaders
<1>3. UpdatedHeader(f, fw) =
        IF isZip64(sized)
        THEN [ sized EXCEPT !.csize = uint32max, !.usize = uint32max,
                            !.version = zipVersion45 ]
        ELSE [ sized EXCEPT !.csize = sized.csize64, !.usize = sized.usize64 ]
  BY DEF UpdatedHeader
<1> HIDE DEF sized
<1>4. /\ UpdatedHeader(f, fw).crc = f.crc
      /\ UpdatedHeader(f, fw).usize64 = f.usize64
  BY <1>1, <1>2, <1>3
<1>5. MethodOf(UpdatedHeader(f, fw)) = MethodOf(f)
  BY UpdatedSettled DEF MethodOf
<1> QED
  BY <1>4, <1>5 DEF Describes

(* The inductive invariant of what is copied.                              *)
CopyBInv == CopySInv /\ Before /\ During /\ After

LEMMA Idle ==
  ASSUME step' = "idle"
  PROVE  Before' /\ During'
BY DEF Before, During

LEMMA CallRight ==
  ASSUME CopyBInv, NEW h \in Headers, NEW part \in Parts,
         NEW old \in {"none", "right", "wrong"}, NEW new \in BOOLEAN,
         NEW o \in Overridden(part), CopyRawPart(h, part, old, new, o)
  PROVE  Before' /\ During'
<1>1. CASE step' = "idle"
  BY <1>1, Idle
<1>2. CASE step' # "idle"
  <2>1. /\ call' = [ part |-> part, h |-> h, old |-> old, new |-> new,
                          override |-> o ]
        /\ step' = StepAfter("begin") /\ read' = 0
        /\ fh' = [ fh EXCEPT ![h] = CopiedHeader(part, new, o) ]
    BY <1>2 DEF CopyRawPart, Returns
  <2>2. step' = IF sourceEncrypted(part) THEN "cipher" ELSE "create"
    BY <2>1 DEF StepAfter
  <2>3. fh'[h] = CopiedHeader(part, new, o)
    BY <2>1 DEF CopyBInv, CopySInv, CopyIInv, IInv, TypeOK
  <2> QED
    BY <2>1, <2>2, <2>3 DEF Before, During, Skipped
<1> QED
  BY <1>1, <1>2

LEMMA CipherRight ==
  ASSUME CopyBInv, ReadCipherHeader
  PROVE  Before' /\ During'
<1>1. CASE step' = "idle"
  BY <1>1, Idle
<1>2. CASE step' # "idle"
  <2>1. /\ step = "cipher" /\ call' = call /\ fh' = fh
        /\ read' = zipCryptoHeaderLen /\ step' = StepAfter("cipher")
    BY <1>2 DEF ReadCipherHeader, Returns, vars
  <2>2. step' = "create"
    BY <2>1 DEF StepAfter
  <2> QED
    BY <2>1, <2>2 DEF CopyBInv, Before, During, Skipped
<1> QED
  BY <1>1, <1>2

(* The header that was prepared reaches the entry: the one being closed    *)
(* has another.                                                            *)
LEMMA CreateRight ==
  ASSUME CopyBInv, CreateCopy
  PROVE  Before' /\ During'
<1>1. CASE step' = "idle"
  BY <1>1, Idle
<1>2. CASE step' # "idle"
  <2>1. /\ step = "create" /\ call' = call /\ read' = read
        /\ Create(call.h, TRUE) /\ step' = StepAfter("create")
        /\ Len(dir') > Len(dir)
    BY <1>2 DEF CreateCopy, Returns
  <2>2. step' = "copy"
    BY <2>1 DEF StepAfter
  <2>3. /\ call.part \in PartRecords /\ call.h \in Headers /\ call.new \in BOOLEAN
        /\ call.override \in OverridableFileHeader
    BY <2>1, UnderWay, CopyType DEF CopyBInv, CopySInv, CopyIInv, Calls
  <2>4. PICK c \in CloseIfOpen : \/ CreateRejected(call.h, TRUE, c)
                                 \/ CreateFails(call.h, TRUE, c)
                                 \/ CreateSucceeds(call.h, TRUE, c)
    BY <2>1 DEF Create
  <2>5. Len(dir) \in Nat /\ Len(dir) = Len(blocks) /\ ~closed
    BY <2>1 DEF CopyBInv, CopySInv, CopyIInv, IInv, TypeOK, OffsetsPointAtHeaders,
                Create, Usable
  <2>6. CreateSucceeds(call.h, TRUE, c)
    <3>1. dir' # dir
      BY <2>1, <2>5
    <3>2. CreateRejected(call.h, TRUE, c) \/ CreateFails(call.h, TRUE, c) => dir' = dir
      BY DEF CreateRejected, CreateFails
    <3> QED
      BY <2>4, <3>1, <3>2
  <2> DEFINE f == CopiedHeader(call.part, call.new, call.override)
             g == PreparedHeader(f, TRUE)
             b == NewBlock(g, f.method, EndOf(c.blocks))
  <2>7. c.fh[call.h] = f
    <3>1. fh[call.h] = f
      BY <2>1 DEF CopyBInv, Before
    <3>2. CASE ~Open
      BY <3>1, <3>2 DEF CloseIfOpen, Now
    <3>3. CASE Open
      <4>1. last.fh = dir[Len(dir)].fh /\ Len(dir) \in 1 .. Len(dir)
        BY <2>5, <3>3 DEF CopyBInv, CopySInv, SInv, EInv, OpenOwns, IInv, OpenIsLast,
                          TypeOK
      <4>2. last.fh # call.h
        BY <2>1, <4>1 DEF CopyBInv, CopySInv, Reserved
      <4>3. ASSUME NEW fw, NEW e, NEW k, NEW n, NEW ok, c = WithLast(fw, e, k, n, ok)
            PROVE  c.fh[call.h] = fh[call.h]
        <5>1. c.fh = [ fh EXCEPT ![last.fh] = e ]
          BY <4>3 DEF WithLast
        <5> QED
          BY <2>3, <4>2, <5>1 DEF CopyBInv, CopySInv, CopyIInv, IInv, TypeOK
      <4>4. \/ \E d \in Tails(last) : c = CloseSucceeds(d) \/ c = CompressorFails(d)
            \/ \E updated \in BOOLEAN : c = SinkRefuses(updated)
        BY <3>3 DEF CloseIfOpen, CloseLast
      <4>5. ASSUME NEW d \in Tails(last), c = CloseSucceeds(d)
            PROVE  c.fh[call.h] = fh[call.h]
        BY <4>3, <4>5 DEF CloseSucceeds
      <4>6. ASSUME NEW d \in Tails(last), c = CompressorFails(d)
            PROVE  c.fh[call.h] = fh[call.h]
        BY <4>3, <4>6 DEF CompressorFails
      <4>7. ASSUME NEW updated \in BOOLEAN, c = SinkRefuses(updated)
            PROVE  c.fh[call.h] = fh[call.h]
        BY <4>3, <4>7 DEF SinkRefuses
      <4> QED
        BY <3>1, <4>4, <4>5, <4>6, <4>7
    <3> QED
      BY <3>2, <3>3
  <2>8. CipherOf(f) # "AES" /\ Announced(g, call.part)
    BY <2>3, CopiedAnnounces
  <2>9. c.fh \in [Headers -> FileHeaders(Methods)] /\ c.blocks \in Seq(Blocks)
          /\ Len(c.blocks) = Len(blocks)
    BY <2>5, CloseOutcome DEF CopyBInv, CopySInv, CopyIInv, Outcome
  <2>10. /\ last' = NewFileWriter(call.h, f, TRUE)
         /\ blocks' = Append(c.blocks, b)
         /\ fh' = [ c.fh EXCEPT ![call.h] = g ]
    BY <2>6, <2>7 DEF CreateSucceeds
  <2>11. b.data = 0
    BY DEF NewBlock
  <2> HIDE DEF f, g, b
  <2>12. last'.raw /\ last'.enc # "AES"
    BY <2>8, <2>10 DEF NewFileWriter
  <2>13. fh'[call.h] = g
    BY <2>3, <2>9, <2>10
  <2>14. LastBlock' = b
    BY <2>5, <2>9, <2>10 DEF LastBlock
  <2>15. LastBlock'.data + Skipped(call.part) = read
    <3>1. read = Skipped(call.part)
      BY <2>1 DEF CopyBInv, Before
    <3> QED
      BY <2>11, <2>14, <3>1 DEF Skipped, zipCryptoHeaderLen
  <2> QED
    BY <2>1, <2>2, <2>8, <2>12, <2>13, <2>15 DEF Before, During
<1> QED
  BY <1>1, <1>2

LEMMA SomeRight ==
  ASSUME CopyBInv, NEW n \in 1 .. MaxRaw, CopySome(n)
  PROVE  Before' /\ During'
<1>1. /\ step = "copy" /\ step' = "copy" /\ call' = call /\ read' = read + n
      /\ fh' = fh /\ Open /\ last' = Written(last, n, n)
      /\ blocks' = [ blocks EXCEPT ![Len(blocks)] = WrittenBlock(LastBlock, last, n) ]
  BY DEF CopySome, Write, LastBlock
<1>2. n \in Nat
  BY SomeRecords DEF CopyBInv
<1>3. /\ blocks \in Seq(Blocks) /\ Len(blocks) \in 1 .. Len(blocks)
      /\ LastBlock \in Blocks /\ last \in FileWriters
  BY <1>1 DEF CopyBInv, CopySInv, CopyIInv, IInv, TypeOK, OpenIsLast, LastBlock, Open
<1> DEFINE b == WrittenBlock(LastBlock, last, n)
<1>4. b.data = LastBlock.data + n
  BY <1>3 DEF WrittenBlock, Blocks
<1>5. last'.raw = last.raw /\ last'.enc = last.enc
  BY <1>1, <1>3 DEF Written, FileWriters
<1>6. blocks' = [ blocks EXCEPT ![Len(blocks)] = b ]
  BY <1>1
<1> HIDE DEF b
<1>7. LastBlock' = b
  BY <1>3, <1>6 DEF LastBlock
<1>8. LastBlock'.data + Skipped(call.part) = read + n
  <2>1. LastBlock.data \in Nat /\ Skipped(call.part) \in Nat
    BY <1>3 DEF Blocks, Skipped, zipCryptoHeaderLen
  <2>2. LastBlock.data + Skipped(call.part) = read
    BY <1>1 DEF CopyBInv, During
  <2> QED
    BY <1>2, <1>4, <1>7, <2>1, <2>2
<1> QED
  BY <1>1, <1>5, <1>8 DEF CopyBInv, Before, During

LEMMA EndsRight ==
  ASSUME CopyBInv, WholeParts, CopyEnds
  PROVE  Before' /\ During'
<1>1. CASE step' = "idle"
  BY <1>1, Idle
<1>2. CASE step' # "idle"
  <2>1. /\ step = "copy" /\ step' = "close" /\ call' = call /\ read' = read
        /\ fh' = [ fh EXCEPT ![call.h] = Described(fh[call.h], call.part) ]
        /\ UNCHANGED <<last, blocks>>
        /\ read = call.part.available
        /\ ~(call.part.available < PayloadSize(call.part))
    BY <1>2, CopyEndsCases DEF CopyEnds, Returns
  <2>2. /\ call \in Calls /\ call.part \in Parts
        /\ call.part \in PartRecords /\ call.h \in Headers
    BY <2>1, UnderWay, CopyType DEF CopyBInv, CopySInv, CopyIInv, Calls
  <2>3. read = PayloadSize(call.part)
    <3>1. call.part.available \in Nat /\ PayloadSize(call.part) \in Nat
      BY <2>2 DEF PartRecords, PayloadSize, zipCryptoHeaderLen
    <3>2. call.part.available <= PayloadSize(call.part)
      BY <2>2 DEF WholeParts
    <3> QED
      BY <2>1, <3>1, <3>2
  <2>4. fh[call.h] \in FileHeaders(Methods) /\ Announced(fh[call.h], call.part)
    BY <2>1, <2>2 DEF CopyBInv, CopySInv, CopyIInv, IInv, TypeOK, During
  <2>5. Describes(fh'[call.h], call.part)
    <3>1. fh'[call.h] = Described(fh[call.h], call.part)
      BY <2>1, <2>2 DEF CopyBInv, CopySInv, CopyIInv, IInv, TypeOK
    <3> QED
      BY <2>2, <2>4, <3>1, DescribedDescribes
  <2>6. LastBlock' = LastBlock
    BY <2>1 DEF LastBlock
  <2> QED
    BY <2>1, <2>3, <2>5, <2>6 DEF CopyBInv, Before, During
<1> QED
  BY <1>1, <1>2

(* A copy that returns nil has left an entry that is what its source was.  *)
LEMMA CloseRight ==
  ASSUME CopyBInv, CloseCopy, blocks'[Len(blocks)].descriptor # <<>>
  PROVE  /\ Len(blocks) \in 1 .. Len(blocks) /\ dir[Len(blocks)].fh = call.h
         /\ blocks'[Len(blocks)].data = call.part.data
         /\ Describes(fh'[call.h], call.part)
<1>1. step = "close" /\ CloseEntry
  BY DEF CloseCopy
<1>2. /\ call.part \in PartRecords /\ call.h \in Headers
      /\ Open /\ last.fh = call.h
  BY <1>1, UnderWay, CopyType DEF CopyBInv, CopySInv, CopyIInv, CallTyped
<1>3. /\ Len(dir) = Len(blocks) /\ Len(blocks) \in 1 .. Len(blocks)
      /\ last.fh = dir[Len(dir)].fh /\ ~closed
      /\ LastBlock.descriptor = <<>> /\ LastBlock \in Blocks
      /\ last \in FileWriters /\ fh[call.h] \in FileHeaders(Methods)
  BY <1>2 DEF CopyBInv, CopySInv, SInv, EInv, IInv, TypeOK, OffsetsPointAtHeaders,
              OpenIsLast, OpenOwns, LastBlock, Open
<1>4. /\ last.raw /\ last.enc # "AES" /\ Describes(fh[call.h], call.part)
      /\ LastBlock.data + Skipped(call.part) = PayloadSize(call.part)
  BY <1>1 DEF CopyBInv, During
<1>5. PICK c \in CloseLast : fh' = c.fh /\ blocks' = c.blocks
  BY <1>1 DEF CloseEntry, AfterClose
<1>6. ASSUME NEW fw, NEW f, NEW b, NEW n, NEW ok, c = WithLast(fw, f, b, n, ok)
      PROVE  blocks'[Len(blocks)] = b /\ fh'[call.h] = f
  <2>1. OnlyLast(WithLast(fw, f, b, n, ok), b, f)
    BY <1>2, <1>3, LastOnly DEF CopyBInv, CopySInv, SInv
  <2>2. OnlyLast(c, b, f)
    BY <1>6, <2>1
  <2> QED
    BY <1>2, <1>3, <1>5, <2>2 DEF OnlyLast
<1>7. PICK d \in Tails(last) : c = CloseSucceeds(d)
  <2>1. ASSUME NEW d \in Tails(last), c = CompressorFails(d)
        PROVE  FALSE
    <3>1. blocks'[Len(blocks)] = WrittenBlock(LastBlock, last, d)
      BY <1>6, <2>1 DEF CompressorFails
    <3>2. WrittenBlock(LastBlock, last, d).descriptor = LastBlock.descriptor
      BY <1>3 DEF WrittenBlock, Blocks
    <3> QED
      BY <1>3, <3>1, <3>2
  <2>2. ASSUME NEW updated \in BOOLEAN, c = SinkRefuses(updated)
        PROVE  FALSE
    <3>1. blocks'[Len(blocks)] = LastBlock
      BY <1>6, <2>2 DEF SinkRefuses
    <3> QED
      BY <1>3, <3>1
  <2>3. \/ \E d \in Tails(last) : c = CloseSucceeds(d) \/ c = CompressorFails(d)
        \/ \E updated \in BOOLEAN : c = SinkRefuses(updated)
    BY DEF CloseLast
  <2> QED
    BY <2>1, <2>2, <2>3
<1>8. d = 0
  BY <1>4, <1>7 DEF Tails, PassesThrough
<1> DEFINE fw == Finished(last, 0)
           g  == UpdatedHeader(fh[last.fh], fw)
           b  == FinishedBlock(LastBlock, last, g, 0)
<1>9. blocks'[Len(blocks)] = b /\ fh'[call.h] = g
  BY <1>6, <1>7, <1>8 DEF CloseSucceeds
<1>10. b.data = LastBlock.data
  <2>1. LastBlock.data \in Nat
    BY <1>3 DEF Blocks
  <2> HIDE DEF g
  <2>2. b.data = LastBlock.data + 0
    BY <1>3 DEF FinishedBlock, Blocks
  <2> QED
    BY <2>1, <2>2
<1>11. fw \in FileWriters /\ fw.raw /\ fw.enc # "AES"
  <2>1. fw \in FileWriters
    BY <1>3, 0 \in Nat, FinishedBooks
  <2>2. fw.raw = last.raw /\ fw.enc = last.enc
    BY <1>3 DEF Finished, FileWriters
  <2> QED
    BY <1>4, <2>1, <2>2
<1> HIDE DEF fw
<1>12. Describes(g, call.part)
  BY <1>2, <1>3, <1>4, <1>11, UpdatedDescribes
<1> HIDE DEF g, b
<1>13. LastBlock.data = call.part.data
  <2>1. LastBlock.data \in Nat /\ call.part.data \in Nat
    BY <1>2, <1>3 DEF Blocks, PartRecords
  <2> QED
    BY <1>4, <2>1 DEF Skipped, PayloadSize, zipCryptoHeaderLen
<1> QED
  BY <1>2, <1>3, <1>9, <1>10, <1>12, <1>13

(* A copy that returned nil is never touched again.                        *)
LEMMA AfterStep ==
  ASSUME CopyBInv, [CopyStep]_copied_vars
  PROVE  After'
<1>1. FlagsMove /\ Kept /\ Len(blocks) \in Nat /\ Len(blocks') \in Nat
  BY CopyFlags, CopyRecords DEF CopyBInv, CopySInv, CopyIInv, IInv, TypeOK
<1>2. \A i \in 1 .. Len(blocks) :
        /\ i \in 1 .. Len(blocks') /\ dir'[i] = dir[i]
        /\ blocks[i].descriptor # <<>> =>
             blocks'[i] = blocks[i] /\ fh'[dir[i].fh] = fh[dir[i].fh]
  BY <1>1 DEF FlagsMove, Kept, Untouched
<1>3. ASSUME NEW c \in copied
      PROVE  /\ c.at \in 1 .. Len(blocks') /\ dir'[c.at].fh = c.of.h
             /\ blocks'[c.at].descriptor # <<>>
             /\ blocks'[c.at].data = c.of.part.data
             /\ Describes(fh'[c.of.h], c.of.part)
  <2>1. /\ c.at \in 1 .. Len(blocks) /\ dir[c.at].fh = c.of.h
        /\ blocks[c.at].descriptor # <<>>
        /\ blocks[c.at].data = c.of.part.data
        /\ Describes(fh[c.of.h], c.of.part)
    BY DEF CopyBInv, After
  <2>2. /\ c.at \in 1 .. Len(blocks') /\ dir'[c.at] = dir[c.at]
        /\ blocks'[c.at] = blocks[c.at] /\ fh'[c.of.h] = fh[c.of.h]
    BY <1>2, <2>1
  <2> QED
    BY <2>1, <2>2 DEF Describes
<1>4. CASE copied' = copied
  BY <1>3, <1>4 DEF After
<1>5. CASE copied' # copied
  <2>1. /\ CloseCopy /\ blocks'[Len(blocks)].descriptor # <<>>
        /\ copied' = copied \cup { [ at |-> Len(blocks), of |-> call ] }
    BY <1>5 DEF CopyStep, CopyNext, CopyRawPart, ReadCipherHeader, CreateCopy,
                CopySome, CopyFails, CopyEnds, CloseCopy, OwnNext, SinkBreaks,
                copyVars, copied_vars
  <2>2. /\ Len(blocks) \in 1 .. Len(blocks) /\ dir[Len(blocks)].fh = call.h
        /\ blocks'[Len(blocks)].data = call.part.data
        /\ Describes(fh'[call.h], call.part)
    BY <2>1, CloseRight DEF CopyBInv
  <2>3. Len(blocks) \in 1 .. Len(blocks') /\ dir'[Len(blocks)] = dir[Len(blocks)]
    BY <1>2, <2>2
  <2>4. ASSUME NEW c, c = [ at |-> Len(blocks), of |-> call ]
        PROVE  /\ c.at \in 1 .. Len(blocks') /\ dir'[c.at].fh = c.of.h
               /\ blocks'[c.at].descriptor # <<>>
               /\ blocks'[c.at].data = c.of.part.data
               /\ Describes(fh'[c.of.h], c.of.part)
    BY <2>1, <2>2, <2>3, <2>4
  <2> QED
    BY <1>3, <2>1, <2>4 DEF After
<1> QED
  BY <1>4, <1>5

LEMMA DuringStep ==
  ASSUME CopyBInv, WholeParts, [CopyStep]_copied_vars
  PROVE  Before' /\ During'
<1>1. ASSUME NEW h \in Headers, NEW part \in Parts,
             NEW old \in {"none", "right", "wrong"}, NEW new \in BOOLEAN,
             NEW o \in Overridden(part), CopyRawPart(h, part, old, new, o)
      PROVE  Before' /\ During'
  BY <1>1, CallRight
<1>2. CASE ReadCipherHeader
  BY <1>2, CipherRight
<1>3. CASE CreateCopy
  BY <1>3, CreateRight
<1>4. ASSUME NEW n \in 1 .. MaxRaw, CopySome(n)
      PROVE  Before' /\ During'
  BY <1>4, SomeRight
<1>5. CASE CopyEnds
  BY <1>5, EndsRight
<1>6. CASE CopyFails \/ CloseCopy \/ OwnNext
  BY <1>6, Idle DEF CopyFails, CloseCopy, OwnNext, Returns
<1>7. CASE SinkBreaks \/ UNCHANGED copied_vars
  <2>1. UNCHANGED <<step, call, read, fh, last, blocks>>
    BY <1>7 DEF SinkBreaks, SinkFails, copyVars, copied_vars, vars
  <2>2. LastBlock' = LastBlock
    BY <2>1 DEF LastBlock
  <2> QED
    BY <2>1, <2>2 DEF CopyBInv, Before, During
<1> QED
  BY <1>1, <1>2, <1>3, <1>4, <1>5, <1>6, <1>7 DEF CopyStep, CopyNext

LEMMA CopiesRead ==
  ASSUME CopyBInv
  PROVE  CopiesReadBack
<1> SUFFICES ASSUME NEW c \in copied
             PROVE  LET part == c.of.part
                        r == ReadDirectoryHeader(DirectoryHeader(fh[c.of.h], dir[c.at].offset))
                        b == blocks[c.at]
                    IN /\ r.crc = part.crc
                       /\ r.usize64 = part.usize
                       /\ r.method = part.method
                       /\ r.headerOffset = b.at
                       /\ b.data = part.data
                       /\ b.descriptor[1].usize = part.usize
  BY DEF CopiesReadBack
<1> DEFINE f == fh[c.of.h]
           b == blocks[c.at]
           r == ReadDirectoryHeader(DirectoryHeader(f, dir[c.at].offset))
<1>1. /\ c.at \in 1 .. Len(blocks) /\ dir[c.at].fh = c.of.h
      /\ b.descriptor # <<>> /\ b.data = c.of.part.data
      /\ Describes(f, c.of.part)
  BY DEF CopyBInv, After
<1>2. dir[c.at] \in Entries /\ dir[c.at].offset = b.at
  BY <1>1 DEF CopyBInv, CopySInv, CopyIInv, IInv, TypeOK, OffsetsPointAtHeaders
<1>3. c.of.h \in Headers /\ dir[c.at].offset \in Nat
  BY <1>1, <1>2 DEF Entries
<1>4. f \in FileHeaders(Methods) /\ f.extra.zip64 = <<>>
  BY <1>3 DEF CopyBInv, CopySInv, CopyIInv, IInv, TypeOK, SInv, Recording, Clean,
              CleanHeader
<1>5. SizesSettled(f) /\ b.descriptor[1].usize = f.usize64
  BY <1>1 DEF CopyBInv, CopySInv, SInv, Recording, AllRecorded, RecordedAt
<1> HIDE DEF f
<1>6. /\ r.crc = f.crc /\ r.usize64 = f.usize64 /\ r.method = MethodOf(f)
      /\ r.headerOffset = dir[c.at].offset
  BY <1>3, <1>4, <1>5, RecordReadsBack DEF MethodOf
<1> HIDE DEF r, b
<1>7. /\ r.crc = c.of.part.crc /\ r.usize64 = c.of.part.usize
      /\ r.method = c.of.part.method /\ r.headerOffset = b.at
      /\ b.data = c.of.part.data /\ b.descriptor[1].usize = c.of.part.usize
  BY <1>1, <1>2, <1>5, <1>6 DEF Describes
<1> QED
  BY <1>7 DEF f, r, b

(* A copy that returned nil is found in the directory with the CRC, the    *)
(* size and the method of its source, and holds all of its data, whatever  *)
(* the local header of the source left open, whatever the sizes, and       *)
(* whatever the Writer is used for afterwards.  (CopyRawPart)              *)
THEOREM CopiesAlwaysReadBack ==
  ASSUME \A f \in Initial : CleanHeader(f), WholeParts
  PROVE  CopySpec => []CopiesReadBack
<1>1. CopyInit => CopyBInv
  <2>1. CopyInit => step = "idle" /\ copied = {}
    BY DEF CopyInit
  <2> QED
    BY <2>1, CopySInit DEF CopyBInv, Before, During, After
<1>2. CopyBInv /\ [CopyStep]_copied_vars => CopyBInv'
  BY CopyRecords, DuringStep, AfterStep DEF CopyBInv
<1>3. CopyBInv => CopiesReadBack
  BY CopiesRead
<1> QED
  BY <1>1, <1>2, <1>3, PTL DEF CopySpec, CopyStep, copied_vars
=============================================================================
