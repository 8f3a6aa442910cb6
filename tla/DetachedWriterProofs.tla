------------------------ MODULE DetachedWriterProofs ------------------------
(***************************************************************************)
(* Proofs about DetachedWriter, for any number of parts and any order in   *)
(* which their goroutines and the two callers of generateCentralDirectory  *)
(* run: its types, that one caller at a time is inside the generator, and  *)
(* that the directory published lists every part once, in its order.       *)
(***************************************************************************)
EXTENDS DetachedWriter, FileWriterProofs

USE NoFileAssumption, HeadersAssumption, NumbersAssumption

(* A part that is written to has its file writer and no descriptor yet.    *)
Files ==
  \A p \in Headers : part[p] \in {"made", "open"} =>
    file[p] # NoFile /\ block[p] # NoFile /\ block[p].descriptor = <<>>

(* w.mu is held by whoever is inside generateCentralDirectory.             *)
Exclusive ==
  \A c \in Callers : pc[c] \in {"sort", "place", "encode"} <=> lock = c

(* Once somebody has called for the directory all parts are complete.      *)
Frozen == (\E c \in Callers : pc[c] \notin {"idle", "again"}) => Complete

(* The directory is there only after a call that nobody takes back.        *)
Published ==
  /\ pc["Close"] # "idle" => closed
  /\ cd # <<>> =>
       /\ lock = "free"
       /\ \/ closed /\ pc["Close"] \in {"returned", "failed"}
          \/ pc["GetCentralDirectoryBytes"] \in {"called", "returned"}

Calls == Exclusive /\ Frozen /\ Published

InLog(p) == \E k \in 1 .. Len(log) : log[k] = p
InDir(p) == \E i \in 1 .. Len(dir) : dir[i].fh = p

(* Every part that was registered is in the log once, and in the directory *)
(* once.                                                                   *)
Listed ==
  /\ Len(dir) = Len(log)
  /\ \A k, l \in 1 .. Len(log) : log[k] = log[l] => k = l
  /\ \A i, j \in 1 .. Len(dir) : dir[i].fh = dir[j].fh => i = j
  /\ \A p \in Headers : InDir(p) <=> InLog(p)
  /\ \A p \in Headers : InLog(p) => part[p] \notin {"new", "made"}
  /\ \A p \in Headers : part[p] \in {"open", "closed", "added"} => InLog(p)

(* Parts of equal order are always in the order they were registered.      *)
Stable ==
  \A i, j \in 1 .. Len(dir), k, l \in 1 .. Len(log) :
    /\ i < j /\ order[dir[i].fh] = order[dir[j].fh]
    /\ log[k] = dir[i].fh /\ log[l] = dir[j].fh
    => k < l

Sorted ==
  \A i, j \in 1 .. Len(dir) : i < j => order[dir[i].fh] <= order[dir[j].fh]

SortedOnce ==
  (cd # <<>> \/ \E c \in Callers : pc[c] \in {"place", "encode"}) => Sorted

IInv == TypeOK /\ Files /\ Calls /\ Listed /\ Stable /\ SortedOnce

-----------------------------------------------------------------------------
LEMMA PartLenType ==
  ASSUME NEW f \in FileHeaders(Methods)
  PROVE  PartLen(f) \in Nat
<1>1. LocalHeaderLen(f) \in Nat
  BY LocalHeaderLenType
<1>2. f.csize64 \in Nat
  BY DEF FileHeaders
<1>3. DescriptorLen(f) \in Nat
  BY DEF DescriptorLen, dataDescriptorLen, dataDescriptor64Len
<1> QED
  BY <1>1, <1>2, <1>3 DEF PartLen

(* What sorting the directory does to it.                                  *)
LEMMA SortDirEffect ==
  ASSUME TypeOK, NEW c \in Callers, SortDir(c)
  PROVE  /\ dir' \in Seq(Entries)
         /\ Len(dir') = Len(dir)
         /\ \E q \in Permutation(Len(dir)) :
              /\ \A i, j \in 1 .. Len(dir) : i < j => Before(q[i], q[j])
              /\ \A k \in 1 .. Len(dir) : dir'[k] = dir[q[k]]
<1>1. PICK q \in Permutation(Len(dir)) :
        /\ \A i, j \in 1 .. Len(dir) : i < j => Before(q[i], q[j])
        /\ dir' = [ k \in 1 .. Len(dir) |-> dir[q[k]] ]
  BY DEF SortDir
<1>2. dir \in Seq(Entries) /\ Len(dir) \in Nat
  BY DEF TypeOK
<1>3. \A k \in 1 .. Len(dir) : q[k] \in 1 .. Len(dir)
  BY <1>1 DEF Permutation
<1>4. \A k \in 1 .. Len(dir) : dir[q[k]] \in Entries
  BY <1>2, <1>3
<1>5. dir' \in Seq(Entries) /\ Len(dir') = Len(dir)
  BY <1>1, <1>2, <1>4
<1> QED
  BY <1>1, <1>5

(* What an iteration of the loop does to it.                               *)
LEMMA PlaceEffect ==
  ASSUME TypeOK, NEW c \in Callers, Place(c)
  PROVE  /\ dir' \in Seq(Entries)
         /\ Len(dir') = Len(dir)
         /\ \A k \in 1 .. Len(dir) : dir'[k].fh = dir[k].fh
         /\ offset' \in Nat
<1>1. dir \in Seq(Entries) /\ Len(dir) \in Nat
        /\ placed + 1 \in 1 .. Len(dir)
  BY DEF TypeOK, Place
<1> DEFINE entry == dir[placed + 1]
           at    == OffsetOf(entry)
<1>2. entry \in Entries
  BY <1>1
<1>3. at \in Nat
  BY <1>2 DEF OffsetOf, TypeOK, Entries
<1>4. dir' = [ dir EXCEPT ![placed + 1].offset = at ]
        /\ offset' = at + PartLen(fh[entry.fh])
  BY DEF Place
<1>5. PartLen(fh[entry.fh]) \in Nat
  BY <1>2, PartLenType DEF TypeOK, Entries
<1> HIDE DEF at
<1>6. [ dir[placed + 1] EXCEPT !.offset = at ] \in Entries
        /\ [ dir[placed + 1] EXCEPT !.offset = at ].fh = dir[placed + 1].fh
  BY <1>2, <1>3 DEF Entries
<1>7. dir' = [ dir EXCEPT ![placed + 1] = [ dir[placed + 1] EXCEPT !.offset = at ] ]
  BY <1>1, <1>4
<1>8. dir' \in Seq(Entries) /\ Len(dir') = Len(dir)
  BY <1>1, <1>6, <1>7
<1>9. \A k \in 1 .. Len(dir) : dir'[k].fh = dir[k].fh
  BY <1>1, <1>6, <1>7
<1> QED
  BY <1>3, <1>4, <1>5, <1>8, <1>9

(* What registering a part adds.                                           *)
LEMMA RegisteredEffect ==
  ASSUME TypeOK, NEW p \in Headers, NEW at \in Nat, Registered(p, at)
  PROVE  /\ dir' \in Seq(Entries)
         /\ log' \in Seq(Headers)
         /\ Len(dir') = Len(dir) + 1 /\ Len(log') = Len(log) + 1
         /\ Len(dir) \in Nat /\ Len(log) \in Nat
         /\ \A k \in 1 .. Len(dir) : dir'[k] = dir[k]
         /\ \A k \in 1 .. Len(log) : log'[k] = log[k]
         /\ dir'[Len(dir) + 1].fh = p /\ log'[Len(log) + 1] = p
<1>1. dir \in Seq(Entries) /\ log \in Seq(Headers)
        /\ Len(dir) \in Nat /\ Len(log) \in Nat
  BY DEF TypeOK
<1>2. [ fh |-> p, offset |-> at ] \in Entries
  BY DEF Entries
<1>3. dir' = Append(dir, [ fh |-> p, offset |-> at ]) /\ log' = Append(log, p)
  BY DEF Registered
<1>4. /\ dir' \in Seq(Entries)
      /\ Len(dir') = Len(dir) + 1
      /\ \A k \in 1 .. Len(dir) : dir'[k] = dir[k]
      /\ dir'[Len(dir) + 1] = [ fh |-> p, offset |-> at ]
  BY <1>1, <1>2, <1>3
<1>5. /\ log' \in Seq(Headers)
      /\ Len(log') = Len(log) + 1
      /\ \A k \in 1 .. Len(log) : log'[k] = log[k]
      /\ log'[Len(log) + 1] = p
  BY <1>1, <1>3
<1> QED
  BY <1>1, <1>4, <1>5

-----------------------------------------------------------------------------
LEMMA TypeInit == Init => TypeOK
<1> SUFFICES ASSUME Init
             PROVE  TypeOK
  OBVIOUS
<1>1. NoExtra \in Extras(Methods)
  BY DEF NoExtra, Extras, Methods
<1>2. uint32max \in Nat
  BY WidthAssumption
<1>3. ZeroHeader \in FileHeaders(Methods)
  BY <1>1, <1>2
     DEF ZeroHeader, FileHeaders, Methods, EncryptionMethods, FlagBits
<1>4. fh \in [Headers -> FileHeaders(Methods)]
  BY <1>3 DEF Init
<1>5. dir \in Seq(Entries) /\ log \in Seq(Headers)
        /\ placed \in 0 .. Len(dir)
  BY DEF Init
<1>6. closed \in BOOLEAN
  BY DEF Init
<1> QED
  BY <1>4, <1>5, <1>6 DEF Init, TypeOK, PartStates, CallStates

(* PartsTyped: the variables that the goroutines of the parts change.      *)
PartsTyped ==
  /\ fh \in [Headers -> FileHeaders(Methods)]
  /\ order \in [Headers -> Int]
  /\ part \in [Headers -> PartStates]
  /\ file \in [Headers -> FileWriters \cup {NoFile}]
  /\ block \in [Headers -> Blocks \cup {NoFile}]
  /\ given \in [Headers -> Nat]

DirectoryTyped ==
  /\ dir \in Seq(Entries)
  /\ log \in Seq(Headers)
  /\ placed \in 0 .. Len(dir)
  /\ offset \in Nat

CallsTyped ==
  /\ lock \in Callers \cup {"free"}
  /\ pc \in [Callers -> CallStates]
  /\ closed \in BOOLEAN

LEMMA TypeParts == TypeOK <=> PartsTyped /\ DirectoryTyped /\ CallsTyped
BY DEF TypeOK, PartsTyped, DirectoryTyped, CallsTyped

(* An open part has a file writer, and a block without a descriptor.       *)
LEMMA OpenPart ==
  ASSUME TypeOK, Files, NEW p \in Headers, part[p] \in {"made", "open"}
  PROVE  file[p] \in FileWriters /\ block[p] \in Blocks
           /\ block[p].descriptor = <<>>
BY DEF TypeOK, Files

Fails(p) ==
  \/ \E n \in Sizes, c \in Sizes \cup Compressed : WriteFails(p, n, c)
  \/ \E d \in {0, 1} : \/ ClosePartFails(p, d)
                       \/ DescriptorFails(p, d)
                       \/ CompressorFails(p, d)

(* What a failing call leaves of the part: its header, its file writer and *)
(* a block that has only grown.                                            *)
LeftBehind(p) ==
  \E g \in FileHeaders(Methods), w \in FileWriters, b \in Blocks :
    /\ fh' = [ fh EXCEPT ![p] = g ]
    /\ file' = [ file EXCEPT ![p] = w ]
    /\ block' = [ block EXCEPT ![p] = b ]
    /\ PayloadLen(block[p]) \in Nat /\ PayloadLen(b) \in Nat
    /\ PayloadLen(b) >= PayloadLen(block[p])

(* However a part fails, nothing but its own state changes, and that stays *)
(* what it is by its type; what has arrived only grows.                    *)
LEMMA FailsEffect ==
  ASSUME TypeOK, Files, NEW p \in Headers, Fails(p)
  PROVE  GivenUp(p) /\ LeftBehind(p)
<1>1. GivenUp(p)
  BY DEF Fails, WriteFails, ClosePartFails, DescriptorFails, CompressorFails
<1>2. part[p] = "open"
  BY <1>1 DEF GivenUp
<1>3. /\ fh \in [Headers -> FileHeaders(Methods)]
      /\ file \in [Headers -> FileWriters \cup {NoFile}]
      /\ block \in [Headers -> Blocks \cup {NoFile}]
  BY DEF TypeOK
<1>4. file[p] \in FileWriters /\ block[p] \in Blocks
        /\ fh[p] \in FileHeaders(Methods)
  BY <1>2, <1>3, OpenPart
<1>12. block[p].descriptor = <<>>
  BY <1>2, OpenPart
<1>5. fh = [ fh EXCEPT ![p] = fh[p] ]
  BY <1>3
<1>6. ASSUME NEW n \in Nat, NEW h \in Nat, NEW a \in Nat,
             NEW w, w \in { WrittenShort(file[p], n, h, a), FinishedShort(file[p], a) },
             file' = [ file EXCEPT ![p] = w ],
             block' = [ block EXCEPT ![p] = ArrivedBlock(block[p], h, a) ],
             fh' = fh
      PROVE  LeftBehind(p)
  <2> DEFINE b == ArrivedBlock(block[p], h, a)
  <2>1. /\ WrittenShort(file[p], n, h, a) \in FileWriters
        /\ FinishedShort(file[p], a) \in FileWriters
        /\ b \in Blocks /\ PayloadLen(block[p]) \in Nat
        /\ PayloadLen(b) = PayloadLen(block[p]) + a
    BY <1>4, ShortBooks, Zenon
  <2>4. w \in FileWriters
    BY <1>6, <2>1
  <2>2. block' = [ block EXCEPT ![p] = b ]
    BY <1>6
  <2> HIDE DEF b
  <2>3. PayloadLen(b) \in Nat /\ PayloadLen(b) >= PayloadLen(block[p])
    BY <2>1
  <2> QED
    BY <1>4, <1>5, <1>6, <2>1, <2>2, <2>3, <2>4, Zenon DEF LeftBehind
<1>7. ASSUME NEW len \in Nat, NEW a \in Cuts(len)
      PROVE  a \in Nat
  BY DEF Cuts
<1>8. ASSUME NEW n \in Sizes, NEW c \in Sizes \cup Compressed, WriteFails(p, n, c)
      PROVE  LeftBehind(p)
  <2> DEFINE h == HeaderOnWrite(file[p], c)
  <2>1. n \in Nat /\ c \in Nat
    OBVIOUS
  <2>2. h \in Nat
    BY <1>4, <2>1, PartLengths
  <2>3. PICK a \in Cuts(h + c) :
          /\ file' = [ file EXCEPT ![p] = WrittenShort(file[p], n, h, a) ]
          /\ block' = [ block EXCEPT ![p] = ArrivedBlock(block[p], h, a) ]
          /\ fh' = fh
    BY <1>3, <1>8 DEF WriteFails
  <2> HIDE DEF h
  <2>4. a \in Nat
    BY <1>7, <2>1, <2>2
  <2> QED
    BY <1>6, <2>1, <2>2, <2>3, <2>4
<1>9. ASSUME NEW d \in {0, 1}, ClosePartFails(p, d)
      PROVE  LeftBehind(p)
  <2> DEFINE h == HeaderOnClose(file[p])
             l == AuthLen(file[p])
  <2>1. h \in Nat /\ l \in Nat
    BY <1>4, PartLengths
  <2>2. PICK a \in Cuts(h + d + l) :
          /\ file' = [ file EXCEPT ![p] = FinishedShort(file[p], a) ]
          /\ block' = [ block EXCEPT ![p] = ArrivedBlock(block[p], h, a) ]
          /\ fh' = fh
    BY <1>3, <1>9 DEF ClosePartFails
  <2> HIDE DEF h, l
  <2>3. a \in Nat
    BY <1>7, <2>1
  <2>4. 0 \in Nat
    OBVIOUS
  <2> QED
    BY <1>6, <2>1, <2>2, <2>3, <2>4
<1>10. ASSUME NEW d \in {0, 1}, DescriptorFails(p, d)
       PROVE  LeftBehind(p)
  <2> DEFINE w == Finished(file[p], d)
             g == UpdatedHeader(fh[p], w)
             e == FinishedBlock(block[p], file[p], g, d)
             b == [ e EXCEPT !.descriptor = <<>> ]
  <2>1. d \in Nat
    OBVIOUS
  <2>0. ASSUME NEW v \in FileWriters, NEW f \in FileHeaders(Methods),
               NEW x \in Blocks, x.descriptor = <<>>
        PROVE  /\ Finished(v, d) \in FileWriters
               /\ FinishedBlock(x, v, f, d) \in Blocks
    BY <2>0, <2>1, FinishedBooks, Zenon
  <2>2. w \in FileWriters
    BY <1>4, <1>12, <2>0
  <2>3. file' = [ file EXCEPT ![p] = w ]
    BY <1>10 DEF DescriptorFails
  <2>4. file'[p] = w
    BY <1>3, <2>3
  <2>5. fh' = [ fh EXCEPT ![p] = g ]
    BY <1>10, <2>4 DEF DescriptorFails
  <2>6. fh'[p] = g
    BY <1>3, <2>5
  <2>7. block' = [ block EXCEPT ![p] = b ]
    <3> HIDE DEF g
    <3>1. block' = [ block EXCEPT ![p] =
                     [ FinishedBlock(block[p], file[p], fh'[p], d)
                         EXCEPT !.descriptor = <<>> ] ]
      BY <1>10 DEF DescriptorFails
    <3> QED
      BY <2>6, <3>1
  <2>8. g \in FileHeaders(Methods)
    <3> HIDE DEF w
    <3> QED
      BY <1>4, <2>2, UpdatedHeaderType
  <2> HIDE DEF g
  <2>9. e \in Blocks
    BY <1>4, <1>12, <2>0, <2>8
  <2>10. PayloadLen(block[p]) \in Nat /\ PayloadLen(e) \in Nat
           /\ PayloadLen(e) >= PayloadLen(block[p])
    BY <1>4, <2>1, GrowingBlock
  <2> HIDE DEF e, w
  <2>11. b \in Blocks /\ PayloadLen(b) = PayloadLen(e)
    BY <2>9, UndescribedBlock
  <2> HIDE DEF b
  <2>12. /\ PayloadLen(block[p]) \in Nat /\ PayloadLen(b) \in Nat
         /\ PayloadLen(b) >= PayloadLen(block[p])
    BY <2>10, <2>11
  <2> QED
    BY <2>2, <2>3, <2>5, <2>7, <2>8, <2>11, <2>12, Zenon DEF LeftBehind
<1>11. ASSUME NEW d \in {0, 1}, CompressorFails(p, d)
       PROVE  LeftBehind(p)
  <2> DEFINE w == Abandoned(file[p], d)
             b == WrittenBlock(block[p], file[p], d)
  <2>1. d \in Nat
    OBVIOUS
  <2>2. w \in FileWriters
    BY <1>4, <2>1, AbandonedBooks
  <2>3. ASSUME NEW v \in FileWriters, NEW e \in Blocks
        PROVE  WrittenBlock(e, v, d) \in Blocks
    BY <2>1, WrittenBooks, Zenon
  <2>4. b \in Blocks
    BY <1>4, <2>3
  <2>5. PayloadLen(block[p]) \in Nat /\ PayloadLen(b) \in Nat
           /\ PayloadLen(b) >= PayloadLen(block[p])
    BY <1>4, <2>1, GrowingBlock
  <2>6. /\ file' = [ file EXCEPT ![p] = w ]
        /\ block' = [ block EXCEPT ![p] = b ]
        /\ fh' = [ fh EXCEPT ![p] = fh[p] ]
    BY <1>5, <1>11 DEF CompressorFails
  <2> HIDE DEF w, b
  <2> QED
    BY <1>4, <2>2, <2>4, <2>5, <2>6 DEF LeftBehind
<1> QED
  BY <1>1, <1>8, <1>9, <1>10, <1>11 DEF Fails

PartActions(p) ==
  \/ \E f \in Initial, n \in Orders, raw \in BOOLEAN : NewPart(p, f, n, raw)
  \/ \E n \in Sizes, c \in Sizes \cup Compressed : Write(p, n, c)
  \/ \E d \in {0, 1} : ClosePart(p, d)
  \/ Fails(p)

LEMMA PartsStep ==
  ASSUME TypeOK, Files, NEW p \in Headers, PartActions(p)
  PROVE  PartsTyped' /\ Files'
<1>1. PartsTyped
  BY TypeParts
<1>2. ASSUME NEW f \in Initial, NEW n \in Orders, NEW raw \in BOOLEAN,
             NewPart(p, f, n, raw)
      PROVE  PartsTyped' /\ Files'
  <2>1. f \in FileHeaders(Methods) /\ f.method \in Methods /\ n \in Int
    BY DEF FileHeaders
  <2>2. PreparedHeader(f, raw) \in FileHeaders(Methods)
    BY <2>1, PreparedHeaderType
  <2>3. /\ fh' = [ fh EXCEPT ![p] = PreparedHeader(f, raw) ]
        /\ order' = [ order EXCEPT ![p] = n ] /\ given' = given
    BY <1>2 DEF NewPart
  <2>4. CASE /\ part' = [ part EXCEPT ![p] = "made" ]
             /\ file' = [ file EXCEPT ![p] = NewFileWriter(p, f, raw) ]
             /\ block' = [ block EXCEPT ![p] = NewBlock(fh'[p], f.method, 0) ]
    <3>1. NewFileWriter(p, f, raw) \in FileWriters
      BY <2>1, NewFileWriterType
    <3>2. fh'[p] = PreparedHeader(f, raw)
      BY <1>1, <2>3 DEF PartsTyped
    <3>3. NewBlock(fh'[p], f.method, 0) \in Blocks
            /\ NewBlock(fh'[p], f.method, 0).descriptor = <<>>
      BY <2>1, <2>2, <3>2, NewBlockType
    <3>4. PartsTyped'
      BY <1>1, <2>1, <2>2, <2>3, <2>4, <3>1, <3>3 DEF PartsTyped, PartStates
    <3>5. Files'
      BY <1>1, <2>4, <3>1, <3>3 DEF PartsTyped, Files
    <3> QED
      BY <3>4, <3>5
  <2>5. CASE part' = [ part EXCEPT ![p] = "failed" ]
               /\ file' = file /\ block' = block
    <3>1. PartsTyped'
      BY <1>1, <2>1, <2>2, <2>3, <2>5 DEF PartsTyped, PartStates
    <3>2. Files'
      BY <1>1, <2>5 DEF PartsTyped, Files
    <3> QED
      BY <3>1, <3>2
  <2> QED
    BY <1>2, <2>4, <2>5 DEF NewPart
<1>3. ASSUME NEW n \in Sizes, NEW c \in Sizes \cup Compressed, Write(p, n, c)
      PROVE  PartsTyped' /\ Files'
  <2>1. n \in Nat /\ c \in Nat
    OBVIOUS
  <2>2. part[p] = "open"
    BY <1>3 DEF Write
  <2>3. file[p] \in FileWriters /\ block[p] \in Blocks
          /\ block[p].descriptor = <<>>
    BY <2>2, OpenPart
  <2>4. ASSUME NEW w \in FileWriters, NEW e \in Blocks
        PROVE  /\ Written(w, n, c) \in FileWriters
               /\ Written(w, n, c).closed = w.closed
               /\ WrittenBlock(e, w, c) \in Blocks
               /\ WrittenBlock(e, w, c).at = e.at
               /\ WrittenBlock(e, w, c).descriptor = e.descriptor
               /\ BlockLen(WrittenBlock(e, w, c)) - BlockLen(e)
                    = Written(w, n, c).compCount - w.compCount
               /\ Written(w, n, c).compCount - w.compCount \in Nat
    BY <2>1, WrittenBooks, Zenon
  <2>5. /\ file' = [ file EXCEPT ![p] = Written(file[p], n, c) ]
        /\ block' = [ block EXCEPT ![p] = WrittenBlock(block[p], file[p], c) ]
        /\ UNCHANGED <<fh, order, part, given>>
    BY <1>3 DEF Write
  <2>6. /\ Written(file[p], n, c) \in FileWriters
        /\ WrittenBlock(block[p], file[p], c) \in Blocks
        /\ WrittenBlock(block[p], file[p], c).descriptor = <<>>
    BY <2>3, <2>4
  <2>7. PartsTyped'
    BY <1>1, <2>5, <2>6 DEF PartsTyped
  <2>8. Files'
    BY <1>1, <2>5, <2>6 DEF PartsTyped, Files
  <2> QED
    BY <2>7, <2>8
<1>4. ASSUME NEW d \in {0, 1}, ClosePart(p, d)
      PROVE  PartsTyped' /\ Files'
  <2>1. part[p] = "open" /\ d \in Nat
    BY <1>4 DEF ClosePart
  <2>2. file[p] \in FileWriters /\ block[p] \in Blocks
          /\ block[p].descriptor = <<>> /\ fh[p] \in FileHeaders(Methods)
    BY <1>1, <2>1, OpenPart DEF PartsTyped
  <2> DEFINE fw == Finished(file[p], d)
             f  == UpdatedHeader(fh[p], fw)
             b  == FinishedBlock(block[p], file[p], f, d)
  <2>3. fw \in FileWriters
    BY <2>1, <2>2, FinishedBooks
  <2>4. f \in FileHeaders(Methods)
    BY <2>2, <2>3, UpdatedHeaderType
  <2>5. /\ file' = [ file EXCEPT ![p] = fw ]
        /\ part' = [ part EXCEPT ![p] = "closed" ]
        /\ UNCHANGED <<order, given>>
    BY <1>4 DEF ClosePart
  <2>6. fh' = [ fh EXCEPT ![p] = f ]
    BY <1>1, <1>4, <2>5 DEF ClosePart, PartsTyped
  <2>7. block' = [ block EXCEPT ![p] = b ]
    BY <1>1, <1>4, <2>6 DEF ClosePart, PartsTyped
  <2> HIDE DEF f
  <2>8. b \in Blocks
    BY <2>1, <2>2, <2>4, FinishedBooks
  <2> HIDE DEF fw, b
  <2>9. PartsTyped'
    BY <1>1, <2>3, <2>4, <2>5, <2>6, <2>7, <2>8 DEF PartsTyped, PartStates
  <2>10. Files'
    BY <1>1, <2>5, <2>7 DEF PartsTyped, Files
  <2> QED
    BY <2>9, <2>10
<1>5. ASSUME Fails(p)
      PROVE  PartsTyped' /\ Files'
  <2>1. PICK g \in FileHeaders(Methods), w \in FileWriters, b \in Blocks :
          /\ fh' = [ fh EXCEPT ![p] = g ]
          /\ file' = [ file EXCEPT ![p] = w ]
          /\ block' = [ block EXCEPT ![p] = b ]
    BY <1>5, FailsEffect DEF LeftBehind
  <2>2. part' = [ part EXCEPT ![p] = "failed" ] /\ UNCHANGED <<order, given>>
    BY <1>5, FailsEffect DEF GivenUp
  <2>3. PartsTyped'
    BY <1>1, <2>1, <2>2 DEF PartsTyped, PartStates
  <2>4. Files'
    BY <1>1, <2>1, <2>2 DEF PartsTyped, Files
  <2> QED
    BY <2>3, <2>4
<1> QED
  BY <1>2, <1>3, <1>4, <1>5 DEF PartActions

-----------------------------------------------------------------------------
(* Every step is one of these; the generator's own steps touch no part.    *)
Adds(p) ==
  \E f \in Built, n \in Orders, at \in Explicit : AddFileWithOffset(p, f, n, at)

LEMMA StepCases ==
  ASSUME Next
  PROVE  \/ \E p \in Headers : PartActions(p) \/ Register(p) \/ Adds(p)
         \/ CallClose \/ CallGet \/ ShortenComments
         \/ \E c \in Callers : Generate(c)
BY DEF Next, PartActions, Fails, Adds

LEMMA PartsLeave ==
  ASSUME NEW p \in Headers, PartActions(p)
  PROVE  UNCHANGED <<dir, log, generator, pc, closed, cd>>
BY DEF PartActions, NewPart, Write, ClosePart, Fails, WriteFails, ClosePartFails,
       DescriptorFails, CompressorFails, GivenUp

LEMMA CallersLeave ==
  ASSUME \/ CallClose \/ CallGet \/ \E c \in Callers : Generate(c)
  PROVE  UNCHANGED parts /\ log' = log
BY DEF CallClose, CallGet, Generate, Lock, SortDir, Place, PlaceEnds, Encode,
       EncodeFails

LEMMA TypeStep ==
  ASSUME TypeOK, Files, Next
  PROVE  TypeOK' /\ Files'
<1>1. PartsTyped /\ DirectoryTyped /\ CallsTyped
  BY TypeParts
<1> SUFFICES (PartsTyped' /\ DirectoryTyped' /\ CallsTyped') /\ Files'
  BY DEF TypeOK, PartsTyped, DirectoryTyped, CallsTyped
<1>2. ASSUME NEW p \in Headers, PartActions(p)
      PROVE  (PartsTyped' /\ DirectoryTyped' /\ CallsTyped') /\ Files'
  <2>1. PartsTyped' /\ Files'
    BY <1>2, PartsStep
  <2>2. UNCHANGED <<dir, log, generator, pc, closed, cd>>
    BY <1>2, PartsLeave
  <2>3. DirectoryTyped' /\ CallsTyped'
    BY <1>1, <2>2 DEF DirectoryTyped, CallsTyped, generator
  <2> QED
    BY <2>1, <2>3
<1>3. ASSUME NEW p \in Headers, Register(p)
      PROVE  (PartsTyped' /\ DirectoryTyped' /\ CallsTyped') /\ Files'
  <2>1. Registered(p, 0) /\ UNCHANGED <<fh, order, file, block, given>>
        /\ UNCHANGED <<generator, pc, closed, cd>>
        /\ part[p] = "made" /\ part' = [ part EXCEPT ![p] = "open" ]
    BY <1>3 DEF Register
  <2>2. 0 \in Nat
    OBVIOUS
  <2>3. /\ dir' \in Seq(Entries) /\ log' \in Seq(Headers)
        /\ Len(dir') = Len(dir) + 1 /\ Len(dir) \in Nat
    BY <2>1, <2>2, RegisteredEffect
  <2>4. PartsTyped' /\ CallsTyped'
    BY <1>1, <2>1 DEF PartsTyped, CallsTyped, generator, PartStates
  <2>5. DirectoryTyped'
    BY <1>1, <2>1, <2>3 DEF DirectoryTyped, generator
  <2>6. Files'
    BY <1>1, <2>1 DEF Files, PartsTyped
  <2> QED
    BY <2>4, <2>5, <2>6
<1>4. ASSUME NEW p \in Headers, NEW f \in Built, NEW n \in Orders,
             NEW at \in Explicit, AddFileWithOffset(p, f, n, at)
      PROVE  (PartsTyped' /\ DirectoryTyped' /\ CallsTyped') /\ Files'
  <2>1. /\ Registered(p, at)
        /\ fh' = [ fh EXCEPT ![p] = f ] /\ order' = [ order EXCEPT ![p] = n ]
        /\ given' = [ given EXCEPT ![p] = at ]
        /\ part' = [ part EXCEPT ![p] = "added" ]
        /\ UNCHANGED <<file, block, generator, pc, closed, cd>>
    BY <1>4 DEF AddFileWithOffset
  <2>2. at \in Nat /\ f \in FileHeaders(Methods) /\ n \in Int
    OBVIOUS
  <2>3. /\ dir' \in Seq(Entries) /\ log' \in Seq(Headers)
        /\ Len(dir') = Len(dir) + 1 /\ Len(dir) \in Nat
    BY <2>1, <2>2, RegisteredEffect
  <2>4. PartsTyped' /\ CallsTyped'
    BY <1>1, <2>1, <2>2 DEF PartsTyped, CallsTyped, generator, PartStates
  <2>5. DirectoryTyped'
    BY <1>1, <2>1, <2>3 DEF DirectoryTyped, generator
  <2>6. Files'
    BY <1>1, <2>1 DEF Files, PartsTyped
  <2> QED
    BY <2>4, <2>5, <2>6
<1>5. CASE CallClose \/ CallGet
  <2>1. PartsTyped' /\ Files'
    BY <1>1, <1>5 DEF CallClose, CallGet, parts, PartsTyped, Files
  <2>2. DirectoryTyped'
    BY <1>1, <1>5 DEF CallClose, CallGet, generator, DirectoryTyped
  <2>3. CallsTyped'
    <3>1. pc' \in [Callers -> CallStates] /\ lock' = lock
      BY <1>1, <1>5 DEF CallClose, CallGet, generator, CallsTyped, CallStates
    <3>2. closed' \in BOOLEAN
      BY <1>1, <1>5 DEF CallClose, CallGet, CallsTyped
    <3> QED
      BY <1>1, <3>1, <3>2 DEF CallsTyped
  <2> QED
    BY <2>1, <2>2, <2>3
<1>6. CASE ShortenComments
  <2>1. \A p \in Headers :
          [ fh[p] EXCEPT !.comment = 0 ] \in FileHeaders(Methods)
    BY <1>1 DEF PartsTyped, FileHeaders
  <2>2. fh' \in [Headers -> FileHeaders(Methods)]
    BY <1>1, <1>6, <2>1 DEF ShortenComments, PartsTyped
  <2>3. PartsTyped' /\ Files'
    BY <1>1, <1>6, <2>2 DEF ShortenComments, PartsTyped, Files
  <2>4. DirectoryTyped' /\ CallsTyped'
    BY <1>1, <1>6 DEF ShortenComments, DirectoryTyped, CallsTyped, generator,
                      CallStates
  <2> QED
    BY <2>3, <2>4
<1>7. ASSUME NEW c \in Callers, Generate(c)
      PROVE  (PartsTyped' /\ DirectoryTyped' /\ CallsTyped') /\ Files'
  <2>1. UNCHANGED parts /\ log' = log
    BY <1>7, CallersLeave
  <2>2. PartsTyped' /\ Files'
    BY <1>1, <2>1 DEF parts, PartsTyped, Files
  <2>3. DirectoryTyped'
    <3>1. CASE SortDir(c)
      <4>1. dir' \in Seq(Entries) /\ Len(dir') = Len(dir)
        BY <3>1, SortDirEffect
      <4>2. placed' = 0 /\ offset' = 0
        BY <3>1 DEF SortDir
      <4>3. Len(dir) \in Nat
        BY <1>1 DEF DirectoryTyped
      <4> QED
        BY <1>1, <2>1, <4>1, <4>2, <4>3 DEF DirectoryTyped
    <3>2. CASE Place(c)
      <4>1. dir' \in Seq(Entries) /\ Len(dir') = Len(dir) /\ offset' \in Nat
        BY <3>2, PlaceEffect
      <4>2. placed' = placed + 1 /\ placed < Len(dir)
        BY <3>2 DEF Place
      <4>3. Len(dir) \in Nat
        BY <1>1 DEF DirectoryTyped
      <4> QED
        BY <1>1, <2>1, <4>1, <4>2, <4>3 DEF DirectoryTyped
    <3>3. CASE Lock(c) \/ PlaceEnds(c) \/ Encode(c) \/ EncodeFails(c)
      BY <1>1, <3>3 DEF Lock, PlaceEnds, Encode, EncodeFails, generator,
                        DirectoryTyped
    <3> QED
      BY <1>7, <3>1, <3>2, <3>3 DEF Generate
  <2>4. CallsTyped'
    BY <1>1, <1>7 DEF Generate, Lock, SortDir, Place, PlaceEnds, Encode,
       EncodeFails, generator, CallsTyped, CallStates
  <2> QED
    BY <2>2, <2>3, <2>4
<1> QED
  BY StepCases, <1>2, <1>3, <1>4, <1>5, <1>6, <1>7 DEF Adds

-----------------------------------------------------------------------------
Rest == Calls /\ Listed /\ Stable /\ SortedOnce

PartSteps(p) == PartActions(p) \/ Register(p) \/ Adds(p)

LEMMA RestInit == Init => Rest
<1> SUFFICES ASSUME Init
             PROVE  Rest
  OBVIOUS
<1>1. /\ dir = <<>> /\ log = <<>> /\ lock = "free" /\ cd = <<>>
      /\ Len(dir) = 0 /\ Len(log) = 0
      /\ \A c \in Callers : pc[c] = "idle"
      /\ \A p \in Headers : part[p] = "new"
  BY DEF Init
<1>2. Calls
  BY <1>1 DEF Calls, Exclusive, Frozen, Published, Callers
<1>3. Listed
  BY <1>1 DEF Listed, InLog, InDir
<1>4. Stable /\ SortedOnce
  BY <1>1 DEF Stable, SortedOnce
<1> QED
  BY <1>2, <1>3, <1>4 DEF Rest

(* No goroutine has a part to write any more when a call is made: parts    *)
(* only move while nobody has called for the directory.                    *)
LEMMA PartsMoveEarly ==
  ASSUME TypeOK, Calls, NEW p \in Headers, PartSteps(p)
  PROVE  /\ \A c \in Callers : pc[c] \in {"idle", "again"}
         /\ lock = "free" /\ cd = <<>>
         /\ UNCHANGED <<generator, pc, closed, cd>>
<1>1. Creating \/ part[p] \in {"made", "open"}
  BY DEF PartSteps, PartActions, Adds, NewPart, Register, AddFileWithOffset,
         Write, ClosePart, Fails, WriteFails, ClosePartFails, DescriptorFails,
         CompressorFails, GivenUp
<1>2. \A c \in Callers : pc[c] \in {"idle", "again"}
  BY <1>1 DEF Creating, Calls, Frozen, Complete
<1>3. UNCHANGED <<generator, pc, closed, cd>>
  BY DEF PartSteps, PartActions, Adds, NewPart, Register, AddFileWithOffset,
         Write, ClosePart, Fails, WriteFails, ClosePartFails, DescriptorFails,
         CompressorFails, GivenUp
<1>4. lock = "free"
  BY <1>2 DEF TypeOK, Calls, Exclusive
<1>5. cd = <<>>
  BY <1>2 DEF Calls, Published, Callers
<1> QED
  BY <1>2, <1>3, <1>4, <1>5

(* The generator reorders the entries and fills in their offsets; it never *)
(* adds or drops one.                                                      *)
LEMMA SameEntries ==
  ASSUME TypeOK, CallClose \/ CallGet \/ ShortenComments
                 \/ \E c \in Callers : Generate(c)
  PROVE  /\ Len(dir') = Len(dir)
         /\ \A i \in 1 .. Len(dir') :
              \E j \in 1 .. Len(dir) : dir'[i].fh = dir[j].fh
         /\ \A i \in 1 .. Len(dir) :
              \E j \in 1 .. Len(dir') : dir'[j].fh = dir[i].fh
         /\ part' = part /\ order' = order /\ log' = log
<1>1. part' = part /\ order' = order /\ log' = log
  BY CallersLeave DEF ShortenComments, parts
<1>2. CASE dir' = dir
  BY <1>1, <1>2
<1>3. ASSUME NEW c \in Callers, SortDir(c)
      PROVE  /\ Len(dir') = Len(dir)
             /\ \A i \in 1 .. Len(dir') :
                  \E j \in 1 .. Len(dir) : dir'[i].fh = dir[j].fh
             /\ \A i \in 1 .. Len(dir) :
                  \E j \in 1 .. Len(dir') : dir'[j].fh = dir[i].fh
  <2>1. PICK q \in Permutation(Len(dir)) :
          /\ Len(dir') = Len(dir)
          /\ \A k \in 1 .. Len(dir) : dir'[k] = dir[q[k]]
    BY <1>3, SortDirEffect
  <2>2. \A k \in 1 .. Len(dir) :
          q[k] \in 1 .. Len(dir) /\ \E i \in 1 .. Len(dir) : q[i] = k
    BY DEF Permutation
  <2>3. \A k \in 1 .. Len(dir) : dir'[k].fh = dir[q[k]].fh
    BY <2>1
  <2>4. ASSUME NEW i \in 1 .. Len(dir)
        PROVE  \E j \in 1 .. Len(dir) : dir'[j].fh = dir[i].fh
    <3>1. PICK j \in 1 .. Len(dir) : q[j] = i
      BY <2>2
    <3>2. dir'[j].fh = dir[i].fh
      BY <2>3, <3>1
    <3> QED
      BY <3>2
  <2>5. \A i \in 1 .. Len(dir) :
          \E j \in 1 .. Len(dir) : dir'[i].fh = dir[j].fh
    BY <2>2, <2>3
  <2> QED
    BY <2>1, <2>4, <2>5
<1>4. ASSUME NEW c \in Callers, Place(c)
      PROVE  /\ Len(dir') = Len(dir)
             /\ \A k \in 1 .. Len(dir) : dir'[k].fh = dir[k].fh
  BY <1>4, PlaceEffect
<1>5. dir' = dir \/ \E c \in Callers : SortDir(c) \/ Place(c)
  BY DEF CallClose, CallGet, ShortenComments, Generate, Lock, PlaceEnds,
         Encode, EncodeFails
<1> QED
  BY <1>1, <1>2, <1>3, <1>4, <1>5

LEMMA CompleteStays ==
  ASSUME TypeOK, Complete,
         CallClose \/ CallGet \/ ShortenComments
           \/ \E c \in Callers : Generate(c)
  PROVE  Complete'
BY SameEntries DEF Complete

LEMMA CallsStep ==
  ASSUME TypeOK, Calls, Next
  PROVE  Calls'
<1>1. Exclusive /\ Frozen /\ Published
  BY DEF Calls
<1>2. pc \in [Callers -> CallStates] /\ Callers = {"Close", "GetCentralDirectoryBytes"}
        /\ "free" \notin Callers
  BY DEF TypeOK, Callers
<1>3. ASSUME NEW p \in Headers, PartSteps(p)
      PROVE  Calls'
  <2>1. /\ \A c \in Callers : pc[c] \in {"idle", "again"}
        /\ lock = "free" /\ cd = <<>>
        /\ UNCHANGED <<generator, pc, closed, cd>>
    BY <1>3, PartsMoveEarly
  <2> QED
    BY <1>1, <2>1 DEF Calls, Exclusive, Frozen, Published, generator
<1>4. CASE CallClose
  <2>1. /\ Complete /\ pc["Close"] # "called" /\ lock # "Close"
        /\ closed' = TRUE /\ lock' = lock /\ cd' = cd
        /\ pc' = [ pc EXCEPT !["Close"] = IF closed THEN "failed" ELSE "called" ]
    BY <1>4 DEF CallClose, generator
  <2>2. Complete'
    BY <1>4, <2>1, CompleteStays
  <2>3. Exclusive'
    BY <1>1, <1>2, <2>1 DEF Exclusive
  <2>4. Published'
    BY <1>1, <1>2, <2>1 DEF Published
  <2> QED
    BY <2>2, <2>3, <2>4 DEF Calls, Frozen
<1>5. CASE CallGet
  <2>1. /\ Complete /\ pc["GetCentralDirectoryBytes"] \in {"idle", "again", "returned"}
        /\ closed' = closed /\ lock' = lock /\ cd' = cd
        /\ pc' = [ pc EXCEPT !["GetCentralDirectoryBytes"] = "called" ]
    BY <1>5 DEF CallGet, generator
  <2>2. Complete'
    BY <1>5, <2>1, CompleteStays
  <2>3. Exclusive'
    BY <1>1, <1>2, <2>1 DEF Exclusive
  <2>4. Published'
    BY <1>1, <1>2, <2>1 DEF Published
  <2> QED
    BY <2>2, <2>3, <2>4 DEF Calls, Frozen
<1>6. CASE ShortenComments
  <2>1. /\ \A c \in Callers : pc[c] \in {"idle", "failed"}
        /\ pc["GetCentralDirectoryBytes"] = "failed"
        /\ closed' = closed /\ lock' = lock /\ cd' = cd
        /\ pc' = [ pc EXCEPT !["GetCentralDirectoryBytes"] = "again" ]
    BY <1>6 DEF ShortenComments, generator
  <2>2. Complete'
    BY <1>1, <1>2, <1>6, <2>1, CompleteStays DEF Frozen
  <2>3. Exclusive'
    BY <1>1, <1>2, <2>1 DEF Exclusive
  <2>4. Published'
    BY <1>1, <1>2, <2>1 DEF Published
  <2> QED
    BY <2>2, <2>3, <2>4 DEF Calls, Frozen
<1>7. ASSUME NEW c \in Callers, Generate(c)
      PROVE  Calls'
  <2>1. pc[c] \in {"called", "sort", "place", "encode"} /\ closed' = closed
    BY <1>7 DEF Generate, Lock, SortDir, Place, PlaceEnds, Encode, EncodeFails
  <2>2. Complete'
    BY <1>1, <1>7, <2>1, CompleteStays DEF Frozen
  <2>3. CASE Lock(c)
    <3>1. CASE cd # <<>>
      <4>1. /\ pc[c] = "called" /\ lock = "free" /\ lock' = lock /\ cd' = cd
            /\ pc' = [ pc EXCEPT ![c] = "returned" ]
        BY <2>3, <3>1 DEF Lock
      <4>2. Exclusive'
        BY <1>1, <1>2, <4>1 DEF Exclusive
      <4>3. Published'
        BY <1>1, <1>2, <2>1, <4>1 DEF Published
      <4> QED
        BY <2>2, <4>2, <4>3 DEF Calls, Frozen
    <3>2. CASE cd = <<>>
      <4>1. /\ pc[c] = "called" /\ lock = "free" /\ lock' = c /\ cd' = cd
            /\ pc' = [ pc EXCEPT ![c] = "sort" ]
        BY <2>3, <3>2 DEF Lock
      <4>2. Exclusive'
        BY <1>1, <1>2, <4>1 DEF Exclusive
      <4>3. Published'
        BY <1>1, <1>2, <2>1, <3>2, <4>1 DEF Published
      <4> QED
        BY <2>2, <4>2, <4>3 DEF Calls, Frozen
    <3> QED
      BY <3>1, <3>2
  <2>4. CASE SortDir(c) \/ Place(c) \/ PlaceEnds(c)
    <3>1. /\ pc[c] \in {"sort", "place"} /\ lock' = lock /\ cd' = cd
          /\ \/ pc' = pc
             \/ pc' = [ pc EXCEPT ![c] = "place" ]
             \/ pc' = [ pc EXCEPT ![c] = "encode" ]
      BY <2>4 DEF SortDir, Place, PlaceEnds, generator
    <3>2. lock = c /\ cd = <<>>
      BY <1>1, <1>2, <3>1 DEF Exclusive, Published
    <3>3. Exclusive'
      BY <1>1, <1>2, <3>1, <3>2 DEF Exclusive
    <3>4. Published'
      BY <1>1, <1>2, <2>1, <3>1, <3>2 DEF Published
    <3> QED
      BY <2>2, <3>3, <3>4 DEF Calls, Frozen
  <2>5. CASE Encode(c)
    <3>1. /\ pc[c] = "encode" /\ lock' = "free"
          /\ pc' = [ pc EXCEPT ![c] = "returned" ]
      BY <2>5 DEF Encode
    <3>2. lock = c
      BY <1>1, <3>1 DEF Exclusive
    <3>3. Exclusive'
      BY <1>1, <1>2, <3>1, <3>2 DEF Exclusive
    <3>4. Published'
      BY <1>1, <1>2, <2>1, <3>1 DEF Published
    <3> QED
      BY <2>2, <3>3, <3>4 DEF Calls, Frozen
  <2>6. CASE EncodeFails(c)
    <3>1. /\ pc[c] = "encode" /\ lock' = "free" /\ cd' = cd
          /\ pc' = [ pc EXCEPT ![c] = "failed" ]
      BY <2>6 DEF EncodeFails
    <3>2. lock = c /\ cd = <<>>
      BY <1>1, <1>2, <3>1 DEF Exclusive, Published
    <3>3. Exclusive'
      BY <1>1, <1>2, <3>1, <3>2 DEF Exclusive
    <3>4. Published'
      BY <1>1, <1>2, <2>1, <3>1, <3>2 DEF Published
    <3> QED
      BY <2>2, <3>3, <3>4 DEF Calls, Frozen
  <2> QED
    BY <1>7, <2>3, <2>4, <2>5, <2>6 DEF Generate
<1> QED
  BY StepCases, <1>3, <1>4, <1>5, <1>6, <1>7 DEF PartSteps

-----------------------------------------------------------------------------
(* The order of the directory.                                             *)

(* A step of a part that is not yet registered, or of one that is.         *)
LEMMA PartEffect ==
  ASSUME TypeOK, NEW p \in Headers, PartActions(p)
  PROVE  /\ dir' = dir /\ log' = log
         /\ \A r \in Headers : r # p => part'[r] = part[r] /\ order'[r] = order[r]
         /\ \/ part[p] = "new" /\ part'[p] \in {"made", "failed"}
            \/ /\ part[p] = "open" /\ part'[p] \in {"open", "closed", "failed"}
               /\ order' = order
<1>1. PartsTyped
  BY TypeParts
<1> QED
  BY <1>1 DEF PartsTyped, PartActions, NewPart, Write, ClosePart,
          Fails, WriteFails, ClosePartFails, DescriptorFails, CompressorFails,
          GivenUp

(* Registering puts a part at the end of the directory and of the log.     *)
LEMMA RegisterEffect ==
  ASSUME TypeOK, NEW p \in Headers, Register(p) \/ Adds(p)
  PROVE  /\ Len(dir') = Len(dir) + 1 /\ Len(log') = Len(log) + 1
         /\ Len(dir) \in Nat /\ Len(log) \in Nat
         /\ \A k \in 1 .. Len(dir) : dir'[k].fh = dir[k].fh
         /\ \A k \in 1 .. Len(log) : log'[k] = log[k]
         /\ dir'[Len(dir) + 1].fh = p /\ log'[Len(log) + 1] = p
         /\ part[p] \in {"new", "made"} /\ part'[p] \in {"open", "added"}
         /\ \A r \in Headers : r # p => part'[r] = part[r] /\ order'[r] = order[r]
<1>1. PartsTyped
  BY TypeParts
<1>2. PICK at \in Nat : Registered(p, at)
  <2>1. 0 \in Nat
    OBVIOUS
  <2> QED
    BY <2>1 DEF Register, Adds, AddFileWithOffset
<1>3. /\ Len(dir') = Len(dir) + 1 /\ Len(log') = Len(log) + 1
      /\ Len(dir) \in Nat /\ Len(log) \in Nat
      /\ \A k \in 1 .. Len(dir) : dir'[k] = dir[k]
      /\ \A k \in 1 .. Len(log) : log'[k] = log[k]
      /\ dir'[Len(dir) + 1].fh = p /\ log'[Len(log) + 1] = p
  BY <1>2, RegisteredEffect
<1>4. /\ part[p] \in {"new", "made"} /\ part'[p] \in {"open", "added"}
      /\ \A r \in Headers : r # p => part'[r] = part[r] /\ order'[r] = order[r]
  BY <1>1 DEF PartsTyped, Register, Adds, AddFileWithOffset
<1> QED
  BY <1>3, <1>4

(* What stands in the directory and in the log are parts.                  *)
LEMMA OfParts ==
  ASSUME TypeOK
  PROVE  /\ Len(dir) \in Nat /\ Len(log) \in Nat
         /\ \A i \in 1 .. Len(dir) : dir[i].fh \in Headers
         /\ \A k \in 1 .. Len(log) : log[k] \in Headers
         /\ \A p \in Headers : order[p] \in Int
<1>1. dir \in Seq(Entries) /\ log \in Seq(Headers)
  BY DEF TypeOK
<1>2. \A i \in 1 .. Len(dir) : dir[i] \in Entries
  BY <1>1
<1>3. \A i \in 1 .. Len(dir) : dir[i].fh \in Headers
  BY <1>2 DEF Entries
<1>4. \A k \in 1 .. Len(log) : log[k] \in Headers
  BY <1>1
<1>5. \A p \in Headers : order[p] \in Int
  BY DEF TypeOK
<1> QED
  BY <1>1, <1>3, <1>4, <1>5

(* The generator moves entries, and the parts of equal order with them.    *)
LEMMA GeneratorMoves ==
  ASSUME TypeOK, CallClose \/ CallGet \/ ShortenComments
                 \/ \E c \in Callers : Generate(c)
  PROVE  \E q \in Permutation(Len(dir)) :
           /\ \A k \in 1 .. Len(dir) : dir'[k].fh = dir[q[k]].fh
           /\ \/ \A k \in 1 .. Len(dir) : q[k] = k
              \/ /\ \E c \in Callers : SortDir(c)
                 /\ \A i, j \in 1 .. Len(dir) : i < j => Before(q[i], q[j])
<1>1. CASE \E c \in Callers : SortDir(c)
  BY <1>1, SortDirEffect
<1>2. CASE ~ \E c \in Callers : SortDir(c)
  <2>1. dir' = dir \/ \E c \in Callers : Place(c)
    BY <1>2 DEF CallClose, CallGet, ShortenComments, Generate, Lock, PlaceEnds,
                Encode, EncodeFails
  <2>2. \A k \in 1 .. Len(dir) : dir'[k].fh = dir[k].fh
    BY <2>1, PlaceEffect
  <2> DEFINE id == [ k \in 1 .. Len(dir) |-> k ]
  <2>3. id \in Permutation(Len(dir))
    BY DEF Permutation
  <2>4. \A k \in 1 .. Len(dir) : id[k] = k
    OBVIOUS
  <2> HIDE DEF id
  <2> QED
    BY <2>2, <2>3, <2>4
<1> QED
  BY <1>1, <1>2

LEMMA ListedStep ==
  ASSUME TypeOK, Listed, Next
  PROVE  Listed'
<1>1. /\ Len(dir) \in Nat /\ Len(log) \in Nat
      /\ \A i \in 1 .. Len(dir) : dir[i].fh \in Headers
      /\ \A k \in 1 .. Len(log) : log[k] \in Headers
      /\ \A r \in Headers : order[r] \in Int
  BY OfParts
<1>2. ASSUME NEW p \in Headers, PartActions(p)
      PROVE  Listed'
  <2>1. /\ dir' = dir /\ log' = log
        /\ \A r \in Headers : r # p => part'[r] = part[r]
        /\ \/ part[p] = "new" /\ part'[p] \in {"made", "failed"}
           \/ part[p] = "open" /\ part'[p] \in {"open", "closed", "failed"}
    BY <1>2, PartEffect
  <2> QED
    BY <2>1 DEF Listed, InLog, InDir
<1>3. ASSUME NEW p \in Headers, Register(p) \/ Adds(p)
      PROVE  Listed'
  <2>1. /\ Len(dir') = Len(dir) + 1 /\ Len(log') = Len(log) + 1
        /\ \A k \in 1 .. Len(dir) : dir'[k].fh = dir[k].fh
        /\ \A k \in 1 .. Len(log) : log'[k] = log[k]
        /\ dir'[Len(dir) + 1].fh = p /\ log'[Len(log) + 1] = p
        /\ part[p] \in {"new", "made"} /\ part'[p] \in {"open", "added"}
        /\ \A r \in Headers : r # p => part'[r] = part[r]
    BY <1>3, RegisterEffect
  <2>2. ~InLog(p) /\ ~InDir(p)
    BY <2>1 DEF Listed
  <2>3. \A r \in Headers : (InLog(r))' <=> InLog(r) \/ r = p
    BY SMTT(30), <1>1, <2>1 DEF InLog
  <2>4. \A r \in Headers : (InDir(r))' <=> InDir(r) \/ r = p
    BY <1>1, <2>1 DEF InDir
  <2>5. \A k, l \in 1 .. Len(log') : log'[k] = log'[l] => k = l
    BY <1>1, <2>1, <2>2 DEF Listed, InLog
  <2>6. \A i, j \in 1 .. Len(dir') : dir'[i].fh = dir'[j].fh => i = j
    BY <1>1, <2>1, <2>2 DEF Listed, InDir
  <2> QED
    BY <2>1, <2>3, <2>4, <2>5, <2>6 DEF Listed
<1>4. CASE \/ CallClose \/ CallGet \/ ShortenComments
           \/ \E c \in Callers : Generate(c)
  <2>1. PICK q \in Permutation(Len(dir)) :
          /\ \A k \in 1 .. Len(dir) : dir'[k].fh = dir[q[k]].fh
          /\ \/ \A k \in 1 .. Len(dir) : q[k] = k
             \/ \A i, j \in 1 .. Len(dir) : i < j => Before(q[i], q[j])
    BY <1>4, GeneratorMoves
  <2>2. /\ Len(dir') = Len(dir) /\ part' = part /\ log' = log
        /\ \A r \in Headers : (InDir(r))' <=> InDir(r)
        /\ \A r \in Headers : (InLog(r))' <=> InLog(r)
    BY <1>4, SameEntries DEF InDir, InLog
  <2>3. \A k \in 1 .. Len(dir) : q[k] \in 1 .. Len(dir)
    BY DEF Permutation
  <2>4. \A i, j \in 1 .. Len(dir) : i < j => q[i] # q[j]
    BY SMTT(30), <1>1, <2>1, <2>3 DEF Before
  <2>5. \A i, j \in 1 .. Len(dir) : i < j => dir'[i].fh # dir'[j].fh
    BY <2>1, <2>3, <2>4 DEF Listed
  <2>6. \A i, j \in 1 .. Len(dir') : dir'[i].fh = dir'[j].fh => i = j
    BY <1>1, <2>2, <2>5
  <2> QED
    BY <2>2, <2>6 DEF Listed
<1> QED
  BY StepCases, <1>2, <1>3, <1>4

LEMMA StableStep ==
  ASSUME TypeOK, Listed, Stable, Next
  PROVE  Stable'
<1>1. /\ Len(dir) \in Nat /\ Len(log) \in Nat
      /\ \A i \in 1 .. Len(dir) : dir[i].fh \in Headers
      /\ \A k \in 1 .. Len(log) : log[k] \in Headers
      /\ \A r \in Headers : order[r] \in Int
  BY OfParts
<1>2. ASSUME NEW p \in Headers, PartActions(p)
      PROVE  Stable'
  <2>1. /\ dir' = dir /\ log' = log
        /\ \A r \in Headers : r # p => order'[r] = order[r]
        /\ part[p] = "new" \/ order' = order
    BY <1>2, PartEffect
  <2>2. \A i \in 1 .. Len(dir) : order'[dir[i].fh] = order[dir[i].fh]
    BY <1>1, <2>1 DEF Listed, InDir
  <2> QED
    BY <1>1, <2>1, <2>2 DEF Stable
<1>3. ASSUME NEW p \in Headers, Register(p) \/ Adds(p)
      PROVE  Stable'
  <2>1. /\ Len(dir') = Len(dir) + 1 /\ Len(log') = Len(log) + 1
        /\ \A k \in 1 .. Len(dir) : dir'[k].fh = dir[k].fh
        /\ \A k \in 1 .. Len(log) : log'[k] = log[k]
        /\ dir'[Len(dir) + 1].fh = p /\ log'[Len(log) + 1] = p
        /\ part[p] \in {"new", "made"}
        /\ \A r \in Headers : r # p => order'[r] = order[r]
    BY <1>3, RegisterEffect
  <2>2. ~InLog(p) /\ ~InDir(p)
    BY <2>1 DEF Listed
  <2>3. \A i \in 1 .. Len(dir) :
          dir[i].fh # p /\ order'[dir'[i].fh] = order[dir[i].fh]
    BY <1>1, <2>1, <2>2 DEF InDir
  <2>4. SUFFICES ASSUME NEW i \in 1 .. Len(dir'), NEW j \in 1 .. Len(dir'),
                        NEW k \in 1 .. Len(log'), NEW l \in 1 .. Len(log'),
                        i < j, order'[dir'[i].fh] = order'[dir'[j].fh],
                        log'[k] = dir'[i].fh, log'[l] = dir'[j].fh
                 PROVE  k < l
    BY DEF Stable
  <2>5. i \in 1 .. Len(dir) /\ k \in 1 .. Len(log) /\ log[k] = dir[i].fh
    BY <1>1, <2>1, <2>3, <2>4
  <2>6. CASE j = Len(dir) + 1
    <3>1. l = Len(log) + 1
      BY <1>1, <2>1, <2>2, <2>4, <2>6 DEF InLog
    <3> QED
      BY <1>1, <2>5, <3>1
  <2>7. CASE j \in 1 .. Len(dir)
    <3>1. l \in 1 .. Len(log) /\ log[l] = dir[j].fh
      BY <1>1, <2>1, <2>3, <2>4, <2>7
    <3>2. order[dir[i].fh] = order[dir[j].fh]
      BY <2>3, <2>4, <2>5, <2>7
    <3> QED
      BY <2>4, <2>5, <2>7, <3>1, <3>2 DEF Stable
  <2>8. j \in 1 .. Len(dir) \/ j = Len(dir) + 1
    <3>1. Len(dir') = Len(dir) + 1 /\ Len(dir) \in Nat
      BY <1>1, <2>1
    <3> QED
      BY <3>1
  <2> QED
    BY <2>6, <2>7, <2>8
<1>4. CASE \/ CallClose \/ CallGet \/ ShortenComments
           \/ \E c \in Callers : Generate(c)
  <2>1. PICK q \in Permutation(Len(dir)) :
          /\ \A k \in 1 .. Len(dir) : dir'[k].fh = dir[q[k]].fh
          /\ \/ \A k \in 1 .. Len(dir) : q[k] = k
             \/ \A i, j \in 1 .. Len(dir) : i < j => Before(q[i], q[j])
    BY <1>4, GeneratorMoves
  <2>2. Len(dir') = Len(dir) /\ order' = order /\ log' = log
    BY <1>4, SameEntries
  <2>3. \A k \in 1 .. Len(dir) : q[k] \in 1 .. Len(dir)
    BY DEF Permutation
  <2>4. SUFFICES ASSUME NEW i \in 1 .. Len(dir), NEW j \in 1 .. Len(dir),
                        NEW k \in 1 .. Len(log), NEW l \in 1 .. Len(log),
                        i < j, order[dir[q[i]].fh] = order[dir[q[j]].fh],
                        log[k] = dir[q[i]].fh, log[l] = dir[q[j]].fh
                 PROVE  k < l
    BY <2>1, <2>2 DEF Stable
  <2>5. q[i] \in 1 .. Len(dir) /\ q[j] \in 1 .. Len(dir)
          /\ order[dir[q[i]].fh] \in Int
    BY <1>1, <2>3
  <2>6. q[i] < q[j]
    <3>1. CASE \A k1 \in 1 .. Len(dir) : q[k1] = k1
      BY <2>4, <3>1
    <3>2. CASE \A i1, j1 \in 1 .. Len(dir) : i1 < j1 => Before(q[i1], q[j1])
      <4>1. Before(q[i], q[j])
        BY <2>4, <3>2
      <4> QED
        BY <2>4, <2>5, <4>1 DEF Before
    <3> QED
      BY <2>1, <3>1, <3>2
  <2> QED
    BY <2>4, <2>5, <2>6 DEF Stable
<1> QED
  BY StepCases, <1>2, <1>3, <1>4

LEMMA SortedStep ==
  ASSUME TypeOK, Calls, SortedOnce, Next
  PROVE  SortedOnce'
<1>1. /\ Len(dir) \in Nat
      /\ \A i \in 1 .. Len(dir) : dir[i].fh \in Headers
      /\ \A r \in Headers : order[r] \in Int
  BY OfParts
<1>2. ASSUME NEW p \in Headers, PartSteps(p)
      PROVE  SortedOnce'
  BY <1>2, PartsMoveEarly DEF SortedOnce
<1>3. CASE \/ CallClose \/ CallGet \/ ShortenComments
           \/ \E c \in Callers : Generate(c)
  <2>1. PICK q \in Permutation(Len(dir)) :
          /\ \A k \in 1 .. Len(dir) : dir'[k].fh = dir[q[k]].fh
          /\ \/ \A k \in 1 .. Len(dir) : q[k] = k
             \/ /\ \E c \in Callers : SortDir(c)
                /\ \A i, j \in 1 .. Len(dir) : i < j => Before(q[i], q[j])
    BY <1>3, GeneratorMoves
  <2>2. Len(dir') = Len(dir) /\ order' = order
    BY <1>3, SameEntries
  <2>3. \A k \in 1 .. Len(dir) : q[k] \in 1 .. Len(dir)
    BY DEF Permutation
  <2>4. CASE \E c \in Callers : SortDir(c)
    <3>1. \/ \A k \in 1 .. Len(dir) : q[k] = k
          \/ \A i, j \in 1 .. Len(dir) : i < j => Before(q[i], q[j])
      BY <2>1
    <3>2. PICK s \in Permutation(Len(dir)) :
            /\ \A i, j \in 1 .. Len(dir) : i < j => Before(s[i], s[j])
            /\ \A k \in 1 .. Len(dir) : dir'[k] = dir[s[k]]
      BY <2>4, SortDirEffect
    <3>3. \A k \in 1 .. Len(dir) : s[k] \in 1 .. Len(dir)
      BY DEF Permutation
    <3>4. ASSUME NEW i \in 1 .. Len(dir), NEW j \in 1 .. Len(dir), i < j
          PROVE  order[dir'[i].fh] <= order[dir'[j].fh]
      <4>1. Before(s[i], s[j]) /\ s[i] \in 1 .. Len(dir) /\ s[j] \in 1 .. Len(dir)
        BY <3>2, <3>3, <3>4
      <4>2. order[dir[s[i]].fh] \in Int /\ order[dir[s[j]].fh] \in Int
        BY <1>1, <4>1
      <4>3. order[dir[s[i]].fh] <= order[dir[s[j]].fh]
        BY <4>1, <4>2 DEF Before
      <4> QED
        BY <3>2, <4>3
    <3>5. Sorted'
      BY <2>2, <3>4 DEF Sorted
    <3> QED
      BY <3>5 DEF SortedOnce
  <2>5. CASE ~ \E c \in Callers : SortDir(c)
    <3>1. \A k \in 1 .. Len(dir) : dir'[k].fh = dir[k].fh
      BY <2>1, <2>5
    <3>2. Sorted => Sorted'
      BY <2>2, <3>1 DEF Sorted
    <3>3. ASSUME cd' # <<>> \/ \E c \in Callers : pc'[c] \in {"place", "encode"}
          PROVE  cd # <<>> \/ \E c \in Callers : pc[c] \in {"place", "encode"}
      BY <1>3, <2>5, <3>3
         DEF CallClose, CallGet, ShortenComments, Generate, Lock, Place,
             PlaceEnds, Encode, EncodeFails, TypeOK
    <3> QED
      BY <3>2, <3>3 DEF SortedOnce
  <2> QED
    BY <2>4, <2>5
<1> QED
  BY StepCases, <1>2, <1>3 DEF PartSteps

LEMMA Init_IInv == Init => IInv
<1> SUFFICES ASSUME Init
             PROVE  IInv
  OBVIOUS
<1>1. Files
  BY DEF Init, Files
<1> QED
  BY <1>1, TypeInit, RestInit DEF IInv, Rest

LEMMA Step_IInv == IInv /\ [Next]_vars => IInv'
<1> SUFFICES ASSUME IInv, [Next]_vars
             PROVE  IInv'
  OBVIOUS
<1>1. CASE Next
  <2>1. TypeOK' /\ Files'
    BY <1>1, TypeStep DEF IInv
  <2>2. Calls'
    BY <1>1, CallsStep DEF IInv
  <2>3. Listed' /\ Stable'
    BY <1>1, ListedStep, StableStep DEF IInv
  <2>4. SortedOnce'
    BY <1>1, SortedStep DEF IInv
  <2> QED
    BY <2>1, <2>2, <2>3, <2>4 DEF IInv
<1>2. CASE UNCHANGED vars
  <2>1. TypeOK' /\ Files'
    BY <1>2 DEF IInv, vars, parts, generator, TypeOK, Files
  <2>2. Calls'
    BY <1>2 DEF IInv, vars, parts, generator, Calls, Exclusive, Frozen,
                Published, Complete
  <2>3. Listed' /\ Stable' /\ SortedOnce'
    BY <1>2 DEF IInv, vars, parts, generator, Listed, InLog, InDir, Stable,
                SortedOnce, Sorted
  <2> QED
    BY <2>1, <2>2, <2>3 DEF IInv
<1> QED
  BY <1>1, <1>2

(* The inductive invariant: the goroutines of the parts, addDetachedHeader *)
(* and the two callers of generateCentralDirectory keep it at every step.  *)
THEOREM Invariant == Spec => []IInv
BY Init_IInv, Step_IInv, PTL DEF Spec

(* Every variable has its type: a registered part has a header and a file  *)
(* writer, and the loop of generateCentralDirectory stays in the directory.*)
THEOREM TypeCorrect == Spec => []TypeOK
<1>1. IInv => TypeOK
  BY DEF IInv
<1> QED
  BY <1>1, Invariant, PTL

(* Close and GetCentralDirectoryBytes are never both inside                *)
(* generateCentralDirectory, and whoever is inside holds w.mu: also when   *)
(* the other has failed and returned.                                      *)
THEOREM MutualExclusion == Spec => []Exclusive
<1>1. IInv => Exclusive
  BY DEF IInv, Calls
<1> QED
  BY <1>1, Invariant, PTL

(* The directory the invariant describes is the one promised.              *)
LEMMA OrderFromInvariant ==
  ASSUME IInv
  PROVE  DirectoryOrdered
<1> DEFINE Position(p) == CHOOSE k \in 1 .. Len(log) : log[k] = p
<1>1. TypeOK /\ Calls /\ Listed /\ Stable /\ SortedOnce
  BY DEF IInv
<1>2. /\ Len(dir) \in Nat /\ Len(log) \in Nat
      /\ \A i \in 1 .. Len(dir) : dir[i].fh \in Headers
      /\ \A p \in Headers : order[p] \in Int
  BY <1>1, OfParts
<1>3. \A i \in 1 .. Len(dir) :
        /\ Position(dir[i].fh) \in 1 .. Len(log)
        /\ log[Position(dir[i].fh)] = dir[i].fh
  <2>1. \A i \in 1 .. Len(dir) :
          \E k \in 1 .. Len(log) : log[k] = dir[i].fh
    BY <1>1, <1>2 DEF Listed, InLog, InDir
  <2> QED
    BY <2>1
<1> SUFFICES ASSUME cd # <<>>
             PROVE  /\ Len(dir) = Len(log)
                    /\ { dir[i].fh : i \in 1 .. Len(dir) }
                         = { p \in Headers : part[p] \in {"closed", "added"} }
                    /\ \A i, j \in 1 .. Len(dir) :
                         i < j => \/ order[dir[i].fh] < order[dir[j].fh]
                                  \/ /\ order[dir[i].fh] = order[dir[j].fh]
                                     /\ Position(dir[i].fh) < Position(dir[j].fh)
  BY DEF DirectoryOrdered
<1>4. Complete
  BY <1>1 DEF Calls, Published, Frozen, Callers
<1>5. Sorted
  BY <1>1 DEF SortedOnce
<1>6. { dir[i].fh : i \in 1 .. Len(dir) }
        = { p \in Headers : part[p] \in {"closed", "added"} }
  <2>1. \A i \in 1 .. Len(dir) : part[dir[i].fh] \in {"closed", "added"}
    BY <1>1, <1>2, <1>4 DEF Listed, InDir, Complete, TypeOK, PartStates
  <2>2. \A p \in Headers : part[p] \in {"closed", "added"} =>
          \E i \in 1 .. Len(dir) : dir[i].fh = p
    BY <1>1 DEF Listed, InDir
  <2> QED
    BY <1>2, <2>1, <2>2
<1>7. ASSUME NEW i \in 1 .. Len(dir), NEW j \in 1 .. Len(dir), i < j
      PROVE  \/ order[dir[i].fh] < order[dir[j].fh]
             \/ /\ order[dir[i].fh] = order[dir[j].fh]
                /\ Position(dir[i].fh) < Position(dir[j].fh)
  <2> HIDE DEF Position
  <2>1. order[dir[i].fh] <= order[dir[j].fh]
    BY <1>5, <1>7 DEF Sorted
  <2>2. order[dir[i].fh] \in Int /\ order[dir[j].fh] \in Int
    BY <1>2
  <2>3. order[dir[i].fh] = order[dir[j].fh] =>
          Position(dir[i].fh) < Position(dir[j].fh)
    BY <1>1, <1>3, <1>7 DEF Stable
  <2> QED
    BY <2>1, <2>2, <2>3
<1>8. Len(dir) = Len(log)
  BY <1>1 DEF Listed
<1> QED
  BY <1>6, <1>7, <1>8

(* Once the directory has been generated it lists every part that was      *)
(* created and added, once, by order and within an order as registered:    *)
(* for any number of parts and every interleaving of their goroutines with *)
(* the calls, the failed calls and those that are repeated.                *)
(* (addDetachedHeader, generateCentralDirectory)                           *)
THEOREM DirectoryAlwaysOrdered == Spec => []DirectoryOrdered
BY OrderFromInvariant, Invariant, PTL

-----------------------------------------------------------------------------
(* What the directory says of the parts, and where it takes them to lie.   *)

(* From the first call on every part is complete: nothing is created after *)
(* a call that has failed.                                                 *)
Early == (\E c \in Callers : pc[c] # "idle") => Complete

(* What the header of a part says of what the part has written.            *)
PartRecorded(p) ==
  /\ part[p] \in {"made", "open", "closed"} =>
       /\ CleanHeader(fh[p]) /\ block[p] # NoFile
       /\ RecordedAt(block[p], fh[p])
       /\ FramedAt(block[p], fh[p])
       /\ block[p].local = LocalHeaderLen(fh[p])
  /\ part[p] \in {"made", "open"} =>
       /\ Writing(file[p], block[p], fh[p])
       /\ file[p].compCount = PayloadLen(block[p])
  /\ part[p] = "closed" =>
       /\ block[p].descriptor # <<>>
       /\ DescriptorBytes(block[p]) = DescriptorLen(fh[p])
  /\ part[p] = "added" =>
       /\ fh[p].extra.zip64 = <<>>
       /\ given[p] > 0

Recorded == \A p \in Headers : PartRecorded(p)

(* The end of the n-th part, by the directory.                             *)
EndAt(n) ==
  IF n = 0 THEN 0 ELSE dir[n].offset + PartLen(fh[dir[n].fh])

Added(i) == part[dir[i].fh] = "added"

GivenKept ==
  \A i \in 1 .. Len(dir) : Added(i) => dir[i].offset = given[dir[i].fh]

(* No offset has been computed yet behind the n-th.                        *)
Blank(n) ==
  \A i \in 1 .. Len(dir) : i > n /\ ~Added(i) => dir[i].offset = 0

(* The first n parts follow one another.                                   *)
Chain(n) ==
  \A i \in 1 .. Len(dir) : i <= n /\ ~Added(i) => dir[i].offset = EndAt(i - 1)

(* The directory is complete: sorting it again, or placing the parts once  *)
(* more, changes nothing.                                                  *)
Full == Sorted /\ Chain(Len(dir))

Placing ==
  /\ GivenKept
  /\ (\A c \in Callers : pc[c] = "idle") => Blank(0)
  /\ (\A c \in Callers : pc[c] # "place") => Blank(0) \/ Full
  /\ \A c \in Callers : pc[c] = "place" =>
       /\ Chain(placed) /\ offset = EndAt(placed)
       /\ Blank(placed) \/ Full
  /\ \A c \in Callers : pc[c] = "encode" =>
       Full /\ offset = EndAt(Len(dir))

(* A call has failed only because the records do not fit, and they do not  *)
(* until a comment is shortened.                                           *)
Refused == pc["GetCentralDirectoryBytes"] = "failed" => Full /\ ~RecordsFit

SealedDirectory ==
  cd # <<>> =>
    /\ Full /\ RecordsFit
    /\ cd = << [ records |-> Records,
                 end     |-> DirectoryEnd(Len(dir), DirectorySize(Records),
                                          EndAt(Len(dir))) ] >>

AInv == IInv /\ Early /\ Recorded /\ Placing /\ Refused /\ SealedDirectory

(* A permutation that keeps the order is none: by the least place it would *)
(* move.                                                                   *)
LEMMA IncreasingIsIdentity ==
  ASSUME NEW n \in Nat, NEW q \in Permutation(n),
         \A i, j \in 1 .. n : i < j => q[i] < q[j]
  PROVE  \A k \in 1 .. n : q[k] = k
<1> DEFINE Moved == { k \in 1 .. n : q[k] # k }
<1>1. \A k \in 1 .. n : q[k] \in 1 .. n /\ \E i \in 1 .. n : q[i] = k
  BY DEF Permutation
<1> SUFFICES ASSUME Moved # {}
             PROVE  FALSE
  OBVIOUS
<1>2. PICK k \in Moved : \A m \in Moved : k <= m
  <2>1. Moved \in SUBSET Nat
    OBVIOUS
  <2> HIDE DEF Moved
  <2> QED
    BY <2>1, LeastElement
<1>3. k \in 1 .. n /\ q[k] # k
  OBVIOUS
<1>4. \A m \in 1 .. n : m < k => q[m] = m
  BY <1>2
<1>5. PICK i \in 1 .. n : q[i] = k
  BY <1>1, <1>3
<1>6. i > k
  BY <1>3, <1>4, <1>5
<1>7. q[k] < k
  BY <1>3, <1>5, <1>6
<1>8. q[q[k]] = q[k] /\ q[k] \in 1 .. n
  BY <1>1, <1>3, <1>4, <1>7
<1> QED
  BY <1>3, <1>7, <1>8

(* Sorting a directory that is sorted already changes nothing: what is     *)
(* computed for an entry stays with it.                                    *)
LEMMA SortedStays ==
  ASSUME TypeOK, Sorted, NEW c \in Callers, SortDir(c)
  PROVE  dir' = dir
<1>1. PICK q \in Permutation(Len(dir)) :
        /\ \A i, j \in 1 .. Len(dir) : i < j => Before(q[i], q[j])
        /\ dir' = [ k \in 1 .. Len(dir) |-> dir[q[k]] ]
  BY DEF SortDir
<1>2. dir \in Seq(Entries) /\ Len(dir) \in Nat
        /\ \A i \in 1 .. Len(dir) : order[dir[i].fh] \in Int
  BY OfParts DEF TypeOK
<1>3. \A k \in 1 .. Len(dir) : q[k] \in 1 .. Len(dir)
  BY DEF Permutation
<1>4. ASSUME NEW i \in 1 .. Len(dir), NEW j \in 1 .. Len(dir), i < j
      PROVE  q[i] < q[j]
  <2>1. Before(q[i], q[j]) /\ q[i] \in 1 .. Len(dir) /\ q[j] \in 1 .. Len(dir)
    BY <1>1, <1>3, <1>4
  <2>2. q[j] < q[i] => order[dir[q[j]].fh] <= order[dir[q[i]].fh]
    BY <2>1 DEF Sorted
  <2>3. order[dir[q[i]].fh] \in Int /\ order[dir[q[j]].fh] \in Int
    BY <1>2, <2>1
  <2>4. q[i] # q[j]
    BY <2>1, <2>3 DEF Before
  <2> QED
    BY <2>1, <2>2, <2>3, <2>4 DEF Before
<1>5. \A k \in 1 .. Len(dir) : q[k] = k
  BY <1>2, <1>4, IncreasingIsIdentity
<1>6. dir' = [ k \in 1 .. Len(dir) |-> dir[k] ]
  BY <1>1, <1>5
<1>7. dir = [ k \in 1 .. Len(dir) |-> dir[k] ]
  BY <1>2
<1> QED
  BY <1>6, <1>7

-----------------------------------------------------------------------------
(* Close of a part: the local header stays as long as it was written, and  *)
(* the descriptor is as long as the generator takes it to be.              *)
LEMMA UpdatedLength ==
  ASSUME NEW fw \in FileWriters, NEW f \in FileHeaders(Methods)
  PROVE  LocalHeaderLen(UpdatedHeader(f, fw)) = LocalHeaderLen(f)
<1> DEFINE crc   == IF fw.enc = "AES" THEN 0
                    ELSE IF fw.raw THEN f.crc ELSE Crc(fw.hashed)
           sized == [ f EXCEPT !.csize64 = fw.compCount,
                               !.usize64 = IF fw.raw THEN @ ELSE fw.rawCount,
                               !.xxh3 = IF fw.raw THEN @ ELSE Xxh3(fw.hashed),
                               !.crc = crc ]
           g     == UpdatedHeader(f, fw)
<1>1. sized.name = f.name /\ sized.extra = f.extra
        /\ {"name", "extra"} \subseteq DOMAIN sized
  <2> HIDE DEF crc
  <2> QED
    BY DEF FileHeaders
<1>2. g = IF isZip64(sized)
          THEN [ sized EXCEPT !.csize = uint32max, !.usize = uint32max,
                              !.version = zipVersion45 ]
          ELSE [ sized EXCEPT !.csize = sized.csize64, !.usize = sized.usize64 ]
  BY DEF UpdatedHeader
<1> HIDE DEF sized, g
<1>3. g.name = f.name /\ g.extra = f.extra
  BY <1>1, <1>2
<1> QED
  BY <1>3 DEF LocalHeaderLen, g

LEMMA FinishedDescriptor ==
  ASSUME NEW fw, NEW b \in Blocks, NEW g, NEW d, fw.enc = CipherOf(g),
         g.password \in BOOLEAN
  PROVE  DescriptorBytes(FinishedBlock(b, fw, g, d)) = DescriptorLen(g)
<1>1. FinishedBlock(b, fw, g, d).descriptor = <<Descriptor(g, fw)>>
  BY DEF FinishedBlock, Blocks
<1>2. <<Descriptor(g, fw)>> # <<>> /\ <<Descriptor(g, fw)>>[1] = Descriptor(g, fw)
  OBVIOUS
<1>3. DescriptorBytes(FinishedBlock(b, fw, g, d)) = Descriptor(g, fw).len
  BY <1>1, <1>2 DEF DescriptorBytes
<1>4. fw.enc = "AES" <=> writesAES(g)
  BY DEF CipherOf, writesAES
<1> QED
  BY <1>3, <1>4 DEF Descriptor, DescriptorLen

(* A part that is closed is as long as the generator takes it to be.       *)
LEMMA PartLenOfClosed ==
  ASSUME TypeOK, NEW p \in Headers, PartRecorded(p), part[p] = "closed"
  PROVE  PartLen(fh[p]) = BlockLen(block[p])
<1>1. block[p] \in Blocks
  BY DEF TypeOK, PartRecorded
<1>2. /\ block[p].local = LocalHeaderLen(fh[p])
      /\ fh[p].csize64 = PayloadLen(block[p])
      /\ DescriptorBytes(block[p]) = DescriptorLen(fh[p])
  BY DEF PartRecorded, RecordedAt
<1> QED
  BY <1>2 DEF PartLen, BlockLen

-----------------------------------------------------------------------------
(* The goroutines of the parts keep the headers right.                     *)
LEMMA OthersRecorded ==
  ASSUME NEW r \in Headers, PartRecorded(r),
         part'[r] = part[r], fh'[r] = fh[r], file'[r] = file[r],
         block'[r] = block[r], given'[r] = given[r]
  PROVE  PartRecorded(r)'
BY DEF PartRecorded

LEMMA NewPartRecorded ==
  ASSUME CleanCalls, TypeOK, NEW p \in Headers, NEW f \in Initial,
         NEW n \in Orders, NEW raw \in BOOLEAN, NewPart(p, f, n, raw)
  PROVE  PartRecorded(p)'
<1> DEFINE g == PreparedHeader(f, raw)
           w == NewFileWriter(p, f, raw)
           b == NewBlock(g, f.method, 0)
<1>1. f \in FileHeaders(Methods) /\ CleanHeader(f)
  BY DEF CleanCalls
<1>2. f.method \in Methods /\ 0 \in Nat
  BY <1>1 DEF FileHeaders
<1>3. g \in FileHeaders(Methods) /\ CleanHeader(g)
        /\ (HasCompressor(f, raw) => MethodOf(g) = f.method)
  BY <1>1, PreparedHeaderType, PreparedClean
<1>4. b \in Blocks /\ b.descriptor = <<>> /\ w \in FileWriters
  BY <1>1, <1>2, <1>3, NewBlockType, NewFileWriterType
<1>5. Writing(w, b, g)
  BY <1>1, NewWriting
<1>6. /\ b.flags = g.flags /\ b.packed = f.method
      /\ b.local = LocalHeaderLen(g)
      /\ w.compCount = 0 /\ b.cipher = 0 /\ b.data = 0 /\ b.auth = 0
  BY DEF NewBlock, NewFileWriter
<1>7. fh'[p] = g
  BY <1>3 DEF NewPart, TypeOK
<1>8. \/ /\ Creatable(f, raw) /\ part'[p] = "made"
         /\ file'[p] = w /\ block'[p] = b
      \/ part'[p] = "failed"
  BY <1>7 DEF NewPart, TypeOK
<1> HIDE DEF g, w, b
<1>9. CASE part'[p] = "failed"
  BY <1>9 DEF PartRecorded
<1>10. CASE /\ Creatable(f, raw) /\ part'[p] = "made"
            /\ file'[p] = w /\ block'[p] = b
  <2>1. HasCompressor(f, raw)
    BY <1>10 DEF Creatable
  <2>2. RecordedAt(b, g)
    BY <1>3, <1>4, <1>6, <2>1 DEF RecordedAt
  <2>3. FramedAt(b, g)
    BY <1>4, <1>5, WritingIsFramed
  <2>4. w.compCount = PayloadLen(b)
    BY <1>6 DEF PayloadLen
  <2>5. b # NoFile
    BY <1>4
  <2> QED
    BY <1>3, <1>5, <1>6, <1>7, <1>10, <2>2, <2>3, <2>4, <2>5 DEF PartRecorded
<1> QED
  BY <1>8, <1>9, <1>10

LEMMA WriteRecorded ==
  ASSUME TypeOK, Files, NEW p \in Headers, PartRecorded(p),
         NEW n \in Sizes, NEW c \in Sizes \cup Compressed, Write(p, n, c)
  PROVE  PartRecorded(p)'
<1> DEFINE w == Written(file[p], n, c)
           b == WrittenBlock(block[p], file[p], c)
<1>1. part[p] = "open" /\ n \in Nat /\ c \in Nat
  BY DEF Write
<1>2. file[p] \in FileWriters /\ block[p] \in Blocks
        /\ block[p].descriptor = <<>>
  BY <1>1, OpenPart
<1>3. /\ file'[p] = w /\ block'[p] = b
      /\ fh'[p] = fh[p] /\ part'[p] = "open"
  BY <1>1 DEF Write, TypeOK
<1>4. ASSUME NEW fw \in FileWriters, NEW e \in Blocks
      PROVE  /\ Written(fw, n, c) \in FileWriters
             /\ Written(fw, n, c).closed = fw.closed
             /\ WrittenBlock(e, fw, c) \in Blocks
             /\ WrittenBlock(e, fw, c).at = e.at
             /\ WrittenBlock(e, fw, c).descriptor = e.descriptor
             /\ BlockLen(WrittenBlock(e, fw, c)) - BlockLen(e)
                  = Written(fw, n, c).compCount - fw.compCount
             /\ Written(fw, n, c).compCount - fw.compCount \in Nat
  BY <1>1, WrittenBooks, Zenon
<1>5. w \in FileWriters /\ b \in Blocks /\ b.descriptor = <<>>
  BY <1>2, <1>4
<1>6. Writing(w, b, fh[p])
  BY <1>1, <1>2, WriteFrames DEF PartRecorded
<1>7. w.compCount = PayloadLen(b) /\ b.flags = block[p].flags
        /\ b.packed = block[p].packed
  BY <1>1, <1>2, WriteCounts DEF PartRecorded
<1>8. b.local = block[p].local
  BY <1>2 DEF WrittenBlock, Blocks
<1> HIDE DEF w, b
<1>9. FramedAt(b, fh[p])
  BY <1>5, <1>6, WritingIsFramed
<1>10. RecordedAt(b, fh[p])
  BY <1>1, <1>5, <1>7 DEF RecordedAt, PartRecorded
<1>11. b # NoFile
  BY <1>5
<1> QED
  BY <1>1, <1>3, <1>6, <1>7, <1>8, <1>9, <1>10, <1>11 DEF PartRecorded

LEMMA CloseRecorded ==
  ASSUME TypeOK, Files, NEW p \in Headers, PartRecorded(p),
         NEW d \in {0, 1}, ClosePart(p, d)
  PROVE  PartRecorded(p)'
<1> DEFINE w == Finished(file[p], d)
           g == UpdatedHeader(fh[p], w)
           b == FinishedBlock(block[p], file[p], g, d)
<1>1. part[p] = "open" /\ d \in Nat
  BY DEF ClosePart
<1>2. file[p] \in FileWriters /\ block[p] \in Blocks
        /\ block[p].descriptor = <<>> /\ fh[p] \in FileHeaders(Methods)
  BY <1>1, OpenPart DEF TypeOK
<1>3. fh'[p] = g
  BY DEF ClosePart, TypeOK
<1>4. part'[p] = "closed" /\ block'[p] = b
  BY <1>3 DEF ClosePart, TypeOK
<1>5. /\ CleanHeader(fh[p]) /\ RecordedAt(block[p], fh[p])
      /\ block[p].local = LocalHeaderLen(fh[p])
      /\ Writing(file[p], block[p], fh[p])
      /\ file[p].compCount = PayloadLen(block[p])
  BY <1>1 DEF PartRecorded
<1>6. w \in FileWriters
  BY <1>1, <1>2, FinishedBooks
<1>7. g \in FileHeaders(Methods) /\ CleanHeader(g)
        /\ LocalHeaderLen(g) = LocalHeaderLen(fh[p])
        /\ CipherOf(g) = CipherOf(fh[p]) /\ g.aesStrength = fh[p].aesStrength
  <2> HIDE DEF w
  <2> QED
    BY <1>2, <1>5, <1>6, UpdatedHeaderType, UpdatedClean, UpdatedLength, UpdatedKeeps
<1>8. RecordedAt(b, g)
  BY <1>1, <1>2, <1>5, FinishRecords DEF RecordedAt
<1> HIDE DEF g
<1>9. FramedAt(b, g)
  BY <1>1, <1>2, <1>5, <1>7, FinishFrames
<1>10. DescriptorBytes(b) = DescriptorLen(g)
  <2>1. file[p].enc = CipherOf(g) /\ g.password \in BOOLEAN
    BY <1>5, <1>7 DEF Writing, FileHeaders
  <2> QED
    BY <1>2, <2>1, FinishedDescriptor
<1>11. b \in Blocks /\ b.local = block[p].local /\ b.descriptor # <<>>
  <2>1. b \in Blocks
    BY <1>1, <1>2, <1>7, FinishedBooks
  <2>2. b.local = block[p].local /\ b.descriptor = <<Descriptor(g, file[p])>>
    BY <1>2 DEF FinishedBlock, Blocks
  <2> QED
    BY <2>1, <2>2
<1>12. b # NoFile
  BY <1>11
<1> HIDE DEF b
<1> QED
  BY <1>3, <1>4, <1>5, <1>7, <1>8, <1>9, <1>10, <1>11, <1>12 DEF PartRecorded

LEMMA RecordedStep ==
  ASSUME CleanCalls, TypeOK, Files, Recorded, Next
  PROVE  Recorded'
<1>1. PartsTyped
  BY TypeParts
<1> SUFFICES ASSUME NEW r \in Headers
             PROVE  PartRecorded(r)'
  BY DEF Recorded
<1>2. PartRecorded(r)
  BY DEF Recorded
<1>3. ASSUME NEW p \in Headers, PartActions(p)
      PROVE  PartRecorded(r)'
  <2>1. CASE r # p
    <3>1. /\ part'[r] = part[r] /\ fh'[r] = fh[r] /\ file'[r] = file[r]
          /\ block'[r] = block[r] /\ given'[r] = given[r]
      BY <1>1, <1>3, <2>1
         DEF PartsTyped, PartActions, NewPart, Write, ClosePart,
             Fails, WriteFails, ClosePartFails, DescriptorFails,
             CompressorFails, GivenUp
    <3> QED
      BY <1>2, <3>1, OthersRecorded
  <2>2. CASE r = p
    <3>1. ASSUME Fails(p)
          PROVE  PartRecorded(p)'
      <4>1. part'[p] = "failed"
        BY <1>1, <3>1, FailsEffect DEF GivenUp, PartsTyped
      <4> QED
        BY <4>1 DEF PartRecorded
    <3> QED
      BY <1>2, <1>3, <2>2, <3>1, NewPartRecorded, WriteRecorded, CloseRecorded
         DEF PartActions
  <2> QED
    BY <2>1, <2>2
<1>4. ASSUME NEW p \in Headers, Register(p)
      PROVE  PartRecorded(r)'
  <2>1. /\ UNCHANGED <<fh, order, file, block, given>>
        /\ part[p] = "made" /\ part' = [ part EXCEPT ![p] = "open" ]
    BY <1>4 DEF Register
  <2>2. CASE r # p
    <3>1. part'[r] = part[r]
      BY <1>1, <2>1, <2>2 DEF PartsTyped
    <3> QED
      BY <1>2, <2>1, <3>1, OthersRecorded
  <2>3. CASE r = p
    BY <1>1, <1>2, <2>1, <2>3 DEF PartsTyped, PartRecorded
  <2> QED
    BY <2>2, <2>3
<1>5. ASSUME NEW p \in Headers, Adds(p)
      PROVE  PartRecorded(r)'
  <2>1. PICK f \in Built, n \in Orders, at \in Explicit :
          AddFileWithOffset(p, f, n, at)
    BY <1>5 DEF Adds
  <2>2. /\ fh' = [ fh EXCEPT ![p] = f ]
        /\ given' = [ given EXCEPT ![p] = at ]
        /\ part' = [ part EXCEPT ![p] = "added" ]
        /\ UNCHANGED <<file, block>>
    BY <2>1 DEF AddFileWithOffset
  <2>3. CASE r # p
    <3>1. /\ part'[r] = part[r] /\ fh'[r] = fh[r] /\ file'[r] = file[r]
          /\ block'[r] = block[r] /\ given'[r] = given[r]
      BY <1>1, <2>2, <2>3 DEF PartsTyped
    <3> QED
      BY <1>2, <3>1, OthersRecorded
  <2>4. CASE r = p
    <3>1. part'[r] = "added" /\ fh'[r] = f /\ given'[r] = at
      BY <1>1, <2>2, <2>4 DEF PartsTyped
    <3>2. f.extra.zip64 = <<>> /\ at \in Nat /\ at # 0
      BY DEF CleanCalls
    <3> QED
      BY <3>1, <3>2 DEF PartRecorded
  <2> QED
    BY <2>3, <2>4
<1>6. CASE ShortenComments
  <2>1. UNCHANGED <<part, file, block, given>>
    BY <1>6 DEF ShortenComments
  <2>2. fh'[r] = IF part[r] = "added" THEN [ fh[r] EXCEPT !.comment = 0 ]
                 ELSE fh[r]
    BY <1>6 DEF ShortenComments
  <2>3. CASE part[r] = "added"
    <3>1. fh'[r].extra = fh[r].extra
      BY <2>2, <2>3
    <3> QED
      BY <1>2, <2>1, <2>3, <3>1 DEF PartRecorded
  <2>4. CASE part[r] # "added"
    BY <1>2, <2>1, <2>2, <2>4, OthersRecorded
  <2> QED
    BY <2>3, <2>4
<1>7. CASE CallClose \/ CallGet \/ \E c \in Callers : Generate(c)
  <2>1. UNCHANGED parts
    BY <1>7, CallersLeave
  <2> QED
    BY <1>2, <2>1, OthersRecorded DEF parts
<1> QED
  BY StepCases, <1>3, <1>4, <1>5, <1>6, <1>7

-----------------------------------------------------------------------------
(* Nothing is created after a call any more, and no part is written to.    *)
LEMMA PartsMoveFirst ==
  ASSUME Late = FALSE, Early, NEW p \in Headers, PartSteps(p)
  PROVE  \A c \in Callers : pc[c] = "idle"
<1>1. Creating \/ part[p] \in {"made", "open"}
  BY DEF PartSteps, PartActions, Adds, NewPart, Register, AddFileWithOffset,
         Write, ClosePart, Fails, WriteFails, ClosePartFails, DescriptorFails,
         CompressorFails, GivenUp
<1> QED
  BY <1>1 DEF Creating, Early, Complete

LEMMA EarlyStep ==
  ASSUME Late = FALSE, TypeOK, Calls, Early, Next
  PROVE  Early'
<1>1. ASSUME NEW p \in Headers, PartSteps(p)
      PROVE  Early'
  <2>1. \A c \in Callers : pc[c] = "idle"
    BY <1>1, PartsMoveFirst
  <2>2. pc' = pc
    BY <1>1, PartsMoveEarly
  <2> QED
    BY <2>1, <2>2 DEF Early
<1>2. CASE \/ CallClose \/ CallGet \/ ShortenComments
           \/ \E c \in Callers : Generate(c)
  <2>1. Complete
    BY <1>2 DEF CallClose, CallGet, ShortenComments, Generate, Lock, SortDir,
       Place, PlaceEnds, Encode, EncodeFails, Early, Callers
  <2> QED
    BY <1>2, <2>1, CompleteStays DEF Early
<1> QED
  BY StepCases, <1>1, <1>2 DEF PartSteps

(* Whatever the directory says depends on the lengths of the parts, not on *)
(* the rest of their headers.                                              *)
LEMMA StaysPut ==
  ASSUME TypeOK, dir' = dir, order' = order, part' = part, given' = given,
         \A r \in Headers : PartLen(fh'[r]) = PartLen(fh[r])
  PROVE  /\ GivenKept => GivenKept'
         /\ Full => Full'
         /\ \A n \in 0 .. Len(dir) :
              /\ EndAt(n)' = EndAt(n)
              /\ Blank(n) => Blank(n)'
              /\ Chain(n) => Chain(n)'
<1>1. Len(dir) \in Nat /\ \A i \in 1 .. Len(dir) : dir[i].fh \in Headers
  BY OfParts
<1>2. \A n \in 0 .. Len(dir) : EndAt(n)' = EndAt(n)
  BY <1>1 DEF EndAt
<1>3. \A n \in 0 .. Len(dir) : Chain(n) => Chain(n)'
  <2>1. \A i \in 1 .. Len(dir) : i - 1 \in 0 .. Len(dir)
    BY <1>1
  <2>2. \A i \in 1 .. Len(dir) : EndAt(i - 1)' = EndAt(i - 1)
    BY <1>2, <2>1
  <2> QED
    BY <2>2 DEF Chain, Added
<1>4. GivenKept => GivenKept'
  BY DEF GivenKept, Added
<1>5. \A n \in 0 .. Len(dir) : Blank(n) => Blank(n)'
  BY DEF Blank, Added
<1>6. Full => Full'
  <2>1. Sorted => Sorted'
    BY DEF Sorted
  <2>2. Chain(Len(dir)) => Chain(Len(dir))'
    BY <1>1, <1>3
  <2> QED
    BY <2>1, <2>2 DEF Full
<1> QED
  BY <1>2, <1>3, <1>4, <1>5, <1>6

(* Sorting a directory without computed offsets leaves it so.              *)
LEMMA SortKeepsBlank ==
  ASSUME TypeOK, NEW c \in Callers, SortDir(c), GivenKept, Blank(0)
  PROVE  GivenKept' /\ Blank(0)'
<1>1. PICK q \in Permutation(Len(dir)) :
        /\ Len(dir') = Len(dir)
        /\ \A k \in 1 .. Len(dir) : dir'[k] = dir[q[k]]
  BY SortDirEffect
<1>2. \A k \in 1 .. Len(dir) : q[k] \in 1 .. Len(dir)
  BY DEF Permutation
<1>3. part' = part /\ given' = given
  BY DEF SortDir, parts
<1>4. GivenKept'
  <2> SUFFICES ASSUME NEW k \in 1 .. Len(dir), part[dir'[k].fh] = "added"
               PROVE  dir'[k].offset = given[dir'[k].fh]
    BY <1>1, <1>3 DEF GivenKept, Added
  <2>1. dir'[k] = dir[q[k]] /\ q[k] \in 1 .. Len(dir)
    BY <1>1, <1>2
  <2> QED
    BY <2>1 DEF GivenKept, Added
<1>5. Blank(0)'
  BY <1>1, <1>2, <1>3 DEF Blank, Added
<1> QED
  BY <1>4, <1>5

(* An iteration places the next part behind the one before it, unless its  *)
(* offset is known, and then leaves it there.                              *)
LEMMA PlaceExtends ==
  ASSUME TypeOK, Recorded, NEW c \in Callers, Place(c), GivenKept,
         Chain(placed), offset = EndAt(placed), Blank(placed) \/ Full,
         NEW n \in Nat, n = placed + 1
  PROVE  /\ placed' = n /\ n <= Len(dir)
         /\ GivenKept' /\ Chain(n)' /\ offset' = EndAt(n)'
         /\ Full => dir' = dir
         /\ Blank(placed) => Blank(n)'
<1> DEFINE entry == dir[n]
           at    == OffsetOf(entry)
<1>1. /\ Len(dir) \in Nat /\ placed \in Nat /\ placed < Len(dir)
      /\ n \in 1 .. Len(dir) /\ n - 1 = placed
      /\ \A i \in 1 .. Len(dir) : dir[i] \in Entries /\ dir[i].fh \in Headers
      /\ dir \in Seq(Entries)
  BY OfParts DEF Place, TypeOK
<1>2. at \in Nat
  BY <1>1 DEF OffsetOf, TypeOK, Entries
<1>3. at = IF Added(n) THEN given[entry.fh] ELSE EndAt(placed)
  <2>1. CASE Added(n)
    <3>1. entry.offset = given[entry.fh]
      BY <1>1, <2>1 DEF GivenKept
    <3>2. given[entry.fh] > 0
      BY <1>1, <2>1 DEF Recorded, PartRecorded, Added
    <3> QED
      BY <2>1, <3>1, <3>2 DEF OffsetOf
  <2>2. CASE ~Added(n)
    <3>1. CASE Blank(placed)
      <4>1. entry.offset = 0
        BY <1>1, <2>2, <3>1 DEF Blank
      <4> QED
        BY <2>2, <4>1 DEF OffsetOf
    <3>2. CASE Full
      <4>1. entry.offset = EndAt(placed)
        BY <1>1, <2>2, <3>2 DEF Full, Chain
      <4>2. entry.offset \in Nat
        BY <1>1 DEF Entries
      <4> QED
        BY <2>2, <4>1, <4>2 DEF OffsetOf
    <3> QED
      BY <3>1, <3>2
  <2> QED
    BY <2>1, <2>2
<1>4. dir' = [ dir EXCEPT ![n].offset = at ]
        /\ offset' = at + PartLen(fh[entry.fh]) /\ UNCHANGED parts
        /\ placed' = n
  BY DEF Place
<1> HIDE DEF at
<1>5. dir' = [ dir EXCEPT ![n] = [ dir[n] EXCEPT !.offset = at ] ]
  BY <1>1, <1>4
<1>6. /\ Len(dir') = Len(dir)
      /\ \A i \in 1 .. Len(dir) : i # n => dir'[i] = dir[i]
      /\ \A i \in 1 .. Len(dir) : dir'[i].fh = dir[i].fh
      /\ dir'[n].offset = at
  <2>1. [ dir[n] EXCEPT !.offset = at ] \in Entries
          /\ [ dir[n] EXCEPT !.offset = at ].fh = dir[n].fh
          /\ [ dir[n] EXCEPT !.offset = at ].offset = at
    BY <1>1, <1>2 DEF Entries
  <2> QED
    BY <1>1, <1>5, <2>1
<1>7. fh' = fh /\ part' = part /\ given' = given
  BY <1>4 DEF parts
<1>8. \A i \in 1 .. Len(dir) : Added(i)' <=> Added(i)
  BY <1>6, <1>7 DEF Added
<1>9. GivenKept'
  <2> SUFFICES ASSUME NEW i \in 1 .. Len(dir), Added(i)
               PROVE  dir'[i].offset = given[dir[i].fh]
    BY <1>6, <1>7, <1>8 DEF GivenKept
  <2>1. CASE i = n
    BY <1>3, <1>6, <2>1
  <2>2. CASE i # n
    BY <1>6, <2>2 DEF GivenKept
  <2> QED
    BY <2>1, <2>2
<1>10. \A k \in 0 .. placed : EndAt(k)' = EndAt(k)
  <2> SUFFICES ASSUME NEW k \in 0 .. placed
               PROVE  EndAt(k)' = EndAt(k)
    OBVIOUS
  <2>1. k # 0 => k \in 1 .. Len(dir) /\ k # n
    BY <1>1
  <2> QED
    BY <1>6, <1>7, <2>1 DEF EndAt
<1>11. EndAt(n)' = at + PartLen(fh[entry.fh])
  BY <1>1, <1>6, <1>7 DEF EndAt
<1>12. ASSUME NEW i \in 1 .. Len(dir), i <= n, ~Added(i)
       PROVE  dir'[i].offset = EndAt(i - 1)'
  <2>1. i - 1 \in 0 .. placed
    BY <1>1, <1>12
  <2>2. EndAt(i - 1)' = EndAt(i - 1)
    BY <1>10, <2>1
  <2>3. CASE i = n
    BY <1>1, <1>3, <1>6, <1>12, <2>2, <2>3
  <2>4. CASE i # n
    <3>1. i <= placed /\ dir'[i] = dir[i]
      BY <1>1, <1>6, <1>12, <2>4
    <3>2. dir[i].offset = EndAt(i - 1)
      BY <1>12, <3>1 DEF Chain
    <3> QED
      BY <2>2, <3>1, <3>2
  <2> QED
    BY <2>3, <2>4
<1>13. ASSUME Blank(placed), NEW i \in 1 .. Len(dir), i > n, ~Added(i)
       PROVE  dir'[i].offset = 0
  <2>1. dir[i].offset = 0
    <3>1. i > placed
      BY <1>1, <1>13
    <3> QED
      BY <1>13, <3>1 DEF Blank
  <2>2. i # n
    BY <1>1, <1>13
  <2>3. dir'[i] = dir[i]
    BY <1>6, <2>2
  <2> QED
    BY <2>1, <2>3
<1>14. ASSUME Full
       PROVE  dir' = dir
  <2>1. at = dir[n].offset
    <3>1. CASE Added(n)
      BY <1>1, <1>3, <3>1 DEF GivenKept
    <3>2. CASE ~Added(n)
      BY <1>1, <1>3, <1>14, <3>2 DEF Full, Chain
    <3> QED
      BY <3>1, <3>2
  <2>2. [ dir[n] EXCEPT !.offset = at ] = dir[n]
    BY <1>1, <2>1 DEF Entries
  <2> QED
    BY <1>1, <1>5, <2>2
<1>15. Chain(n)'
  BY <1>6, <1>8, <1>12 DEF Chain
<1>16. Blank(placed) => Blank(n)'
  BY <1>6, <1>8, <1>13 DEF Blank
<1> QED
  BY <1>1, <1>4, <1>9, <1>11, <1>14, <1>15, <1>16

Placement == Placing /\ Refused /\ SealedDirectory

(* A part that is created, written or closed: before the first call.       *)
LEMMA PartsPlacing ==
  ASSUME Late = FALSE, TypeOK, Calls, Listed, Early, Recorded, Placing,
         NEW p \in Headers, PartSteps(p)
  PROVE  Placement'
<1>1. \A c \in Callers : pc[c] = "idle"
  BY PartsMoveFirst
<1>2. pc' = pc /\ cd' = <<>>
  BY PartsMoveEarly
<1>3. GivenKept /\ Blank(0)
  BY <1>1 DEF Placing
<1>4. PartsTyped /\ Len(dir) \in Nat
        /\ \A i \in 1 .. Len(dir) : dir[i].fh \in Headers
  BY TypeParts, OfParts
<1>5. ASSUME PartActions(p)
      PROVE  GivenKept' /\ Blank(0)'
  <2>1. /\ dir' = dir /\ \A r \in Headers : r # p => part'[r] = part[r]
        /\ part[p] \in {"new", "open"} /\ part'[p] # "added"
    BY <1>5, PartEffect
  <2>2. given' = given
    BY <1>5 DEF PartActions, NewPart, Write, ClosePart, Fails, WriteFails,
            ClosePartFails, DescriptorFails, CompressorFails, GivenUp
  <2>3. \A i \in 1 .. Len(dir) : part'[dir[i].fh] = "added" <=> Added(i)
    BY <1>4, <2>1 DEF Added
  <2> QED
    BY <1>3, <2>1, <2>2, <2>3 DEF GivenKept, Blank, Added
<1>6. ASSUME Register(p) \/ Adds(p)
      PROVE  GivenKept' /\ Blank(0)'
  <2>1. /\ part[p] \in {"new", "made"}
        /\ \A r \in Headers : r # p => part'[r] = part[r]
    BY <1>6, RegisterEffect
  <2>2. \A i \in 1 .. Len(dir) : dir[i].fh # p
    BY <1>4, <2>1 DEF Listed, InDir
  <2>3. PICK at \in Nat :
          /\ dir' = Append(dir, [ fh |-> p, offset |-> at ])
          /\ \A r \in Headers : r # p => given'[r] = given[r]
          /\ IF part'[p] = "added" THEN given'[p] = at ELSE at = 0
    <3>1. CASE Register(p)
      <4>1. /\ dir' = Append(dir, [ fh |-> p, offset |-> 0 ])
            /\ given' = given /\ part'[p] = "open" /\ 0 \in Nat
        BY <1>4, <3>1 DEF Register, Registered, PartsTyped
      <4> QED
        BY <4>1
    <3>2. CASE Adds(p)
      <4>1. PICK f \in Built, n \in Orders, at \in Explicit :
              AddFileWithOffset(p, f, n, at)
        BY <3>2 DEF Adds
      <4>2. /\ dir' = Append(dir, [ fh |-> p, offset |-> at ])
            /\ given' = [ given EXCEPT ![p] = at ] /\ at \in Nat
            /\ part'[p] = "added"
        BY <1>4, <4>1 DEF AddFileWithOffset, Registered, PartsTyped
      <4> QED
        BY <1>4, <4>2 DEF PartsTyped
    <3> QED
      BY <1>6, <3>1, <3>2
  <2>4. /\ Len(dir') = Len(dir) + 1
        /\ \A i \in 1 .. Len(dir) : dir'[i] = dir[i]
        /\ dir'[Len(dir) + 1].fh = p /\ dir'[Len(dir) + 1].offset = at
    <3>1. [ fh |-> p, offset |-> at ] \in Entries
      BY DEF Entries
    <3>2. dir \in Seq(Entries)
      BY DEF TypeOK
    <3> QED
      BY <2>3, <3>1, <3>2
  <2>5. ASSUME NEW i \in 1 .. Len(dir')
        PROVE  IF part'[dir'[i].fh] = "added"
               THEN dir'[i].offset = given'[dir'[i].fh] ELSE dir'[i].offset = 0
    <3>1. CASE i = Len(dir) + 1
      BY <2>3, <2>4, <3>1
    <3>2. CASE i \in 1 .. Len(dir)
      <4>1. dir[i].fh \in Headers /\ dir[i].fh # p /\ dir'[i] = dir[i]
        BY <1>4, <2>2, <2>4, <3>2
      <4>2. part'[dir[i].fh] = part[dir[i].fh] /\ given'[dir[i].fh] = given[dir[i].fh]
        BY <2>1, <2>3, <4>1
      <4> QED
        BY <1>3, <3>2, <4>1, <4>2 DEF GivenKept, Blank, Added
    <3> QED
      BY <1>4, <2>4, <3>1, <3>2
  <2> QED
    BY <2>5 DEF GivenKept, Blank, Added
<1>7. GivenKept' /\ Blank(0)'
  BY <1>5, <1>6 DEF PartSteps
<1>8. Placing'
  BY <1>1, <1>2, <1>7 DEF Placing
<1>9. Refused' /\ SealedDirectory'
  BY <1>1, <1>2 DEF Refused, SealedDirectory, Callers
<1> QED
  BY <1>8, <1>9 DEF Placement

(* A step of a caller that leaves the directory as it is.                  *)
LEMMA CallsPlacing ==
  ASSUME TypeOK, Calls, SortedOnce, Placement,
         \/ CallClose \/ CallGet
         \/ \E c \in Callers : Lock(c) \/ PlaceEnds(c) \/ Encode(c) \/ EncodeFails(c)
  PROVE  Placement'
<1>1. /\ Exclusive /\ Published /\ Callers = {"Close", "GetCentralDirectoryBytes"}
      /\ pc \in [Callers -> CallStates] /\ placed \in 0 .. Len(dir)
      /\ "free" \notin Callers /\ Len(dir) \in Nat
  BY OfParts DEF Calls, Callers, TypeOK
<1>2. UNCHANGED <<parts, dir, placed, offset>>
  BY DEF CallClose, CallGet, Lock, PlaceEnds, Encode, EncodeFails, generator, parts
<1>3. /\ GivenKept => GivenKept'
      /\ Full => Full'
      /\ \A n \in 0 .. Len(dir) :
           /\ EndAt(n)' = EndAt(n)
           /\ Blank(n) => Blank(n)'
           /\ Chain(n) => Chain(n)'
  BY <1>2, StaysPut DEF parts
<1>4. (RecordsFit' <=> RecordsFit) /\ Records' = Records
  BY <1>2 DEF RecordsFit, Records, parts
<1>5. /\ EndAt(placed)' = EndAt(placed)
      /\ Blank(0) => Blank(0)'
      /\ EndAt(Len(dir))' = EndAt(Len(dir))
      /\ Blank(placed) => Blank(placed)'
      /\ Chain(placed) => Chain(placed)'
  <2>1. 0 \in 0 .. Len(dir) /\ Len(dir) \in 0 .. Len(dir)
    BY <1>1
  <2> QED
    BY <1>1, <1>2, <1>3, <2>1
<1>6. ASSUME NEW c \in Callers, pc' = [ pc EXCEPT ![c] = pc'[c] ],
             pc'[c] \notin {"idle", "place"},
             pc'[c] = "encode" => Full /\ offset = EndAt(Len(dir)),
             pc[c] = "place" => Full
      PROVE  Placing'
  <2>1. \A e \in Callers : e # c => pc'[e] = pc[e]
    BY <1>1, <1>6
  <2>2. Blank(0)' \/ Full' \/ \E e \in Callers : pc'[e] = "place"
    <3>1. CASE pc[c] = "place"
      BY <1>3, <1>6, <3>1
    <3>2. CASE pc[c] # "place"
      <4>1. Blank(0) \/ Full \/ \E e \in Callers : pc[e] = "place"
        BY DEF Placement, Placing
      <4> QED
        BY <1>3, <1>5, <2>1, <3>2, <4>1
    <3> QED
      BY <3>1, <3>2
  <2>3. ASSUME NEW e \in Callers, pc'[e] = "place"
        PROVE  Chain(placed)' /\ offset' = EndAt(placed)' /\ (Blank(placed)' \/ Full')
    <3>1. pc[e] = "place"
      BY <1>6, <2>1, <2>3
    <3>2. Chain(placed) /\ offset = EndAt(placed) /\ (Blank(placed) \/ Full)
      BY <3>1 DEF Placement, Placing
    <3>3. offset' = offset
      BY <1>2
    <3> QED
      BY <1>3, <1>5, <3>2, <3>3
  <2>4. ASSUME NEW e \in Callers, pc'[e] = "encode"
        PROVE  Full' /\ offset' = EndAt(Len(dir))'
    BY <1>2, <1>3, <1>5, <1>6, <2>1, <2>4 DEF Placement, Placing
  <2>5. GivenKept'
    BY <1>3 DEF Placement, Placing
  <2> QED
    BY <1>6, <2>2, <2>3, <2>4, <2>5 DEF Placing
<1>7. CASE CallClose \/ CallGet
  <2>1. PICK c \in Callers : /\ pc' = [ pc EXCEPT ![c] = pc'[c] ]
                             /\ pc'[c] \in {"called", "failed"}
                             /\ pc[c] \notin {"sort", "place", "encode"}
                             /\ c = "Close" \/ pc'[c] = "called"
    <3>1. CASE CallClose
      BY <1>1, <1>7, <3>1 DEF CallClose, Exclusive
    <3>2. CASE CallGet
      BY <1>1, <1>7, <3>2 DEF CallGet
    <3> QED
      BY <1>7, <3>1, <3>2
  <2>2. Placing'
    BY <1>6, <2>1
  <2>3. Refused'
    BY <1>1, <1>3, <1>4, <2>1 DEF Placement, Refused
  <2>4. cd' = cd
    BY <1>7 DEF CallClose, CallGet
  <2>5. SealedDirectory'
    BY <1>2, <1>3, <1>4, <1>5, <2>4 DEF Placement, SealedDirectory
  <2> QED
    BY <2>2, <2>3, <2>5 DEF Placement
<1>8. ASSUME NEW c \in Callers, Lock(c) \/ PlaceEnds(c)
      PROVE  Placement'
  <2>1. /\ pc' = [ pc EXCEPT ![c] = pc'[c] ] /\ cd' = cd
        /\ \/ pc[c] = "called" /\ pc'[c] \in {"returned", "sort"}
           \/ pc[c] = "place" /\ pc'[c] = "encode" /\ placed = Len(dir)
    BY <1>1, <1>8 DEF Lock, PlaceEnds
  <2>2. pc[c] = "place" => Full /\ offset = EndAt(Len(dir))
    BY <2>1 DEF Placement, Placing, Full, SortedOnce
  <2>3. Placing'
    BY <1>6, <2>1, <2>2
  <2>4. Refused'
    BY <1>1, <1>3, <1>4, <2>1 DEF Placement, Refused
  <2>5. SealedDirectory'
    BY <1>2, <1>3, <1>4, <1>5, <2>1 DEF Placement, SealedDirectory
  <2> QED
    BY <2>3, <2>4, <2>5 DEF Placement
<1>9. ASSUME NEW c \in Callers, Encode(c)
      PROVE  Placement'
  <2>1. /\ pc[c] = "encode" /\ RecordsFit
        /\ pc' = [ pc EXCEPT ![c] = "returned" ] /\ pc'[c] = "returned"
        /\ cd' = << [ records |-> Records,
                      end |-> DirectoryEnd(Len(dir), DirectorySize(Records), offset) ] >>
    BY <1>1, <1>9 DEF Encode
  <2>2. Full /\ offset = EndAt(Len(dir))
    BY <2>1 DEF Placement, Placing
  <2>3. Placing'
    BY <1>6, <2>1
  <2>4. Refused'
    BY <1>1, <1>3, <1>4, <2>1 DEF Placement, Refused
  <2>5. SealedDirectory'
    BY <1>2, <1>3, <1>4, <1>5, <2>1, <2>2 DEF SealedDirectory
  <2> QED
    BY <2>3, <2>4, <2>5 DEF Placement
<1>10. ASSUME NEW c \in Callers, EncodeFails(c)
       PROVE  Placement'
  <2>1. /\ pc[c] = "encode" /\ ~RecordsFit /\ cd' = cd
        /\ pc' = [ pc EXCEPT ![c] = "failed" ] /\ pc'[c] = "failed"
    BY <1>1, <1>10 DEF EncodeFails
  <2>2. Full
    BY <2>1 DEF Placement, Placing
  <2>3. Placing'
    BY <1>6, <2>1
  <2>4. Refused'
    BY <1>3, <1>4, <2>1, <2>2 DEF Refused
  <2>5. SealedDirectory'
    BY <1>2, <1>3, <1>4, <1>5, <2>1 DEF Placement, SealedDirectory
  <2> QED
    BY <2>3, <2>4, <2>5 DEF Placement
<1> QED
  BY <1>7, <1>8, <1>9, <1>10

(* The sort: nothing to do, or nothing computed yet.                       *)
LEMMA SortPlacing ==
  ASSUME TypeOK, Calls, Placement, NEW c \in Callers, SortDir(c)
  PROVE  Placement'
<1>1. /\ Exclusive /\ Published /\ Callers = {"Close", "GetCentralDirectoryBytes"}
      /\ pc \in [Callers -> CallStates] /\ "free" \notin Callers
      /\ Len(dir) \in Nat
  BY OfParts DEF Calls, Callers, TypeOK
<1>2. /\ pc[c] = "sort" /\ lock = c /\ cd = <<>> /\ cd' = cd
      /\ placed' = 0 /\ offset' = 0 /\ UNCHANGED parts
      /\ pc' = [ pc EXCEPT ![c] = "place" ]
  BY <1>1 DEF SortDir, Exclusive, Published
<1>3. /\ \A e \in Callers : e # c => pc[e] \notin {"sort", "place", "encode"}
      /\ \A e \in Callers : pc[e] # "place"
      /\ \A e \in Callers : e # c => pc'[e] = pc[e]
      /\ pc'[c] = "place"
  BY <1>1, <1>2 DEF Exclusive
<1>4. GivenKept /\ (Blank(0) \/ Full)
  BY <1>3 DEF Placement, Placing
<1>5. Full => dir' = dir
  BY SortedStays DEF Full
<1>6. Full => GivenKept' /\ Full'
  BY <1>2, <1>4, <1>5, StaysPut DEF parts
<1>7. GivenKept' /\ (Blank(0)' \/ Full')
  BY <1>4, <1>6, SortKeepsBlank
<1>8. \A i \in 1 .. Len(dir') : ~(i <= 0)
  OBVIOUS
<1>9. Chain(placed)' /\ offset' = EndAt(placed)' /\ (Blank(placed)' \/ Full')
  BY <1>2, <1>7, <1>8 DEF Chain, EndAt
<1>10. Placing'
  BY <1>3, <1>7, <1>9 DEF Placing
<1>11. Refused'
  <2>1. CASE c = "GetCentralDirectoryBytes"
    BY <1>3, <2>1 DEF Refused
  <2>2. CASE c # "GetCentralDirectoryBytes"
    <3> SUFFICES ASSUME pc["GetCentralDirectoryBytes"] = "failed"
                 PROVE  Full' /\ ~RecordsFit'
      BY <1>1, <1>3, <2>2 DEF Refused
    <3>1. Full /\ ~RecordsFit
      BY DEF Placement, Refused
    <3>2. RecordsFit' <=> RecordsFit
      BY <1>2, <1>5, <3>1 DEF RecordsFit, parts
    <3> QED
      BY <1>6, <3>1, <3>2
  <2> QED
    BY <2>1, <2>2
<1>12. SealedDirectory'
  BY <1>2 DEF SealedDirectory
<1> QED
  BY <1>10, <1>11, <1>12 DEF Placement

LEMMA PlacePlacing ==
  ASSUME TypeOK, Calls, SortedOnce, Recorded, Placement, NEW c \in Callers, Place(c)
  PROVE  Placement'
<1>1. /\ Exclusive /\ Published /\ Callers = {"Close", "GetCentralDirectoryBytes"}
      /\ pc \in [Callers -> CallStates] /\ "free" \notin Callers
      /\ placed \in Nat
  BY OfParts DEF Calls, Callers, TypeOK
<1>2. /\ pc[c] = "place" /\ lock = c /\ cd = <<>> /\ cd' = cd
      /\ pc' = pc /\ UNCHANGED parts
  BY <1>1 DEF Place, Exclusive, Published
<1>3. \A e \in Callers : e # c => pc[e] \notin {"sort", "place", "encode"}
  BY <1>1, <1>2 DEF Exclusive
<1>4. /\ GivenKept /\ Chain(placed) /\ offset = EndAt(placed)
      /\ Blank(placed) \/ Full
  BY <1>2 DEF Placement, Placing
<1> DEFINE n == placed + 1
<1>5. /\ placed' = n /\ GivenKept' /\ Chain(placed)' /\ offset' = EndAt(placed)'
      /\ Full => dir' = dir
      /\ Blank(placed) => Blank(placed)'
  <2>1. PICK k \in Nat : k = n
    BY <1>1
  <2>2. /\ placed' = k /\ GivenKept' /\ Chain(k)' /\ offset' = EndAt(k)'
        /\ Full => dir' = dir
        /\ Blank(placed) => Blank(k)'
    BY <1>4, <2>1, PlaceExtends
  <2>3. Chain(placed)' /\ offset' = EndAt(placed)' /\ (Blank(placed) => Blank(placed)')
    BY <2>2 DEF Chain, EndAt, Blank
  <2> QED
    BY <2>1, <2>2, <2>3
<1>6. Full => Full'
  BY <1>2, <1>5, StaysPut DEF parts
<1>7. Placing'
  BY <1>2, <1>3, <1>4, <1>5, <1>6 DEF Placing
<1>8. Refused'
  <2> SUFFICES ASSUME pc["GetCentralDirectoryBytes"] = "failed"
               PROVE  Full' /\ ~RecordsFit'
    BY <1>2 DEF Refused
  <2>1. Full /\ ~RecordsFit
    BY DEF Placement, Refused
  <2>2. RecordsFit' <=> RecordsFit
    BY <1>2, <1>5, <2>1 DEF RecordsFit, parts
  <2> QED
    BY <1>6, <2>1, <2>2
<1>9. SealedDirectory'
  BY <1>2 DEF SealedDirectory
<1> QED
  BY <1>7, <1>8, <1>9 DEF Placement

(* Shortening a comment moves no part, and happens only while there is no  *)
(* directory: one that was generated has records that fit.                 *)
LEMMA ShortenPlacing ==
  ASSUME TypeOK, Placement, ShortenComments
  PROVE  Placement'
<1>1. /\ Callers = {"Close", "GetCentralDirectoryBytes"}
      /\ pc \in [Callers -> CallStates] /\ Len(dir) \in Nat
  BY OfParts DEF Callers, TypeOK
<1>2. /\ \A c \in Callers : pc[c] \in {"idle", "failed"}
      /\ pc["GetCentralDirectoryBytes"] = "failed"
      /\ UNCHANGED <<order, part, given, dir, cd>>
      /\ pc' = [ pc EXCEPT !["GetCentralDirectoryBytes"] = "again" ]
  BY DEF ShortenComments
<1>3. Full /\ ~RecordsFit /\ GivenKept
  BY <1>2 DEF Placement, Refused, Placing
<1>4. cd = <<>>
  BY <1>3 DEF Placement, SealedDirectory
<1>5. \A r \in Headers : PartLen(fh'[r]) = PartLen(fh[r])
  <2> SUFFICES ASSUME NEW r \in Headers
               PROVE  PartLen(fh'[r]) = PartLen(fh[r])
    OBVIOUS
  <2> DEFINE g == [ fh[r] EXCEPT !.comment = 0 ]
  <2>1. fh'[r] = g \/ fh'[r] = fh[r]
    BY DEF ShortenComments
  <2>2. /\ g.name = fh[r].name /\ g.extra = fh[r].extra
        /\ g.csize64 = fh[r].csize64 /\ g.usize64 = fh[r].usize64
        /\ g.password = fh[r].password /\ g.encryption = fh[r].encryption
    OBVIOUS
  <2> HIDE DEF g
  <2>3. PartLen(g) = PartLen(fh[r])
    BY <2>2 DEF PartLen, LocalHeaderLen, DescriptorLen, isZip64, writesAES
  <2> QED
    BY <2>1, <2>3
<1>6. GivenKept' /\ Full'
  BY <1>2, <1>3, <1>5, StaysPut
<1>7. /\ \A c \in Callers : pc'[c] \notin {"place", "encode"}
      /\ pc'["GetCentralDirectoryBytes"] = "again"
  BY <1>1, <1>2
<1>8. Placing'
  BY <1>1, <1>6, <1>7 DEF Placing
<1>9. Refused' /\ SealedDirectory'
  BY <1>2, <1>4, <1>7 DEF Refused, SealedDirectory
<1> QED
  BY <1>8, <1>9 DEF Placement

LEMMA Step_AInv ==
  ASSUME CleanCalls, Late = FALSE, AInv, [Next]_vars
  PROVE  AInv'
<1>1. /\ IInv /\ TypeOK /\ Files /\ Calls /\ Listed /\ SortedOnce
      /\ Early /\ Recorded /\ Placement /\ Placing
  BY DEF AInv, IInv, Placement
<1>2. IInv'
  BY <1>1, Step_IInv
<1>3. CASE Next
  <2>1. Early' /\ Recorded'
    BY <1>1, <1>3, EarlyStep, RecordedStep
  <2>2. Placement'
    BY StepCases, <1>1, <1>3, PartsPlacing, CallsPlacing, SortPlacing,
       PlacePlacing, ShortenPlacing DEF PartSteps, Generate
  <2> QED
    BY <1>2, <2>1, <2>2 DEF AInv, Placement
<1>4. CASE UNCHANGED vars
  <2>1. Early' /\ Recorded'
    BY <1>1, <1>4 DEF vars, parts, Early, Complete, Recorded, PartRecorded
  <2>2. Placing'
    BY <1>1, <1>4 DEF vars, parts, generator, Placing, GivenKept, Blank, Chain,
                      EndAt, Full, Sorted, Added
  <2>3. Refused' /\ SealedDirectory'
    BY <1>1, <1>4 DEF vars, parts, generator, Placement, Refused,
       SealedDirectory, Full, Sorted, Chain, EndAt, Added, RecordsFit, Records
  <2> QED
    BY <1>2, <2>1, <2>2, <2>3 DEF AInv
<1> QED
  BY <1>3, <1>4

LEMMA Init_AInv == Init => AInv
<1> SUFFICES ASSUME Init
             PROVE  AInv
  OBVIOUS
<1>1. /\ dir = <<>> /\ Len(dir) = 0 /\ cd = <<>>
      /\ \A c \in Callers : pc[c] = "idle"
      /\ \A p \in Headers : part[p] = "new"
      /\ "GetCentralDirectoryBytes" \in Callers
  BY DEF Init, Callers
<1>2. Early /\ Recorded /\ Refused /\ SealedDirectory
  BY <1>1 DEF Early, Recorded, PartRecorded, Refused, SealedDirectory
<1>3. Placing
  BY <1>1 DEF Placing, GivenKept, Blank
<1> QED
  BY <1>2, <1>3, Init_IInv DEF AInv

(* The inductive invariant: whichever call sorts and places the parts, and *)
(* however often calls are refused and repeated, the offsets in the        *)
(* directory are those given or those of parts that follow one another.    *)
THEOREM PlacementInvariant ==
  ASSUME CleanCalls, Late = FALSE
  PROVE  Spec => []AInv
BY Init_AInv, Step_AInv, PTL DEF Spec

-----------------------------------------------------------------------------
(* What the assembled archive reads back as.                               *)

(* Once there is a directory every part in it is complete.                 *)
LEMMA SealedParts ==
  ASSUME IInv, Recorded, cd # <<>>, NEW i \in 1 .. Len(dir)
  PROVE  /\ dir[i].fh \in Headers /\ dir[i].offset \in Nat
         /\ fh[dir[i].fh] \in FileHeaders(Methods)
         /\ part[dir[i].fh] \in {"closed", "added"}
         /\ SizeOf(dir[i].fh) = PartLen(fh[dir[i].fh])
         /\ PartLen(fh[dir[i].fh]) \in Nat
<1>1. TypeOK /\ Calls /\ Listed
  BY DEF IInv
<1>2. dir[i].fh \in Headers /\ dir[i].offset \in Nat
  <2>1. dir[i] \in Entries
    BY <1>1 DEF TypeOK
  <2> QED
    BY <2>1 DEF Entries
<1>3. Complete
  BY <1>1 DEF Calls, Published, Frozen, Callers
<1>4. part[dir[i].fh] \in {"closed", "added"}
  BY <1>1, <1>2, <1>3 DEF Listed, InDir, Complete, TypeOK, PartStates
<1>5. fh[dir[i].fh] \in FileHeaders(Methods)
  BY <1>1, <1>2 DEF TypeOK
<1>6. SizeOf(dir[i].fh) = PartLen(fh[dir[i].fh])
  <2>1. PartRecorded(dir[i].fh)
    BY <1>2 DEF Recorded
  <2> QED
    BY <1>1, <1>2, <1>4, <2>1, PartLenOfClosed DEF SizeOf
<1> QED
  BY <1>2, <1>4, <1>5, <1>6, PartLenType

(* The parts lie where the directory says: the places computed from the    *)
(* front are the only ones that follow one another, by the first part that *)
(* would lie somewhere else.                                               *)
LEMMA StartsAreOffsets ==
  ASSUME IInv, Recorded, GivenKept, Full, cd # <<>>
  PROVE  Starts = [ i \in 1 .. Len(dir) |-> dir[i].offset ]
<1> DEFINE Follow(g) ==
             [ i \in 1 .. Len(dir) |->
                 IF part[dir[i].fh] = "added" THEN given[dir[i].fh]
                 ELSE IF i = 1 THEN 0
                 ELSE g[i - 1] + SizeOf(dir[i - 1].fh) ]
           Offsets == [ i \in 1 .. Len(dir) |-> dir[i].offset ]
<1>1. Starts = CHOOSE g : g = Follow(g)
  BY DEF Starts
<1>2. Len(dir) \in Nat
  BY OfParts DEF IInv
<1>3. ASSUME NEW i \in 1 .. Len(dir)
      PROVE  dir[i].offset = IF part[dir[i].fh] = "added" THEN given[dir[i].fh]
                             ELSE IF i = 1 THEN 0
                             ELSE dir[i - 1].offset + SizeOf(dir[i - 1].fh)
  <2>1. CASE part[dir[i].fh] = "added"
    BY <2>1 DEF GivenKept, Added
  <2>2. CASE part[dir[i].fh] # "added"
    <3>1. dir[i].offset = EndAt(i - 1)
      BY <1>2, <2>2 DEF Full, Chain, Added
    <3>2. CASE i = 1
      BY <2>2, <3>1, <3>2 DEF EndAt
    <3>3. CASE i # 1
      <4>1. i - 1 \in 1 .. Len(dir) /\ i - 1 # 0
        BY <1>2, <3>3
      <4>2. SizeOf(dir[i - 1].fh) = PartLen(fh[dir[i - 1].fh])
        BY <4>1, SealedParts
      <4> QED
        BY <2>2, <3>1, <3>3, <4>1, <4>2 DEF EndAt
    <3> QED
      BY <3>2, <3>3
  <2> QED
    BY <2>1, <2>2
<1>4. Offsets = Follow(Offsets)
  <2>1. \A i \in 1 .. Len(dir) : Follow(Offsets)[i] = dir[i].offset
    <3>1. ASSUME NEW i \in 1 .. Len(dir)
          PROVE  Follow(Offsets)[i] = dir[i].offset
      <4>1. i = 1 \/ i - 1 \in 1 .. Len(dir)
        BY <1>2
      <4> QED
        BY <1>3, <4>1
    <3> QED
      BY <3>1
  <2> QED
    BY <2>1
<1>5. ASSUME NEW g, g = Follow(g)
      PROVE  g = Offsets
  <2> DEFINE Wrong == { i \in 1 .. Len(dir) : g[i] # dir[i].offset }
  <2>1. Wrong = {}
    <3>1. SUFFICES ASSUME Wrong # {}
                   PROVE  FALSE
      OBVIOUS
    <3>2. Wrong \in SUBSET Nat
      OBVIOUS
    <3>3. PICK n \in Wrong : \A m \in Wrong : n <= m
      <4> HIDE DEF Wrong
      <4> QED
        BY <3>1, <3>2, LeastElement
    <3>4. n \in 1 .. Len(dir) /\ g[n] # dir[n].offset
      BY <3>3
    <3>5. g[n] = IF part[dir[n].fh] = "added" THEN given[dir[n].fh]
                 ELSE IF n = 1 THEN 0
                 ELSE g[n - 1] + SizeOf(dir[n - 1].fh)
      BY <1>5, <3>4
    <3>6. n # 1 => g[n - 1] = dir[n - 1].offset
      <4>1. n # 1 => n - 1 \in 1 .. Len(dir) /\ ~(n <= n - 1)
        BY <1>2, <3>4
      <4> QED
        BY <3>3, <4>1
    <3> QED
      BY <1>3, <3>4, <3>5, <3>6
  <2>2. DOMAIN g = 1 .. Len(dir) /\ g = [ i \in 1 .. Len(dir) |-> g[i] ]
    BY <1>5
  <2> QED
    BY <2>1, <2>2
<1> HIDE DEF Follow, Offsets
<1>6. Starts = Offsets
  BY <1>1, <1>4, <1>5
<1> QED
  BY <1>6 DEF Offsets

LEMMA AssembledFromInvariant ==
  ASSUME CleanCalls, AInv
  PROVE  AssembledReadsBack
<1> DEFINE n  == Len(dir)
           at == IF n = 0 THEN 0 ELSE Starts[n] + SizeOf(dir[n].fh)
           end == ReadDirectoryEnd(cd[1].end, at + DirectorySize(Records))
<1> SUFFICES ASSUME cd # <<>>
             PROVE  /\ end.ok
                    /\ end.records = n
                    /\ end.offset = at
                    /\ \A i \in 1 .. n :
                         LET rec == cd[1].records[i]
                         IN /\ ReadDirectoryHeader(rec).headerOffset = Starts[i]
                            /\ part[dir[i].fh] = "closed" =>
                                 Agrees(rec, block[dir[i].fh])
  BY DEF AssembledReadsBack
<1>1. /\ IInv /\ Recorded /\ GivenKept /\ Full
      /\ cd = << [ records |-> Records,
                   end |-> DirectoryEnd(n, DirectorySize(Records), EndAt(n)) ] >>
  BY DEF AInv, Placing, SealedDirectory
<1>2. n \in Nat
  BY <1>1, OfParts DEF IInv
<1>3. Starts = [ i \in 1 .. n |-> dir[i].offset ]
  BY <1>1, StartsAreOffsets
<1>4. at = EndAt(n)
  <2>1. CASE n = 0
    BY <2>1 DEF EndAt
  <2>2. CASE n # 0
    <3>1. n \in 1 .. n
      BY <1>2, <2>2
    <3>2. Starts[n] = dir[n].offset
      BY <1>3, <3>1
    <3>3. SizeOf(dir[n].fh) = PartLen(fh[dir[n].fh])
      BY <1>1, <3>1, SealedParts
    <3> QED
      BY <2>2, <3>2, <3>3 DEF EndAt
  <2> QED
    BY <2>1, <2>2
<1>5. end.ok /\ end.offset = at /\ end.records = n
  <2>1. cd[1].end = DirectoryEnd(n, DirectorySize(Records), at)
    BY <1>1, <1>4
  <2> HIDE DEF at, n
  <2> QED
    BY <2>1, EndReadsBack
<1>6. ASSUME NEW i \in 1 .. n
      PROVE  /\ ReadDirectoryHeader(cd[1].records[i]).headerOffset = Starts[i]
             /\ part[dir[i].fh] = "closed" =>
                  Agrees(cd[1].records[i], block[dir[i].fh])
  <2> DEFINE p == dir[i].fh
  <2>1. /\ p \in Headers /\ dir[i].offset \in Nat
        /\ fh[p] \in FileHeaders(Methods) /\ part[p] \in {"closed", "added"}
    BY <1>1, SealedParts
  <2>2. cd[1].records[i] = DirectoryHeader(fh[p], dir[i].offset)
    BY <1>1 DEF Records
  <2>3. Starts[i] = dir[i].offset
    BY <1>3
  <2>4. PartRecorded(p)
    BY <1>1, <2>1 DEF Recorded
  <2>5. CASE part[p] = "closed"
    <3>1. /\ CleanHeader(fh[p]) /\ RecordedAt(block[p], fh[p])
          /\ FramedAt(block[p], fh[p]) /\ block[p].descriptor # <<>>
      BY <2>4, <2>5 DEF PartRecorded
    <3> HIDE DEF p
    <3>2. /\ Agrees(DirectoryHeader(fh[p], dir[i].offset), block[p])
          /\ ReadDirectoryHeader(DirectoryHeader(fh[p], dir[i].offset)).headerOffset
               = dir[i].offset
      BY <2>1, <3>1, RecordAgrees
    <3> QED
      BY <2>2, <2>3, <3>2 DEF p
  <2>6. CASE part[p] = "added"
    <3>1. fh[p].extra.zip64 = <<>>
      BY <2>4, <2>6 DEF PartRecorded
    <3> HIDE DEF p
    <3>2. ReadDirectoryHeader(DirectoryHeader(fh[p], dir[i].offset)).headerOffset
            = dir[i].offset
      BY <2>1, <3>1, OffsetReadsBack
    <3> QED
      BY <2>2, <2>3, <2>6, <3>2 DEF p
  <2> QED
    BY <2>1, <2>5, <2>6
<1> HIDE DEF end, at
<1> QED
  BY <1>5, <1>6

(* The archive put together from the parts reads back: every record leads  *)
(* to its part, those the package wrote agree with it, and the end records *)
(* lead to the directory behind the last part; for any number of parts,    *)
(* sizes on both sides of the zip64 limits, offsets given or computed, and *)
(* however often an earlier call failed, when no part is created after a   *)
(* call.  (generateCentralDirectory, encodeCentralDirectory)               *)
THEOREM AssembledAlwaysReadsBack ==
  ASSUME CleanCalls, Late = FALSE
  PROVE  Spec => []AssembledReadsBack
<1>1. AInv => AssembledReadsBack
  BY AssembledFromInvariant
<1>2. Spec => []AInv
  BY PlacementInvariant
<1> QED
  BY <1>1, <1>2, PTL

-----------------------------------------------------------------------------
(* The detached Writer implements Archive.                                 *)

(* A part that is not registered yet has written no payload, and the sizes *)
(* of one built by hand are those its record will give.                    *)
Sized(p) ==
  /\ part[p] = "made" => PayloadLen(block[p]) = 0
  /\ part[p] = "added" => SizesSettled(fh[p])

PInv == AInv /\ \A p \in Headers : Sized(p)

(* What Archive sees of a part: how far it has come, whether it is in the  *)
(* directory, the size its header gives and what it has written.           *)
Seen(at, registered, n, b) ==
  [ state |-> IF at = "open" THEN "open"
              ELSE IF at \in {"closed", "added"} THEN "finished"
              ELSE IF at = "failed" /\ registered THEN "abandoned"
              ELSE "none",
    size  |-> IF at = "added" THEN n
              ELSE IF registered THEN PayloadLen(b)
              ELSE 0 ]

LEMMA EntrySeen ==
  ASSUME NEW p \in Headers
  PROVE  EntryOf(p) = Seen(part[p], InDir(p), fh[p].csize64, block[p])
<1>1. Registers(p) <=> InDir(p)
  BY DEF Registers, InDir
<1> QED
  BY <1>1 DEF EntryOf, Seen

LEMMA EntrySeenNext ==
  ASSUME NEW p \in Headers
  PROVE  EntryOf(p)' = Seen(part'[p], InDir(p)', fh'[p].csize64, block'[p])
<1>1. (Registers(p) <=> InDir(p))'
  BY DEF Registers, InDir
<1> QED
  BY <1>1 DEF EntryOf, Seen

(* How the goroutine of a part moves it: it fails or begins empty, and     *)
(* what it has written only grows.                                         *)
LEMMA PartGrows ==
  ASSUME TypeOK, Files, NEW p \in Headers, PartActions(p)
  PROVE  /\ dir' = dir
         /\ \A r \in Headers : r # p =>
              part'[r] = part[r] /\ fh'[r] = fh[r] /\ block'[r] = block[r]
         /\ \/ part[p] = "new" /\ part'[p] = "failed"
            \/ part[p] = "new" /\ part'[p] = "made" /\ PayloadLen(block'[p]) = 0
            \/ /\ part[p] = "open" /\ part'[p] \in {"open", "closed", "failed"}
               /\ PayloadLen(block[p]) \in Nat /\ PayloadLen(block'[p]) \in Nat
               /\ PayloadLen(block'[p]) >= PayloadLen(block[p])
<1>1. dir' = dir
  BY PartsLeave
<1>2. PartsTyped
  BY TypeParts
<1>3. ASSUME NEW f \in Initial, NEW n \in Orders, NEW raw \in BOOLEAN,
             NewPart(p, f, n, raw)
      PROVE  /\ \A r \in Headers : r # p =>
                  part'[r] = part[r] /\ fh'[r] = fh[r] /\ block'[r] = block[r]
             /\ part[p] = "new"
             /\ \/ part'[p] = "failed"
                \/ part'[p] = "made" /\ PayloadLen(block'[p]) = 0
  <2>1. ASSUME NEW g, NEW m
        PROVE  PayloadLen(NewBlock(g, m, 0)) = 0
    BY DEF PayloadLen, NewBlock
  <2>2. \A r \in Headers : r # p =>
          part'[r] = part[r] /\ fh'[r] = fh[r] /\ block'[r] = block[r]
    BY <1>2, <1>3 DEF NewPart, PartsTyped
  <2>3. \/ part'[p] = "failed"
        \/ part'[p] = "made" /\ block'[p] = NewBlock(fh'[p], f.method, 0)
    BY <1>2, <1>3 DEF NewPart, PartsTyped
  <2> QED
    BY <1>3, <2>1, <2>2, <2>3 DEF NewPart
<1>4. ASSUME part[p] = "open", NEW d \in Nat, NEW g, NEW b,
             b \in { WrittenBlock(block[p], file[p], d),
                     FinishedBlock(block[p], file[p], g, d) }
      PROVE  /\ PayloadLen(block[p]) \in Nat /\ PayloadLen(b) \in Nat
             /\ PayloadLen(b) >= PayloadLen(block[p])
  <2>1. file[p] \in FileWriters /\ block[p] \in Blocks
    BY <1>4, OpenPart
  <2> DEFINE w == WrittenBlock(block[p], file[p], d)
             e == FinishedBlock(block[p], file[p], g, d)
  <2>2. /\ PayloadLen(block[p]) \in Nat
        /\ PayloadLen(w) \in Nat /\ PayloadLen(w) >= PayloadLen(block[p])
        /\ PayloadLen(e) \in Nat /\ PayloadLen(e) >= PayloadLen(block[p])
    BY <2>1, GrowingBlock
  <2>3. b = w \/ b = e
    BY <1>4
  <2> HIDE DEF w, e
  <2> QED
    BY <2>2, <2>3
<1>5. ASSUME NEW n \in Sizes, NEW c \in Sizes \cup Compressed, Write(p, n, c)
      PROVE  /\ \A r \in Headers : r # p =>
                  part'[r] = part[r] /\ fh'[r] = fh[r] /\ block'[r] = block[r]
             /\ part[p] = "open" /\ part'[p] = "open" /\ c \in Nat
             /\ block'[p] = WrittenBlock(block[p], file[p], c)
  BY <1>2, <1>5 DEF Write, PartsTyped
<1>6. ASSUME NEW d \in {0, 1}, ClosePart(p, d)
      PROVE  /\ \A r \in Headers : r # p =>
                  part'[r] = part[r] /\ fh'[r] = fh[r] /\ block'[r] = block[r]
             /\ part[p] = "open" /\ part'[p] = "closed"
             /\ block'[p] = FinishedBlock(block[p], file[p], fh'[p], d)
  BY <1>2, <1>6 DEF ClosePart, PartsTyped
<1>7. CASE \E f \in Initial, n \in Orders, raw \in BOOLEAN : NewPart(p, f, n, raw)
  BY <1>1, <1>3, <1>7
<1>8. CASE \E n \in Sizes, c \in Sizes \cup Compressed : Write(p, n, c)
  <2>1. PICK n \in Sizes, c \in Sizes \cup Compressed : Write(p, n, c)
    BY <1>8
  <2>2. PayloadLen(block[p]) \in Nat /\ PayloadLen(block'[p]) \in Nat
          /\ PayloadLen(block'[p]) >= PayloadLen(block[p])
    BY <1>4, <1>5, <2>1
  <2> QED
    BY <1>1, <1>5, <2>1, <2>2
<1>9. CASE \E d \in {0, 1} : ClosePart(p, d)
  <2>1. PICK d \in {0, 1} : ClosePart(p, d)
    BY <1>9
  <2>2. PayloadLen(block[p]) \in Nat /\ PayloadLen(block'[p]) \in Nat
          /\ PayloadLen(block'[p]) >= PayloadLen(block[p])
    BY <1>4, <1>6, <2>1
  <2> QED
    BY <1>1, <1>6, <2>1, <2>2
<1>10. CASE Fails(p)
  <2>1. PICK g \in FileHeaders(Methods), w \in FileWriters, b \in Blocks :
          /\ fh' = [ fh EXCEPT ![p] = g ]
          /\ file' = [ file EXCEPT ![p] = w ]
          /\ block' = [ block EXCEPT ![p] = b ]
          /\ PayloadLen(block[p]) \in Nat /\ PayloadLen(b) \in Nat
          /\ PayloadLen(b) >= PayloadLen(block[p])
    BY <1>10, FailsEffect DEF LeftBehind
  <2>2. part[p] = "open" /\ part' = [ part EXCEPT ![p] = "failed" ]
    BY <1>10, FailsEffect DEF GivenUp
  <2>3. \A r \in Headers : r # p =>
          part'[r] = part[r] /\ fh'[r] = fh[r] /\ block'[r] = block[r]
    BY <1>2, <2>1, <2>2 DEF PartsTyped
  <2>4. part'[p] = "failed" /\ block'[p] = b
    BY <1>2, <2>1, <2>2 DEF PartsTyped
  <2> QED
    BY <1>1, <2>1, <2>2, <2>3, <2>4
<1> QED
  BY <1>7, <1>8, <1>9, <1>10 DEF PartActions

(* The calls leave the parts alone, but for the comments they shorten.     *)
LEMMA CallsKeepSizes ==
  ASSUME TypeOK, Listed,
         CallClose \/ CallGet \/ ShortenComments
           \/ \E c \in Callers : Generate(c)
  PROVE  /\ part' = part /\ block' = block
         /\ \A r \in Headers : /\ fh'[r].csize64 = fh[r].csize64
                               /\ SizesSettled(fh[r]) => SizesSettled(fh'[r])
                               /\ InDir(r)' <=> InDir(r)
<1>1. \A r \in Headers : InDir(r)' <=> InDir(r)
  BY SameEntries DEF InDir
<1>2. CASE CallClose \/ CallGet \/ \E c \in Callers : Generate(c)
  <2>1. fh' = fh /\ part' = part /\ block' = block
    BY <1>2, CallersLeave DEF parts
  <2> QED
    BY <1>1, <2>1
<1>3. CASE ShortenComments
  <2>1. part' = part /\ block' = block
    BY <1>3 DEF ShortenComments
  <2>2. \A r \in Headers :
          fh'[r] = IF part[r] = "added" THEN [ fh[r] EXCEPT !.comment = 0 ] ELSE fh[r]
    BY <1>3 DEF ShortenComments
  <2>3. ASSUME NEW f \in FileHeaders(Methods)
        PROVE  LET g == [ f EXCEPT !.comment = 0 ]
               IN /\ g.csize64 = f.csize64 /\ g.usize64 = f.usize64
                  /\ g.csize = f.csize /\ g.usize = f.usize
    BY DEF FileHeaders
  <2>4. ASSUME NEW f \in FileHeaders(Methods), NEW g, SizesSettled(f),
               g = [ f EXCEPT !.comment = 0 ]
        PROVE  SizesSettled(g)
    BY <2>3, <2>4 DEF SizesSettled, isZip64
  <2>5. \A r \in Headers : fh[r] \in FileHeaders(Methods)
    BY DEF TypeOK
  <2> QED
    BY <1>1, <2>1, <2>2, <2>3, <2>4, <2>5
<1> QED
  BY <1>2, <1>3

LEMMA SizedStep ==
  ASSUME SettledCalls, TypeOK, Files, Listed, \A p \in Headers : Sized(p), Next
  PROVE  \A p \in Headers : Sized(p)'
<1>1. ASSUME NEW p \in Headers, PartActions(p)
      PROVE  \A r \in Headers : Sized(r)'
  BY <1>1, PartGrows DEF Sized
<1>2. PartsTyped
  BY TypeParts
<1>3. ASSUME NEW p \in Headers, Register(p)
      PROVE  \A r \in Headers : Sized(r)'
  BY <1>2, <1>3 DEF Register, PartsTyped, Sized
<1>4. ASSUME NEW p \in Headers, Adds(p)
      PROVE  \A r \in Headers : Sized(r)'
  <2>1. PICK f \in Built, n \in Orders, at \in Explicit : AddFileWithOffset(p, f, n, at)
    BY <1>4 DEF Adds
  <2>2. /\ part'[p] = "added" /\ fh'[p] = f /\ SizesSettled(f)
        /\ block' = block
        /\ \A r \in Headers : r # p => part'[r] = part[r] /\ fh'[r] = fh[r]
    BY <1>2, <2>1 DEF AddFileWithOffset, PartsTyped, SettledCalls
  <2> QED
    BY <2>2 DEF Sized
<1>5. CASE CallClose \/ CallGet \/ ShortenComments
             \/ \E c \in Callers : Generate(c)
  BY <1>5, CallsKeepSizes DEF Sized
<1> QED
  BY StepCases, <1>1, <1>3, <1>4, <1>5

LEMMA Step_PInv ==
  ASSUME CleanCalls, SettledCalls, Late = FALSE, PInv, [Next]_vars
  PROVE  PInv'
<1>1. AInv'
  BY Step_AInv DEF PInv
<1>2. \A p \in Headers : Sized(p)'
  <2>1. CASE Next
    BY <2>1, SizedStep DEF PInv, AInv, IInv
  <2>2. CASE UNCHANGED vars
    BY <2>2 DEF PInv, Sized, vars, parts
  <2> QED
    BY <2>1, <2>2
<1> QED
  BY <1>1, <1>2 DEF PInv

(* What a part is seen as changes as Archive allows.                       *)
LEMMA SeenMoves ==
  ASSUME NEW a \in PartStates, NEW u \in PartStates, NEW inA, NEW inU,
         NEW n, NEW m, NEW b, NEW c,
         \/ a = u /\ (inA <=> inU) /\ n = m /\ b = c
         \/ a = "new" /\ u \in {"made", "failed"} /\ ~inA /\ ~inU
         \/ /\ a = "open" /\ u \in {"open", "closed", "failed"} /\ inA /\ inU
            /\ PayloadLen(b) \in Nat /\ PayloadLen(c) \in Nat
            /\ PayloadLen(c) >= PayloadLen(b)
         \/ a = "made" /\ u = "open" /\ ~inA /\ inU /\ PayloadLen(c) = 0
         \/ a = "new" /\ u = "added" /\ ~inA /\ inU
  PROVE  \/ Seen(u, inU, m, c) = Seen(a, inA, n, b)
         \/ Promise!Begins(Seen(a, inA, n, b), Seen(u, inU, m, c))
         \/ Promise!Grows(Seen(a, inA, n, b), Seen(u, inU, m, c))
<1>1. CASE a = u /\ (inA <=> inU) /\ n = m /\ b = c
  BY <1>1 DEF Seen
<1>2. CASE a = "new" /\ u \in {"made", "failed"} /\ ~inA /\ ~inU
  BY <1>2 DEF Seen
<1>3. CASE /\ a = "open" /\ u \in {"open", "closed", "failed"} /\ inA /\ inU
           /\ PayloadLen(b) \in Nat /\ PayloadLen(c) \in Nat
           /\ PayloadLen(c) >= PayloadLen(b)
  BY <1>3 DEF Seen, Promise!Grows
<1>4. CASE a = "made" /\ u = "open" /\ ~inA /\ inU /\ PayloadLen(c) = 0
  BY <1>4 DEF Seen, Promise!Begins, Promise!Absent
<1>5. CASE a = "new" /\ u = "added" /\ ~inA /\ inU
  BY <1>5 DEF Seen, Promise!Begins, Promise!Absent
<1> QED
  BY <1>1, <1>2, <1>3, <1>4, <1>5

LEMMA WorkStep ==
  ASSUME IInv, \A p \in Headers : Sized(p), TypeOK', Next, NEW r \in Headers
  PROVE  \/ EntryOf(r)' = EntryOf(r)
         \/ Promise!Begins(EntryOf(r), EntryOf(r)')
         \/ Promise!Grows(EntryOf(r), EntryOf(r)')
<1>1. TypeOK /\ Files /\ Listed
  BY DEF IInv
<1> DEFINE a == part[r]
           u == part'[r]
           Moves ==
             \/ /\ a = u /\ (InDir(r) <=> InDir(r)')
                /\ fh[r].csize64 = fh'[r].csize64 /\ block[r] = block'[r]
             \/ a = "new" /\ u \in {"made", "failed"} /\ ~InDir(r) /\ ~InDir(r)'
             \/ /\ a = "open" /\ u \in {"open", "closed", "failed"}
                /\ InDir(r) /\ InDir(r)'
                /\ PayloadLen(block[r]) \in Nat /\ PayloadLen(block'[r]) \in Nat
                /\ PayloadLen(block'[r]) >= PayloadLen(block[r])
             \/ a = "made" /\ u = "open" /\ ~InDir(r) /\ InDir(r)'
                  /\ PayloadLen(block'[r]) = 0
             \/ a = "new" /\ u = "added" /\ ~InDir(r) /\ InDir(r)'
<1>2. a \in {"new", "made"} => ~InDir(r)
  BY <1>1 DEF Listed
<1>3. a = "open" => InDir(r)
  BY <1>1 DEF Listed
<1>4. ASSUME NEW p \in Headers, PartActions(p)
      PROVE  Moves
  <2>1. dir' = dir /\ (InDir(r)' <=> InDir(r))
    BY <1>4, PartsLeave DEF InDir
  <2> QED
    BY <1>1, <1>2, <1>3, <1>4, <2>1, PartGrows
<1>5. ASSUME NEW p \in Headers, Register(p) \/ Adds(p)
      PROVE  Moves
  <2>1. /\ Len(dir') = Len(dir) + 1 /\ Len(dir) \in Nat
        /\ \A k \in 1 .. Len(dir) : dir'[k].fh = dir[k].fh
        /\ dir'[Len(dir) + 1].fh = p
    BY <1>1, <1>5, RegisterEffect
  <2>2. InDir(r)' <=> InDir(r) \/ r = p
    BY <2>1 DEF InDir
  <2>3. PartsTyped
    BY <1>1, TypeParts
  <2>4. block' = block /\ \A q \in Headers : q # p =>
          part'[q] = part[q] /\ fh'[q] = fh[q]
    BY <1>5, <2>3 DEF Register, Adds, AddFileWithOffset, PartsTyped
  <2>5. CASE r = p
    <3>1. \/ a = "made" /\ u = "open"
          \/ a = "new" /\ u = "added"
      BY <1>5, <2>3, <2>5 DEF Register, Adds, AddFileWithOffset, PartsTyped
    <3>2. a = "made" => PayloadLen(block'[r]) = 0
      BY <2>4 DEF Sized
    <3> QED
      BY <1>2, <2>2, <2>5, <3>1, <3>2
  <2>6. CASE r # p
    BY <2>2, <2>4, <2>6
  <2> QED
    BY <2>5, <2>6
<1>6. ASSUME CallClose \/ CallGet \/ ShortenComments
               \/ \E c \in Callers : Generate(c)
      PROVE  Moves
  BY <1>1, <1>6, CallsKeepSizes
<1>7. Moves
  <2> HIDE DEF Moves
  <2> QED
    BY StepCases, <1>4, <1>5, <1>6
<1>8. a \in PartStates /\ u \in PartStates
  BY <1>1 DEF TypeOK
<1>9. \/ Seen(u, InDir(r)', fh'[r].csize64, block'[r])
           = Seen(a, InDir(r), fh[r].csize64, block[r])
      \/ Promise!Begins(Seen(a, InDir(r), fh[r].csize64, block[r]),
                        Seen(u, InDir(r)', fh'[r].csize64, block'[r]))
      \/ Promise!Grows(Seen(a, InDir(r), fh[r].csize64, block[r]),
                       Seen(u, InDir(r)', fh'[r].csize64, block'[r]))
  BY <1>7, <1>8, SeenMoves
<1> QED
  BY <1>9, EntrySeen, EntrySeenNext

(* The directory, once it is there, lists what Archive expects.            *)
LEMMA ListingRight ==
  ASSUME PInv, cd # <<>>
  PROVE  Promise!Lists(Listing, [ p \in Headers |-> EntryOf(p) ])
<1> DEFINE d == Listing
           e == [ p \in Headers |-> EntryOf(p) ]
           r(i) == ReadDirectoryHeader(cd[1].records[i])
<1>1. /\ IInv /\ TypeOK /\ Listed /\ Recorded
      /\ cd[1].records = Records
  BY DEF PInv, AInv, IInv, SealedDirectory
<1>2. Complete
  BY <1>1 DEF IInv, Calls, Published, Frozen, Callers
<1>3. Len(dir) \in Nat
  BY <1>1, OfParts
<1>4. /\ d = [ i \in 1 .. Len(dir) |->
                 [ header |-> dir[i].fh, size |-> r(i).csize64 ] ]
      /\ Len(d) = Len(dir)
  BY <1>3 DEF Listing
<1>5. \A i \in 1 .. Len(dir) : d[i].header = dir[i].fh /\ d[i].size = r(i).csize64
  BY <1>4
<1>6. ASSUME NEW p \in Headers
      PROVE  /\ e[p] = Seen(part[p], InDir(p), fh[p].csize64, block[p])
             /\ part[p] \notin {"made", "open"}
             /\ InDir(p) => part[p] \in {"closed", "added"}
             /\ e[p].state # "open"
             /\ e[p].state # "none" <=> InDir(p)
  <2>1. InDir(p) => part[p] \in {"closed", "added"}
    BY <1>2, <1>1 DEF Complete, InDir, Listed, TypeOK, PartStates
  <2>2. part[p] \in {"closed", "added"} => InDir(p)
    BY <1>1 DEF Listed
  <2>3. part[p] \notin {"made", "open"}
    BY <1>2 DEF Complete
  <2>4. e[p] = Seen(part[p], InDir(p), fh[p].csize64, block[p])
    BY EntrySeen
  <2>5. ASSUME NEW at, NEW in, NEW n, NEW b
        PROVE  Seen(at, in, n, b).state
                 = IF at = "open" THEN "open"
                   ELSE IF at \in {"closed", "added"} THEN "finished"
                   ELSE IF at = "failed" /\ in THEN "abandoned"
                   ELSE "none"
    BY DEF Seen
  <2>6. e[p].state = IF part[p] = "open" THEN "open"
                     ELSE IF part[p] \in {"closed", "added"} THEN "finished"
                     ELSE IF part[p] = "failed" /\ InDir(p) THEN "abandoned"
                     ELSE "none"
    BY <2>4, <2>5
  <2> HIDE DEF e
  <2> QED
    BY <2>1, <2>2, <2>3, <2>4, <2>6
<1>7. ASSUME NEW i \in 1 .. Len(dir)
      PROVE  /\ dir[i].fh \in Headers
             /\ r(i).csize64 = e[dir[i].fh].size
  <2> DEFINE p == dir[i].fh
  <2>1. /\ p \in Headers /\ dir[i].offset \in Nat
        /\ fh[p] \in FileHeaders(Methods) /\ part[p] \in {"closed", "added"}
    BY <1>1, SealedParts
  <2>2. cd[1].records[i] = DirectoryHeader(fh[p], dir[i].offset)
    BY <1>1 DEF Records
  <2>3. PartRecorded(p) /\ Sized(p)
    BY <1>1, <2>1 DEF Recorded, PInv
  <2>4. InDir(p)
    BY DEF InDir
  <2> HIDE DEF p
  <2>5. CASE part[p] = "closed"
    <3>1. /\ CleanHeader(fh[p]) /\ RecordedAt(block[p], fh[p])
          /\ FramedAt(block[p], fh[p]) /\ block[p].descriptor # <<>>
      BY <2>3, <2>5 DEF PartRecorded
    <3>2. ReadDirectoryHeader(DirectoryHeader(fh[p], dir[i].offset)).csize64
            = PayloadLen(block[p])
      BY <2>1, <3>1, RecordAgrees
    <3>3. e[p].size = PayloadLen(block[p])
      BY <1>6, <2>1, <2>4, <2>5 DEF Seen
    <3> QED
      BY <2>1, <2>2, <3>2, <3>3 DEF p
  <2>6. CASE part[p] = "added"
    <3>1. fh[p].extra.zip64 = <<>> /\ SizesSettled(fh[p])
      BY <2>3, <2>6 DEF PartRecorded, Sized
    <3>2. ReadDirectoryHeader(DirectoryHeader(fh[p], dir[i].offset)).csize64
            = fh[p].csize64
      BY <2>1, <3>1, RecordReadsBack
    <3>3. e[p].size = fh[p].csize64
      BY <1>6, <2>1, <2>6 DEF Seen
    <3> QED
      BY <2>1, <2>2, <3>2, <3>3 DEF p
  <2> QED
    BY <2>1, <2>5, <2>6
<1> HIDE DEF d, e, r
<1>8. Promise!OpenIn(e) = {}
  <2>1. \A p \in Headers : e[p].state # "open"
    BY <1>6
  <2> QED
    BY <2>1 DEF Promise!OpenIn
<1>9. { d[i].header : i \in 1 .. Len(d) } = { h \in Headers : e[h].state # "none" }
  <2>1. \A p \in Headers : e[p].state # "none" <=> InDir(p)
    BY <1>6
  <2> QED
    BY <1>4, <1>5, <1>7, <2>1 DEF InDir
<1>10. \A i, j \in 1 .. Len(d) : d[i].header = d[j].header => i = j
  BY <1>1, <1>4, <1>5 DEF Listed
<1>11. \A i \in 1 .. Len(d) :
         e[d[i].header].state = "finished" => d[i].size = e[d[i].header].size
  BY <1>4, <1>5, <1>7
<1>12. Promise!Lists(d, e)
  BY <1>8, <1>9, <1>10, <1>11 DEF Promise!Lists
<1> QED
  BY <1>12 DEF d, e

(* Nothing that Archive sees moves any more once the directory is there.   *)
LEMMA DirectoryRests ==
  ASSUME IInv, cd # <<>>, [Next]_vars
  PROVE  /\ dir' = dir /\ cd' = cd
         /\ \A p \in Headers : EntryOf(p)' = EntryOf(p)
<1>1. /\ TypeOK /\ Files /\ Calls /\ Listed /\ Exclusive
      /\ lock = "free" /\ "free" \notin Callers
  BY DEF IInv, Calls, Published, Callers
<1>2. CASE Next
  <2>1. CallClose \/ CallGet \/ ShortenComments \/ \E c \in Callers : Generate(c)
    BY StepCases, <1>1, <1>2, PartsMoveEarly DEF PartSteps
  <2>2. \A c \in Callers : pc[c] \notin {"sort", "place", "encode"}
    BY <1>1 DEF Exclusive
  <2>3. dir' = dir /\ cd' = cd
    BY <2>1, <2>2 DEF CallClose, CallGet, ShortenComments, Generate, Lock,
                      SortDir, Place, PlaceEnds, Encode, EncodeFails
  <2>4. ASSUME NEW p \in Headers
        PROVE  EntryOf(p)' = EntryOf(p)
    <3>1. /\ part'[p] = part[p] /\ block'[p] = block[p]
          /\ fh'[p].csize64 = fh[p].csize64
      BY <1>1, <2>1, CallsKeepSizes
    <3>2. InDir(p)' <=> InDir(p)
      BY <2>3 DEF InDir
    <3>3. \A at, n, b : Seen(at, InDir(p)', n, b) = Seen(at, InDir(p), n, b)
      BY <3>2 DEF Seen
    <3>4. EntryOf(p)' = Seen(part'[p], InDir(p)', fh'[p].csize64, block'[p])
      BY EntrySeenNext
    <3>5. EntryOf(p) = Seen(part[p], InDir(p), fh[p].csize64, block[p])
      BY EntrySeen
    <3> QED
      BY <3>1, <3>3, <3>4, <3>5
  <2> QED
    BY <2>3, <2>4
<1>3. CASE UNCHANGED vars
  BY <1>3 DEF vars, parts, EntryOf, Registers
<1> QED
  BY <1>2, <1>3

(* The detached Writer implements Archive, for all its instances: parts    *)
(* are written side by side and each only grows, one that was added by     *)
(* hand is there at once, and the directory that the first successful call *)
(* makes lists every part once and gives the size of each finished one.    *)
(* (CreateFileParts, CreateRawFileParts, AddFileWithOffset,                *)
(* GetCentralDirectoryBytes, Close)                                        *)
THEOREM ArchiveRefinement ==
  ASSUME CleanCalls, SettledCalls, Late = FALSE
  PROVE  Spec => ImplementsArchive
<1> DEFINE e == [ p \in Headers |-> EntryOf(p) ]
           l == IF cd # <<>> THEN <<Listing>> ELSE <<>>
<1>1. Init => Promise!Init
  <2> SUFFICES ASSUME Init
               PROVE  Promise!Init
    OBVIOUS
  <2>1. cd = <<>> /\ \A p \in Headers : part[p] = "new" /\ ~InDir(p)
    BY DEF Init, InDir
  <2>2. \A p \in Headers : EntryOf(p) = [ state |-> "none", size |-> 0 ]
    BY <2>1, EntrySeen DEF Seen
  <2> QED
    BY <2>1, <2>2 DEF Promise!Init, Promise!Absent
<1>2. PInv /\ PInv' /\ [Next]_vars => [Promise!Next]_<<e, l>>
  <2> SUFFICES ASSUME PInv, PInv', [Next]_vars
               PROVE  [Promise!Next]_<<e, l>>
    OBVIOUS
  <2>1. IInv /\ TypeOK' /\ \A p \in Headers : Sized(p)
    BY DEF PInv, AInv, IInv
  <2>2. CASE cd # <<>>
    <3>1. dir' = dir /\ cd' = cd /\ \A p \in Headers : EntryOf(p)' = EntryOf(p)
      BY <2>1, <2>2, DirectoryRests
    <3>2. l' = l
      BY <3>1 DEF Listing
    <3>3. e' = e
      BY <3>1
    <3> QED
      BY <3>2, <3>3
  <2>3. CASE cd = <<>> /\ Next
    <3>1. \A p \in Headers : \/ e'[p] = e[p]
                             \/ Promise!Begins(e[p], e'[p])
                             \/ Promise!Grows(e[p], e'[p])
      BY <2>1, <2>3, WorkStep
    <3>2. Promise!Work
      BY <3>1 DEF Promise!Work
    <3>3. l = <<>>
      BY <2>3
    <3>4. CASE cd' = <<>>
      BY <3>2, <3>3, <3>4 DEF Promise!Next
    <3>5. CASE cd' # <<>>
      <4>1. (PInv /\ cd # <<>> => Promise!Lists(Listing, e))'
        BY ListingRight, PTL
      <4>2. Promise!Lists(Listing', e')
        BY <3>5, <4>1
      <4>3. l' # <<>> /\ l'[1] = Listing'
        BY <3>5
      <4> QED
        BY <3>2, <3>3, <4>2, <4>3 DEF Promise!Next
    <3> QED
      BY <3>4, <3>5
  <2>4. CASE UNCHANGED vars
    <3>1. dir' = dir /\ cd' = cd /\ \A p \in Headers : EntryOf(p)' = EntryOf(p)
      BY <2>4 DEF vars, parts, EntryOf, Registers
    <3>2. l' = l /\ e' = e
      BY <3>1 DEF Listing
    <3> QED
      BY <3>2
  <2> QED
    BY <2>2, <2>3, <2>4
<1>3. Init => PInv
  <2> SUFFICES ASSUME Init
               PROVE  PInv
    OBVIOUS
  <2>1. \A p \in Headers : part[p] = "new"
    BY DEF Init
  <2> QED
    BY <2>1, Init_AInv DEF PInv, Sized
<1>4. PInv /\ [Next]_vars => PInv'
  BY Step_PInv
<1> QED
  BY <1>1, <1>2, <1>3, <1>4, PTL DEF Spec, Promise!Spec, ImplementsArchive
=============================================================================
