------------------------- MODULE EntryReaderProofs -------------------------
(***************************************************************************)
(* Proofs about EntryReader, for every set of entries and every number of  *)
(* units.  The properties speak of what came out at the top; what they     *)
(* rest on is what the layers below have found, and the invariant says     *)
(* what that is: where every unit taken from the file is (Layers), what an *)
(* error of the reader below the decoder proves about the data             *)
(* (ErrorsMean), and what every stage of a buffered Read has established   *)
(* (Staged).                                                               *)
(***************************************************************************)
EXTENDS EntryReader, TLAPS

-----------------------------------------------------------------------------
(* An entry whose method is not known is never read.                       *)
Known == Reading => f.method \in {"Store", "Deflate"}

(* Every unit that was taken is in one of the layers; Deflate stops before *)
(* its marker.                                                             *)
Layers ==
  /\ held + delivered + buf = taken
  /\ taken <= There
  /\ f.method = "Deflate" => delivered < f.marker
  /\ ~Buffered => buf = 0

(* What an error of the reader below the decoder means.                    *)
ErrorsMean ==
  /\ below = "EOF" => taken = There /\ buf = 0
  /\ below = "EOF" /\ AES => auth /\ mac = f.data /\ f.authentic /\ HasCode
  /\ below = "IO" => broken
  /\ below = "ErrDecryption" => AES /\ (~HasCode \/ broken)
  /\ below = "ErrAuthentication" => AES /\ ~f.authentic

(* The authReader has written to its HMAC what it has handed on.           *)
Streaming == AES /\ f.defer /\ below = "nil" => mac = taken

(* The stages of the bufferedAuthReader, with what each has found.         *)
Staged ==
  Buffered =>
    /\ stage # "pass" =>
         held = 0 /\ delivered = 0 /\ below # "EOF" /\ (below = "nil" => mac = 0)
    /\ stage # "buffer" => taken = There
    /\ stage \in {"compare", "pass"} => HasCode
    /\ stage = "pass" => auth /\ mac = f.data /\ f.authentic

LayerInv == TypeOK /\ Known /\ Layers /\ ErrorsMean /\ Streaming /\ Staged

LEMMA FileFacts ==
  ASSUME f \in FileRecords
  PROVE  /\ f.data \in 0 .. MaxUnits /\ f.data \in Nat
         /\ f.present \in Nat /\ f.marker \in Nat \ {0}
         /\ f.encrypted \in BOOLEAN /\ f.defer \in BOOLEAN
         /\ f.authentic \in BOOLEAN
         /\ AES \in BOOLEAN /\ Buffered \in BOOLEAN
         /\ There \in Nat /\ There <= f.data
         /\ HasCode \in BOOLEAN /\ (HasCode => There = f.data)
BY MaxUnitsAssumption DEF FileRecords, AES, Buffered, There, HasCode

(* The entry stays the same, and with it all that is said of it.           *)
LEMMA SameFile ==
  ASSUME f' = f
  PROVE  /\ AES' = AES /\ Buffered' = Buffered /\ isAE2' = isAE2
         /\ There' = There /\ HasCode' = HasCode /\ Plain' = Plain
         /\ Sound' = Sound
BY DEF AES, Buffered, isAE2, There, HasCode, Plain, Sound

LEMMA InitLayers == Init => LayerInv
<1> SUFFICES ASSUME Init
             PROVE  LayerInv
  OBVIOUS
<1>1. f \in FileRecords
  BY FilesAssumption DEF Init
<1>2. f.data \in Nat /\ There \in Nat /\ f.marker \in Nat \ {0}
  BY <1>1, FileFacts
<1>3. TypeOK
  <2>1. 0 \in 0 .. f.data
    BY <1>2
  <2>2. auth \in BOOLEAN /\ broken \in BOOLEAN
    BY DEF Init
  <2>3. result \in Results /\ below \in Errors /\ stage \in Stages
    BY DEF Init, Results, Errors, Stages
  <2> QED
    BY <1>1, <2>1, <2>2, <2>3 DEF Init, TypeOK
<1>4. Known /\ Layers
  BY <1>2 DEF Init, Known, Reading, Layers
<1>5. ErrorsMean /\ Streaming /\ Staged
  BY DEF Init, ErrorsMean, Streaming, Staged
<1> QED
  BY <1>3, <1>4, <1>5 DEF LayerInv

-----------------------------------------------------------------------------
(* The steps, one by one.                                                  *)
LEMMA DecryptionTyped ==
  ASSUME TypeOK
  PROVE  Decryption \in {"nil", "ErrDecryption", "ErrUnexpectedEOF",
                         "ErrPassword", "ErrFormat"}
<1>1. f.strength \in 0 .. 3 /\ f.password \in Passwords /\ f.header \in BOOLEAN
        /\ f.encrypted \in BOOLEAN /\ f.overhead \in BOOLEAN
  BY DEF TypeOK, FileRecords
<1> QED
  BY <1>1 DEF Decryption, newDecryptionReader, readHeader, Passwords

LEMMA OpenStep ==
  ASSUME LayerInv, Open \/ OpenFails
  PROVE  LayerInv'
<1>1. f' = f /\ UNCHANGED <<reader, held, delivered>>
  BY DEF Open, OpenFails
<1>2. result' \in Results /\ broken' \in BOOLEAN
        /\ (result' = "nil" => f.method \in {"Store", "Deflate"})
  <2>1. CASE Open
    BY <2>1, DecryptionTyped
       DEF Open, Results, LayerInv, TypeOK, FileRecords
  <2>2. CASE OpenFails
    BY <2>2 DEF OpenFails, Results
  <2> QED
    BY <2>1, <2>2
<1>3. broken => broken'
  BY DEF Open, OpenFails
<1> QED
  BY <1>1, <1>2, <1>3, SameFile
     DEF LayerInv, TypeOK, Known, Reading, Layers, ErrorsMean, Streaming,
         Staged, reader

LEMMA ReadSectionStep ==
  ASSUME LayerInv, NEW n \in 0 .. MaxUnits, NEW end \in BOOLEAN,
         ReadSection(n, end)
  PROVE  LayerInv'
<1>1. f' = f /\ UNCHANGED <<result, mac, auth, stage, buf, delivered, broken>>
  BY DEF ReadSection
<1>2. /\ taken' = taken + n /\ held' = held + n /\ taken' <= There
      /\ end => taken' = There
      /\ below' = IF end THEN "EOF" ELSE "nil"
      /\ n \in Nat
  BY FileFacts, MaxUnitsAssumption
     DEF ReadSection, SectionReads, LayerInv, TypeOK
<1>3. ~AES /\ ~Buffered /\ buf = 0
  BY DEF ReadSection, Buffered, LayerInv, Layers
<1>4. TypeOK'
  BY <1>1, <1>2, FileFacts DEF LayerInv, TypeOK, Layers, Errors
<1>5. Known' /\ Layers'
  BY <1>1, <1>2, <1>3, FileFacts, SameFile
     DEF LayerInv, TypeOK, Known, Reading, Layers
<1>6. ErrorsMean' /\ Streaming' /\ Staged'
  BY <1>1, <1>2, <1>3, SameFile DEF ErrorsMean, Streaming, Staged
<1> QED
  BY <1>4, <1>5, <1>6 DEF LayerInv

LEMMA AuthReaderEndTyped ==
  ASSUME NEW c
  PROVE  AuthReaderEnd(c) \in {"EOF", "ErrDecryption", "ErrAuthentication"}
BY DEF AuthReaderEnd

LEMMA ReadStreamingStep ==
  ASSUME LayerInv, NEW n \in 0 .. MaxUnits, NEW end \in BOOLEAN,
         ReadStreaming(n, end)
  PROVE  LayerInv'
<1>1. f' = f /\ UNCHANGED <<result, stage, buf, delivered, broken>>
  BY DEF ReadStreaming
<1>2. /\ taken' = taken + n /\ held' = held + n /\ taken' <= There
      /\ mac' = mac + n
      /\ end => taken' = There
      /\ n \in Nat
  BY FileFacts, MaxUnitsAssumption
     DEF ReadStreaming, SectionReads, LayerInv, TypeOK
<1>3. AES /\ f.defer /\ ~Buffered /\ buf = 0 /\ mac = taken /\ mac' = taken'
  BY <1>2 DEF ReadStreaming, Buffered, LayerInv, Layers, Streaming, Pulling
<1>4. /\ below' = IF end THEN AuthReaderEnd(mac') ELSE "nil"
      /\ auth' = (end /\ HasCode /\ checkAuthentication(mac'))
  BY DEF ReadStreaming
<1>5. below' \in Errors /\ below' # "IO" /\ auth' \in BOOLEAN
  BY <1>4, AuthReaderEndTyped, FileFacts
     DEF Errors, LayerInv, TypeOK, checkAuthentication
<1>6. TypeOK'
  BY <1>1, <1>2, <1>3, <1>5, FileFacts DEF LayerInv, TypeOK, Layers
<1>7. Known' /\ Layers'
  BY <1>1, <1>2, <1>3, FileFacts, SameFile
     DEF LayerInv, TypeOK, Known, Reading, Layers
<1>8. below' = "EOF" => /\ taken' = There /\ HasCode
                        /\ auth' /\ mac' = f.data /\ f.authentic
  BY <1>2, <1>4 DEF AuthReaderEnd, checkAuthentication
<1>9. below' = "ErrDecryption" => ~HasCode
  BY <1>4 DEF AuthReaderEnd
<1>10. below' = "ErrAuthentication" => ~f.authentic
  <2>1. HasCode /\ end => mac' = f.data
    BY <1>2, <1>3, FileFacts DEF LayerInv, TypeOK
  <2> QED
    BY <1>4, <2>1 DEF AuthReaderEnd, checkAuthentication
<1>11. ErrorsMean' /\ Streaming' /\ Staged'
  BY <1>1, <1>3, <1>5, <1>8, <1>9, <1>10, SameFile
     DEF ErrorsMean, Streaming, Staged
<1> QED
  BY <1>6, <1>7, <1>11 DEF LayerInv

LEMMA SectionFailsStep ==
  ASSUME LayerInv, NEW n \in 0 .. MaxUnits, SectionFails(n)
  PROVE  LayerInv'
<1>1. f' = f /\ UNCHANGED <<result, mac, auth, stage, buf, delivered>>
  BY DEF SectionFails
<1>2. /\ taken' = taken + n /\ held' = held + n /\ taken' <= There
      /\ below' = "IO" /\ broken' = TRUE /\ ~Buffered /\ n \in Nat
  BY FileFacts, MaxUnitsAssumption DEF SectionFails, LayerInv, TypeOK
<1>3. TypeOK'
  BY <1>1, <1>2, FileFacts DEF LayerInv, TypeOK, Layers, Errors
<1>4. Known' /\ Layers'
  BY <1>1, <1>2, FileFacts, SameFile
     DEF LayerInv, TypeOK, Known, Reading, Layers
<1>5. ErrorsMean' /\ Streaming' /\ Staged'
  BY <1>1, <1>2, SameFile DEF ErrorsMean, Streaming, Staged
<1> QED
  BY <1>3, <1>4, <1>5 DEF LayerInv

LEMMA CodeFailsStep ==
  ASSUME LayerInv, NEW n \in 0 .. MaxUnits, CodeFails(n)
  PROVE  LayerInv'
<1>1. f' = f /\ UNCHANGED <<result, auth, stage, buf, delivered>>
  BY DEF CodeFails
<1>2. /\ taken' = taken + n /\ held' = held + n /\ taken' <= There
      /\ mac' = mac + n /\ n \in Nat
  BY FileFacts, MaxUnitsAssumption
     DEF CodeFails, SectionReads, LayerInv, TypeOK
<1>3. /\ AES /\ f.defer /\ ~Buffered /\ mac = taken
      /\ below' = "ErrDecryption" /\ broken' = TRUE
  BY DEF CodeFails, Buffered, LayerInv, Streaming, Pulling
<1>4. TypeOK'
  BY <1>1, <1>2, <1>3, FileFacts DEF LayerInv, TypeOK, Layers, Errors
<1>5. Known' /\ Layers'
  BY <1>1, <1>2, <1>3, FileFacts, SameFile
     DEF LayerInv, TypeOK, Known, Reading, Layers
<1>6. ErrorsMean' /\ Streaming' /\ Staged'
  BY <1>1, <1>3, SameFile DEF ErrorsMean, Streaming, Staged
<1> QED
  BY <1>4, <1>5, <1>6 DEF LayerInv

LEMMA BufferStep ==
  ASSUME LayerInv, NEW n \in 0 .. MaxUnits, NEW end \in BOOLEAN,
         Buffer(n, end)
  PROVE  LayerInv'
<1>1. f' = f /\ UNCHANGED <<result, below, mac, auth, held, delivered, broken>>
  BY DEF Buffer
<1>2. /\ taken' = taken + n /\ buf' = buf + n /\ taken' <= There
      /\ end => taken' = There
      /\ stage' = IF end THEN "code" ELSE "buffer"
      /\ n \in Nat
  BY FileFacts, MaxUnitsAssumption
     DEF Buffer, SectionReads, LayerInv, TypeOK
<1>3. /\ Buffered /\ AES /\ ~f.defer /\ stage = "buffer" /\ below = "nil"
      /\ held = 0 /\ delivered = 0 /\ mac = 0
  BY DEF Buffer, Pulling, Buffered, LayerInv, Staged
<1>4. TypeOK'
  BY <1>1, <1>2, <1>3, FileFacts DEF LayerInv, TypeOK, Layers, Stages
<1>5. Known' /\ Layers'
  BY <1>1, <1>2, <1>3, FileFacts, SameFile
     DEF LayerInv, TypeOK, Known, Reading, Layers
<1>6. ErrorsMean' /\ Streaming' /\ Staged'
  BY <1>1, <1>2, <1>3, SameFile DEF ErrorsMean, Streaming, Staged
<1> QED
  BY <1>4, <1>5, <1>6 DEF LayerInv

LEMMA ReadCodeStep ==
  ASSUME LayerInv, ReadCode
  PROVE  LayerInv'
<1>1. f' = f
        /\ UNCHANGED <<result, taken, mac, auth, buf, held, delivered, broken>>
  BY DEF ReadCode
<1>2. /\ Buffered /\ AES /\ ~f.defer /\ stage = "code" /\ below = "nil"
      /\ IF HasCode THEN stage' = "compare" /\ below' = below
                    ELSE below' = "ErrDecryption" /\ stage' = stage
  BY DEF ReadCode, Pulling, Buffered
<1>3. TypeOK'
  BY <1>1, <1>2 DEF LayerInv, TypeOK, Stages, Errors
<1>4. Known' /\ Layers'
  BY <1>1, SameFile DEF LayerInv, Known, Reading, Layers
<1>5. ErrorsMean' /\ Streaming' /\ Staged'
  BY <1>1, <1>2, SameFile
     DEF LayerInv, ErrorsMean, Streaming, Staged
<1> QED
  BY <1>3, <1>4, <1>5 DEF LayerInv

(* The comparison covers all the data: they were buffered to their end,    *)
(* and their code lies behind them.                                        *)
LEMMA CompareStep ==
  ASSUME LayerInv, Compare
  PROVE  LayerInv'
<1>1. f' = f /\ UNCHANGED <<result, taken, buf, held, delivered, broken>>
  BY DEF Compare
<1>2. /\ Buffered /\ AES /\ ~f.defer /\ stage = "compare" /\ below = "nil"
      /\ mac' = mac + buf /\ auth' = checkAuthentication(mac')
      /\ IF auth' THEN stage' = "pass" /\ below' = below
                  ELSE below' = "ErrAuthentication" /\ stage' = stage
  BY DEF Compare, Pulling, Buffered
<1>3. held = 0 /\ delivered = 0 /\ mac = 0 /\ taken = There /\ HasCode
  BY <1>2 DEF LayerInv, Staged
<1>4. mac' = f.data
  BY <1>2, <1>3, FileFacts DEF LayerInv, TypeOK, Layers
<1>5. auth' \in BOOLEAN /\ (auth' <=> f.authentic)
  BY <1>2, <1>4, FileFacts DEF checkAuthentication, LayerInv, TypeOK
<1>6. TypeOK'
  BY <1>1, <1>2, <1>4, <1>5, FileFacts
     DEF LayerInv, TypeOK, Stages, Errors
<1>7. Known' /\ Layers'
  BY <1>1, SameFile DEF LayerInv, Known, Reading, Layers
<1>8. ErrorsMean' /\ Streaming' /\ Staged'
  BY <1>1, <1>2, <1>3, <1>4, <1>5, SameFile
     DEF ErrorsMean, Streaming, Staged
<1> QED
  BY <1>6, <1>7, <1>8 DEF LayerInv

LEMMA PassOnStep ==
  ASSUME LayerInv, NEW n \in 0 .. MaxUnits, PassOn(n)
  PROVE  LayerInv'
<1>1. f' = f /\ UNCHANGED <<result, taken, mac, auth, delivered, broken>>
  BY DEF PassOn
<1>2. /\ Buffered /\ AES /\ ~f.defer /\ stage = "pass" /\ below = "nil"
      /\ n <= buf /\ (n = 0 => buf = 0)
      /\ buf' = buf - n /\ held' = held + n /\ n \in Nat
      /\ below' = IF n = 0 THEN "EOF" ELSE "nil"
  BY MaxUnitsAssumption DEF PassOn, Pulling, Buffered
<1>3. /\ auth /\ mac = f.data /\ f.authentic /\ HasCode /\ taken = There
      /\ stage' = "pass"
  BY <1>2 DEF LayerInv, Staged, PassOn
<1>4. TypeOK'
  BY <1>1, <1>2, <1>3, FileFacts
     DEF LayerInv, TypeOK, Layers, Stages, Errors
<1>5. Known' /\ Layers'
  BY <1>1, <1>2, FileFacts, SameFile
     DEF LayerInv, TypeOK, Known, Reading, Layers
<1>6. below' = "EOF" => buf' = 0
  BY <1>2 DEF LayerInv, TypeOK
<1>7. ErrorsMean' /\ Streaming' /\ Staged'
  BY <1>1, <1>2, <1>3, <1>6, SameFile
     DEF ErrorsMean, Streaming, Staged
<1> QED
  BY <1>4, <1>5, <1>7 DEF LayerInv

LEMMA BufferFailsStep ==
  ASSUME LayerInv, BufferFails
  PROVE  LayerInv'
<1>1. f' = f /\ UNCHANGED <<result, taken, mac, auth, stage, buf, held, delivered>>
  BY DEF BufferFails
<1>2. below' = "IO" /\ broken' = TRUE
  BY DEF BufferFails
<1> QED
  BY <1>1, <1>2, SameFile
     DEF LayerInv, TypeOK, Errors, Known, Reading, Layers, ErrorsMean,
         Streaming, Staged

-----------------------------------------------------------------------------
(* Units that leave the decoder.                                           *)
LEMMA ChecksumTyped ==
  ASSUME NEW c
  PROVE  Checksum(c) \in {"EOF", "ErrUnexpectedEOF", "ErrChecksum"}
BY DEF Checksum, readDataDescriptor

(* What all three have in common: the units move up, the readers stay.     *)
MovesUp(n) ==
  /\ f' = f /\ UNCHANGED reader
  /\ n \in Nat /\ n <= held
  /\ delivered' = delivered + n /\ held' = held - n
  /\ f.method = "Deflate" => delivered + n < f.marker
  /\ result' \in Results /\ broken' \in BOOLEAN /\ (broken => broken')
  /\ result' = "nil" => result = "nil"

LEMMA MovesUpStep ==
  ASSUME LayerInv, NEW n, MovesUp(n)
  PROVE  LayerInv'
<1>1. TypeOK'
  BY FileFacts DEF MovesUp, reader, LayerInv, TypeOK, Layers
<1>2. Known' /\ Layers'
  BY FileFacts, SameFile
     DEF MovesUp, reader, LayerInv, TypeOK, Known, Reading, Layers
<1>3. ErrorsMean' /\ Streaming'
  BY SameFile DEF MovesUp, reader, LayerInv, ErrorsMean, Streaming
<1>4. held = 0 /\ delivered = 0 => held' = 0 /\ delivered' = 0
  BY DEF MovesUp
<1>5. Staged'
  BY <1>4, SameFile DEF MovesUp, reader, LayerInv, Staged
<1> QED
  BY <1>1, <1>2, <1>3, <1>5 DEF LayerInv

LEMMA DecoderEndsBounded ==
  ASSUME TypeOK, NEW n \in Nat, NEW end, DecoderEnds(n, end),
         n <= held, held + delivered <= f.data
  PROVE  f.method = "Deflate" => delivered + n < f.marker
<1>1. f.marker \in Nat /\ f.data \in Nat
  BY FileFacts DEF TypeOK
<1> QED
  BY <1>1 DEF DecoderEnds, TypeOK

LEMMA Taken == LayerInv => held + delivered <= f.data
BY FileFacts DEF LayerInv, TypeOK, Layers

LEMMA DeliverMoves ==
  ASSUME LayerInv, NEW n \in 0 .. MaxUnits, Deliver(n)
  PROVE  MovesUp(n)
BY MaxUnitsAssumption DEF Deliver, MovesUp, LayerInv, TypeOK

LEMMA EndMoves ==
  ASSUME LayerInv, NEW n \in 0 .. MaxUnits, End(n)
  PROVE  MovesUp(n) /\ result' # "nil"
<1>1. PICK end \in Results :
        /\ DecoderEnds(n, end)
        /\ result' = IF end = "EOF" /\ ~isAE2 THEN Checksum(delivered') ELSE end
  BY DEF End
<1>2. n \in Nat /\ n <= held
  BY MaxUnitsAssumption DEF End
<1>3. f.method = "Deflate" => delivered + n < f.marker
  BY <1>1, <1>2, Taken, DecoderEndsBounded DEF LayerInv
<1>4. end # "nil"
  BY <1>1 DEF DecoderEnds
<1>5. result' \in Results \ {"nil"}
  BY <1>1, <1>4, ChecksumTyped DEF Results
<1> QED
  BY <1>2, <1>3, <1>5 DEF End, MovesUp, LayerInv, TypeOK

LEMMA DescriptorFailsMoves ==
  ASSUME LayerInv, NEW n \in 0 .. MaxUnits, DescriptorFails(n)
  PROVE  MovesUp(n) /\ result' = "IO" /\ broken'
<1>1. n \in Nat /\ n <= held
  BY MaxUnitsAssumption DEF DescriptorFails
<1>2. f.method = "Deflate" => delivered + n < f.marker
  BY <1>1, Taken, DecoderEndsBounded DEF LayerInv, DescriptorFails
<1> QED
  BY <1>1, <1>2 DEF DescriptorFails, MovesUp, LayerInv, TypeOK, Results

(* All the steps below the decoder leave result, and the counter, alone.   *)
Below ==
  \/ \E n \in 0 .. MaxUnits, end \in BOOLEAN :
       ReadSection(n, end) \/ ReadStreaming(n, end) \/ Buffer(n, end)
  \/ \E n \in 0 .. MaxUnits : SectionFails(n) \/ CodeFails(n) \/ PassOn(n)
  \/ ReadCode \/ Compare \/ BufferFails

LEMMA NextSplit ==
  ASSUME Next
  PROVE  \/ Open \/ OpenFails \/ Below
         \/ \E n \in 0 .. MaxUnits : Deliver(n) \/ End(n) \/ DescriptorFails(n)
BY DEF Next, Below

LEMMA BelowLeaves ==
  ASSUME Below
  PROVE  /\ f' = f /\ result' = result /\ delivered' = delivered
         /\ Reading
<1>1. ASSUME NEW n \in 0 .. MaxUnits, NEW end \in BOOLEAN,
             ReadSection(n, end) \/ ReadStreaming(n, end) \/ Buffer(n, end)
      PROVE  f' = f /\ result' = result /\ delivered' = delivered /\ Reading
  BY <1>1 DEF ReadSection, ReadStreaming, Buffer, Pulling
<1>2. ASSUME NEW n \in 0 .. MaxUnits,
             SectionFails(n) \/ CodeFails(n) \/ PassOn(n)
      PROVE  f' = f /\ result' = result /\ delivered' = delivered /\ Reading
  BY <1>2 DEF SectionFails, CodeFails, PassOn, Pulling
<1>3. CASE ReadCode \/ Compare \/ BufferFails
  BY <1>3 DEF ReadCode, Compare, BufferFails, Pulling
<1> QED
  BY <1>1, <1>2, <1>3 DEF Below

LEMMA LayersStep ==
  ASSUME LayerInv, Next
  PROVE  LayerInv'
<1>1. CASE Open \/ OpenFails
  BY <1>1, OpenStep
<1>2. CASE Below
  BY <1>2, ReadSectionStep, ReadStreamingStep, BufferStep, SectionFailsStep,
     CodeFailsStep, PassOnStep, ReadCodeStep, CompareStep, BufferFailsStep
     DEF Below
<1>3. ASSUME NEW n \in 0 .. MaxUnits,
             Deliver(n) \/ End(n) \/ DescriptorFails(n)
      PROVE  LayerInv'
  BY <1>3, DeliverMoves, EndMoves, DescriptorFailsMoves, MovesUpStep
<1> QED
  BY <1>1, <1>2, <1>3, NextSplit

-----------------------------------------------------------------------------
(* The first property follows from the invariant as it stands: a unit that *)
(* left a bufferedAuthReader has seen its last stage.                      *)
LEMMA LayersVerify == LayerInv => VerifiedBeforeRelease
<1> SUFFICES ASSUME LayerInv, Buffered, held + delivered > 0
             PROVE  auth /\ mac = f.data /\ f.authentic
  BY DEF VerifiedBeforeRelease
<1>1. ~(held = 0 /\ delivered = 0)
  OBVIOUS
<1> QED
  BY <1>1 DEF LayerInv, Staged

(* Only an end of the decoder is reported as io.EOF.                       *)
LEMMA OnlyEndEnds ==
  ASSUME LayerInv, Next, result' = "EOF", result # "EOF"
  PROVE  \E n \in 0 .. MaxUnits : End(n)
<1>1. ~Open
  BY DecryptionTyped DEF Open, LayerInv
<1>2. ~OpenFails
  BY DEF OpenFails
<1>3. ~Below
  BY BelowLeaves
<1>4. \A n \in 0 .. MaxUnits : ~Deliver(n) /\ ~DescriptorFails(n)
  BY DEF Deliver, DescriptorFails
<1> QED
  BY <1>1, <1>2, <1>3, <1>4, NextSplit

(* Nothing moves after the end.                                            *)
LEMMA Ended ==
  ASSUME Next
  PROVE  result \in {"unopened", "nil"}
BY BelowLeaves, NextSplit
   DEF Open, OpenFails, Deliver, End, DescriptorFails, Reading

LEMMA EndFacts ==
  ASSUME LayerInv, NEW n \in 0 .. MaxUnits, End(n), result' = "EOF"
  PROVE  /\ f' = f /\ UNCHANGED reader /\ DecoderEnds(n, "EOF")
         /\ delivered' = delivered + n /\ f.method \in {"Store", "Deflate"}
         /\ n \in Nat /\ n <= held
         /\ ~isAE2 => Checksum(delivered') = "EOF"
<1>1. PICK end \in Results :
        /\ DecoderEnds(n, end)
        /\ result' = IF end = "EOF" /\ ~isAE2 THEN Checksum(delivered') ELSE end
  BY DEF End
<1>2. end = "EOF"
  BY <1>1
<1> QED
  BY <1>1, <1>2, MaxUnitsAssumption DEF End, LayerInv, Known

(* The data of an AES entry that is buffered or stored have been seen to   *)
(* their end when the decoder ends.                                        *)
LEMMA EndSeen ==
  ASSUME LayerInv, NEW n \in 0 .. MaxUnits, End(n), result' = "EOF",
         AES, f.defer => f.method = "Store"
  PROVE  /\ auth /\ mac = f.data /\ f.authentic
         /\ delivered' = Plain
<1>1. CASE f.method = "Store"
  <2>1. n = held /\ below = "EOF"
    BY <1>1, EndFacts DEF DecoderEnds
  <2>2. /\ auth /\ mac = f.data /\ f.authentic
        /\ taken = f.data /\ buf = 0
    BY <2>1, FileFacts DEF LayerInv, TypeOK, ErrorsMean
  <2>3. delivered' = f.data
    BY <2>1, <2>2, EndFacts, FileFacts DEF LayerInv, TypeOK, Layers
  <2> QED
    BY <1>1, <2>2, <2>3 DEF Plain
<1>2. CASE f.method # "Store"
  <2>1. f.method = "Deflate" /\ Buffered
    BY <1>2, EndFacts, FileFacts DEF Buffered, LayerInv, TypeOK
  <2>2. n < held /\ delivered + n + 1 = f.marker
    BY <2>1, EndFacts DEF DecoderEnds
  <2>3. auth /\ mac = f.data /\ f.authentic
    BY <2>1, <2>2, LayersVerify DEF VerifiedBeforeRelease, LayerInv, TypeOK
  <2>4. delivered' = f.marker - 1
    BY <2>2, EndFacts, FileFacts DEF LayerInv, TypeOK
  <2> QED
    BY <2>1, <2>3, <2>4 DEF Plain
<1> QED
  BY <1>1, <1>2

LEMMA WholeStep ==
  ASSUME LayerInv, Next
  PROVE  EOFMeansWhole'
<1> SUFFICES ASSUME result' = "EOF"
             PROVE  EOFMeansWhole'
  BY DEF EOFMeansWhole
<1>1. PICK n \in 0 .. MaxUnits : End(n)
  BY OnlyEndEnds, Ended
<1>2. f' = f
  BY <1>1 DEF End
<1>3. ~isAE2 => /\ delivered' = f.usize
                /\ f.dataCrc = f.crc \/ (f.crc = 0 /\ ~f.hasDescriptor)
  BY <1>1, EndFacts DEF Checksum, readDataDescriptor
<1>4. isAE2 /\ f.encrypted /\ (f.defer => f.method = "Store") =>
        delivered' = Plain /\ f.authentic
  BY <1>1, EndSeen DEF AES, isAE2
<1> QED
  BY <1>2, <1>3, <1>4, SameFile DEF EOFMeansWhole

LEMMA StoredStep ==
  ASSUME LayerInv, Next
  PROVE  StoredEndAuthenticated'
<1> SUFFICES ASSUME result' = "EOF", AES', f'.defer => f'.method = "Store"
             PROVE  auth' /\ mac' = f'.data /\ f'.authentic
  BY DEF StoredEndAuthenticated
<1>1. PICK n \in 0 .. MaxUnits : End(n)
  BY OnlyEndEnds, Ended
<1>2. f' = f /\ UNCHANGED reader
  BY <1>1 DEF End
<1> QED
  BY <1>1, <1>2, EndSeen, SameFile DEF reader

(* No check refuses a sound entry: the layers below the decoder have no    *)
(* error to hand up, and the decoder finds its marker before their end.    *)
LEMMA SoundBelow ==
  ASSUME LayerInv, Sound, ~broken
  PROVE  /\ below \in {"nil", "EOF"}
         /\ below = "EOF" => delivered + held = f.data
<1>1. There = f.data
  BY FileFacts DEF Sound, There, LayerInv, TypeOK
<1>2. below \in {"nil", "EOF"}
  BY DEF LayerInv, TypeOK, Errors, ErrorsMean, Sound
<1> QED
  BY <1>1, <1>2, FileFacts DEF LayerInv, TypeOK, ErrorsMean, Layers

LEMMA SoundEnds ==
  ASSUME LayerInv, Sound, ~broken, NEW n \in 0 .. MaxUnits, End(n)
  PROVE  result' = "EOF"
<1>1. PICK end \in Results :
        /\ DecoderEnds(n, end)
        /\ result' = IF end = "EOF" /\ ~isAE2 THEN Checksum(delivered') ELSE end
  BY DEF End
<1>2. n \in Nat /\ n <= held /\ delivered' = delivered + n
  BY MaxUnitsAssumption DEF End
<1>3. end = "EOF" /\ delivered' = Plain
  <2>1. CASE f.method = "Store"
    <3>1. n = held /\ end = below /\ below # "nil"
      BY <1>1, <2>1 DEF DecoderEnds
    <3> QED
      BY <1>2, <2>1, <3>1, SoundBelow, FileFacts
         DEF Plain, LayerInv, TypeOK
  <2>2. CASE f.method = "Deflate"
    <3>1. f.marker = f.data
      BY <2>2 DEF Sound
    <3>2. ~(n = held /\ below # "nil" /\ delivered + n < f.marker)
      BY <3>1, SoundBelow, FileFacts DEF LayerInv, TypeOK
    <3>3. ~(f.marker > f.data)
      BY <3>1, FileFacts DEF LayerInv, TypeOK
    <3>4. delivered + n + 1 = f.marker /\ end = "EOF"
      BY <1>1, <2>2, <3>2, <3>3 DEF DecoderEnds
    <3> QED
      BY <1>2, <2>2, <3>4, FileFacts DEF Plain, LayerInv, TypeOK
  <2> QED
    BY <2>1, <2>2 DEF End, LayerInv, Known
<1>4. ~isAE2 => delivered' = f.usize /\ f.dataCrc = f.crc
  BY <1>3 DEF Sound
<1>5. Len(f.descriptor) \in Nat
  BY DEF LayerInv, TypeOK, FileRecords
<1>6. ~isAE2 /\ f.hasDescriptor => readDataDescriptor = "nil"
  BY <1>5 DEF Sound, readDataDescriptor
<1>7. ~isAE2 => Checksum(delivered') = "EOF"
  BY <1>4, <1>6 DEF Checksum
<1> QED
  BY <1>1, <1>3, <1>7

LEMMA SoundStep ==
  ASSUME LayerInv, SoundIsRead, Next
  PROVE  SoundIsRead'
<1>1. f' = f
  BY BelowLeaves, NextSplit DEF Open, OpenFails, Deliver, End, DescriptorFails
<1> SUFFICES ASSUME Sound, ~broken'
             PROVE  result' \in {"unopened", "nil", "EOF"}
  BY <1>1, SameFile DEF SoundIsRead
<1>2. CASE Open
  <2>1. f.encrypted \in BOOLEAN
    BY FileFacts DEF LayerInv, TypeOK
  <2>2. Decryption = "nil"
    BY <2>1 DEF Sound, Decryption, newDecryptionReader, readHeader, AES
  <2> QED
    BY <1>2, <2>2 DEF Open, Sound
<1>3. ~OpenFails
  BY DEF OpenFails
<1>4. CASE Below
  BY <1>4, BelowLeaves DEF Reading
<1>5. ASSUME NEW n \in 0 .. MaxUnits, Deliver(n)
      PROVE  result' = "nil"
  BY <1>5 DEF Deliver, Reading
<1>6. ASSUME NEW n \in 0 .. MaxUnits, End(n)
      PROVE  result' = "EOF"
  <2>1. ~broken
    BY <1>6 DEF End
  <2> QED
    BY <1>6, <2>1, SoundEnds
<1>7. \A n \in 0 .. MaxUnits : ~DescriptorFails(n)
  BY DEF DescriptorFails
<1> QED
  BY <1>2, <1>3, <1>4, <1>5, <1>6, <1>7, NextSplit

-----------------------------------------------------------------------------
Safe == EOFMeansWhole /\ StoredEndAuthenticated /\ SoundIsRead
IInv == LayerInv /\ Safe

(* The inductive invariant: what the layers hold and have found, and what  *)
(* the ends of reading rest on.                                            *)
(* (File.Open, authReader.Read, bufferedAuthReader.Read,                   *)
(* checksumReader.Read)                                                    *)
THEOREM Invariant == Spec => []IInv
<1>1. Init => IInv
  BY InitLayers
     DEF IInv, Safe, Init, EOFMeansWhole, StoredEndAuthenticated, SoundIsRead
<1>2. IInv /\ [Next]_vars => IInv'
  <2> SUFFICES ASSUME IInv, [Next]_vars
               PROVE  IInv'
    OBVIOUS
  <2>1. CASE Next
    BY <2>1, LayersStep, WholeStep, StoredStep, SoundStep DEF IInv, Safe
  <2>2. CASE UNCHANGED vars
    <3>1. LayerInv'
      BY <2>2, SameFile
         DEF vars, IInv, LayerInv, TypeOK, Known, Reading, Layers, ErrorsMean,
             Streaming, Staged
    <3>2. Safe'
      BY <2>2, SameFile
         DEF vars, IInv, Safe, EOFMeansWhole, StoredEndAuthenticated,
             SoundIsRead
    <3> QED
      BY <3>1, <3>2 DEF IInv
  <2> QED
    BY <2>1, <2>2
<1> QED
  BY <1>1, <1>2, PTL DEF Spec

(* The readers' state keeps its type: no layer counts more units than the  *)
(* entry has data.                                                         *)
THEOREM TypeCorrect == Spec => []TypeOK
<1>1. IInv => TypeOK
  BY DEF IInv, LayerInv
<1> QED
  BY <1>1, Invariant, PTL

(* Without DeferAuth no unit of an AES entry is handed to the decoder, or  *)
(* to the caller, before all the data were written to the HMAC and the     *)
(* comparison with the code succeeded, in whatever pieces the section is   *)
(* read and wherever it ends or fails (bufferedAuthReader.Read).           *)
THEOREM NothingUnverified == Spec => []VerifiedBeforeRelease
<1>1. IInv => VerifiedBeforeRelease
  BY LayersVerify DEF IInv
<1> QED
  BY <1>1, Invariant, PTL

(* io.EOF is returned, where there is a checksumReader, only for data of   *)
(* the recorded length, whose CRC is the recorded one unless that is 0 and *)
(* no descriptor repeats it; and for an encrypted AE-2 entry, buffered or  *)
(* stored, only after all of its data, authenticated (checksumReader.Read, *)
(* File.Open).                                                             *)
THEOREM WholeAtEnd == Spec => []EOFMeansWhole
<1>1. IInv => EOFMeansWhole
  BY DEF IInv, Safe
<1> QED
  BY <1>1, Invariant, PTL

(* The end of buffered, or of stored, encrypted data is returned after the *)
(* comparison, which covered all of them (authReader.Read).                *)
THEOREM EndVerified == Spec => []StoredEndAuthenticated
<1>1. IInv => StoredEndAuthenticated
  BY DEF IInv, Safe
<1> QED
  BY <1>1, Invariant, PTL

(* An entry that is as its records say is refused by no layer as long as   *)
(* the file can be read.                                                   *)
THEOREM SoundEntriesRead == Spec => []SoundIsRead
<1>1. IInv => SoundIsRead
  BY DEF IInv, Safe
<1> QED
  BY <1>1, Invariant, PTL
=============================================================================
