---------------------- MODULE DescriptorStripperProofs ----------------------
(***************************************************************************)
(* Proofs about DescriptorStripper, for every source, every buffer longer  *)
(* than the longest descriptor, and every way the source is cut into       *)
(* reads: it implements RawPart.                                           *)
(***************************************************************************)
EXTENDS DescriptorStripper, TLAPS

Words == 0 .. Base - 1

Sizes == {3, 4, 5, 6}

LEMMA FormsTyped ==
  /\ DOMAIN Forms = 1 .. 4
  /\ \A k \in 1 .. 4 :
       /\ Forms[k].size = IF Forms[k].zip64 THEN (IF Forms[k].sig THEN 6 ELSE 5)
                          ELSE (IF Forms[k].sig THEN 4 ELSE 3)
       /\ Forms[k].sig \in BOOLEAN /\ Forms[k].zip64 \in BOOLEAN
<1>1. DOMAIN Forms = 1 .. 4
  BY DEF Forms
<1>2. /\ Forms[1].size = 6 /\ Forms[2].size = 4
      /\ Forms[3].size = 5 /\ Forms[4].size = 3
  BY DEF Forms
<1>3. /\ Forms[1].sig = TRUE /\ Forms[2].sig = TRUE
      /\ Forms[3].sig = FALSE /\ Forms[4].sig = FALSE
      /\ Forms[1].zip64 = TRUE /\ Forms[2].zip64 = FALSE
      /\ Forms[3].zip64 = TRUE /\ Forms[4].zip64 = FALSE
  BY DEF Forms
<1>4. \A k \in 1 .. 4 : k = 1 \/ k = 2 \/ k = 3 \/ k = 4
  OBVIOUS
<1>5. ASSUME NEW k \in 1 .. 4
      PROVE  /\ Forms[k].size = IF Forms[k].zip64
                               THEN (IF Forms[k].sig THEN 6 ELSE 5)
                               ELSE (IF Forms[k].sig THEN 4 ELSE 3)
             /\ Forms[k].sig \in BOOLEAN /\ Forms[k].zip64 \in BOOLEAN
  <2>1. CASE k = 1
    BY <1>2, <1>3, <2>1
  <2>2. CASE k = 2
    BY <1>2, <1>3, <2>2
  <2>3. CASE k = 3
    BY <1>2, <1>3, <2>3
  <2>4. CASE k = 4
    BY <1>2, <1>3, <2>4
  <2> QED
    BY <1>4, <2>1, <2>2, <2>3, <2>4
<1> QED
  BY <1>1, <1>5

(* What the forms have in common, of all that the lemmas below need.       *)
Form(c) ==
  /\ c.sig \in BOOLEAN /\ c.zip64 \in BOOLEAN
  /\ c.size = IF c.zip64 THEN (IF c.sig THEN 6 ELSE 5)
              ELSE (IF c.sig THEN 4 ELSE 3)

(* The words of a descriptor at the end of a sequence.                     *)
LEMMA BodyAt ==
  ASSUME NEW s \in Seq(Words), NEW c, Form(c), Len(s) >= c.size,
         NEW i \in 1 .. (IF c.zip64 THEN 5 ELSE 3)
  PROVE  /\ Body(s, c)[i] = s[Len(s) - (IF c.zip64 THEN 5 ELSE 3) + i]
         /\ Body(s, c)[i] \in Words
<1> DEFINE n == IF c.zip64 THEN 5 ELSE 3
<1>0. Len(s) \in Nat
  OBVIOUS
<1>1. Body(s, c) = SubSeq(s, Len(s) - n + 1, Len(s))
  <2>1. Len(s) - c.size + (IF c.sig THEN 2 ELSE 1) = Len(s) - n + 1
    <3>1. CASE c.zip64 /\ c.sig
      BY <1>0, <3>1 DEF Form
    <3>2. CASE c.zip64 /\ ~c.sig
      BY <1>0, <3>2 DEF Form
    <3>3. CASE ~c.zip64 /\ c.sig
      BY <1>0, <3>3 DEF Form
    <3>4. CASE ~c.zip64 /\ ~c.sig
      BY <1>0, <3>4 DEF Form
    <3> QED
      BY <3>1, <3>2, <3>3, <3>4
  <2> QED
    BY <2>1 DEF Body
<1>2. Len(s) \in Nat /\ Len(s) >= n /\ n \in Nat
  BY DEF Form
<1>3. SubSeq(s, Len(s) - n + 1, Len(s))[i] = s[Len(s) - n + i]
  BY <1>2
<1>4. Len(s) - n + i \in 1 .. Len(s)
  BY <1>2
<1> QED
  BY <1>1, <1>3, <1>4

-----------------------------------------------------------------------------
(* A descriptor is found at the end of what is pending exactly if it is    *)
(* found at the end of the source, once a whole descriptor is pending, or  *)
(* all of the source is.  (raw_reader.go:97, 174-209)                      *)
EndFrom(t) == SubSeq(source, t + 1, Len(source))

LEMMA TailFits ==
  ASSUME source \in Seq(Words), NEW t \in Nat,
         t = 0 \/ t + 6 <= Len(source), NEW c, Form(c)
  PROVE  /\ Fits(EndFrom(t), Len(source), c) <=> Fits(source, Len(source), c)
         /\ Fits(source, Len(source), c)
              => ParsedAs(EndFrom(t), c) = ParsedAs(source, c)
<1> DEFINE s == EndFrom(t)
<1>1. s \in Seq(Words) /\ Len(s) = Len(source) - t
  BY DEF EndFrom
<1>2. \A j \in 1 .. Len(s) : s[j] = source[t + j]
  BY <1>1 DEF EndFrom
<1>3. c.size \in Sizes
  BY DEF Form, Sizes
<1>4. Len(s) >= c.size <=> Len(source) >= c.size
  BY <1>1, <1>3 DEF Sizes
<1>5. ASSUME Len(source) >= c.size
      PROVE  /\ s[Len(s) - c.size + 1] = source[Len(source) - c.size + 1]
             /\ ParsedAs(s, c) = ParsedAs(source, c)
  <2>1. s[Len(s) - c.size + 1] = source[Len(source) - c.size + 1]
    <3>1. Len(s) - c.size + 1 \in 1 .. Len(s)
      BY <1>1, <1>3, <1>4, <1>5 DEF Sizes
    <3>2. t + (Len(s) - c.size + 1) = Len(source) - c.size + 1
      BY <1>1, <1>3 DEF Sizes
    <3> QED
      BY <1>2, <3>1, <3>2
  <2>2. ASSUME NEW i \in 1 .. (IF c.zip64 THEN 5 ELSE 3)
        PROVE  Body(s, c)[i] = Body(source, c)[i]
    <3> DEFINE n == IF c.zip64 THEN 5 ELSE 3
    <3>1. Len(s) - n + i \in 1 .. Len(s)
      BY <1>1, <1>4, <1>5 DEF Form
    <3>2. t + (Len(s) - n + i) = Len(source) - n + i
      BY <1>1
    <3>3. Body(s, c)[i] = s[Len(s) - n + i]
      BY <1>1, <1>4, <1>5, BodyAt
    <3>4. Body(source, c)[i] = source[Len(source) - n + i]
      BY <1>5, BodyAt
    <3> QED
      BY <1>2, <3>1, <3>2, <3>3, <3>4
  <2>3. CASE c.zip64
    <3>1. /\ Body(s, c)[1] = Body(source, c)[1]
          /\ Body(s, c)[2] = Body(source, c)[2]
          /\ Body(s, c)[3] = Body(source, c)[3]
          /\ Body(s, c)[4] = Body(source, c)[4]
          /\ Body(s, c)[5] = Body(source, c)[5]
      BY <2>2, <2>3
    <3> QED
      BY <2>1, <2>3, <3>1 DEF ParsedAs
  <2>4. CASE ~c.zip64
    <3>1. /\ Body(s, c)[1] = Body(source, c)[1]
          /\ Body(s, c)[2] = Body(source, c)[2]
          /\ Body(s, c)[3] = Body(source, c)[3]
      BY <2>2, <2>4
    <3> QED
      BY <2>1, <2>4, <3>1 DEF ParsedAs
  <2> QED
    BY <2>3, <2>4
<1> QED
  BY <1>4, <1>5 DEF Fits

LEMMA TailParsed ==
  ASSUME source \in Seq(Words), NEW t \in Nat,
         hasDescriptor => t = 0 \/ t + 6 <= Len(source)
  PROVE  Parsed(EndFrom(t), Len(source)) = Whole
<1>1. CASE ~hasDescriptor
  BY <1>1 DEF Parsed, Whole
<1>2. CASE hasDescriptor
  <2>1. ASSUME NEW k \in 1 .. 4
        PROVE  /\ Fits(EndFrom(t), Len(source), Forms[k])
                    <=> Fits(source, Len(source), Forms[k])
               /\ Fits(source, Len(source), Forms[k])
                    => ParsedAs(EndFrom(t), Forms[k]) = ParsedAs(source, Forms[k])
    <3>1. Form(Forms[k])
      BY FormsTyped DEF Form
    <3> QED
      BY <1>2, <3>1, TailFits
  <2>2. FirstFit(EndFrom(t), Len(source)) = FirstFit(source, Len(source))
    BY <2>1, FormsTyped DEF FirstFit
  <2>3. CASE FirstFit(source, Len(source)) = {}
    BY <2>2, <2>3 DEF Parsed, Whole
  <2>4. CASE FirstFit(source, Len(source)) # {}
    <3> DEFINE k == CHOOSE j \in FirstFit(source, Len(source)) : TRUE
    <3>1. k \in FirstFit(source, Len(source))
      BY <2>4
    <3>2. k \in 1 .. 4 /\ Fits(source, Len(source), Forms[k])
      BY <3>1, FormsTyped DEF FirstFit
    <3>3. ParsedAs(EndFrom(t), Forms[k]) = ParsedAs(source, Forms[k])
      BY <2>1, <3>2
    <3> QED
      BY <1>2, <2>2, <2>4, <3>3 DEF Parsed, Whole
  <2> QED
    BY <2>3, <2>4
<1> QED
  BY <1>1, <1>2

-----------------------------------------------------------------------------
(* The descriptor is within the source, and no longer than what is held    *)
(* back.                                                                   *)
LEMMA WholeTyped ==
  ASSUME source \in Seq(Words)
  PROVE  /\ Whole.size \in 0 .. 6 /\ Whole.size <= Len(source)
         /\ ~hasDescriptor => Whole.size = 0
         /\ Whole.desc \in Descriptors \cup {NoDescriptor}
<1>1. CASE ~hasDescriptor \/ FirstFit(source, Len(source)) = {}
  BY <1>1 DEF Parsed, Whole
<1>2. CASE hasDescriptor /\ FirstFit(source, Len(source)) # {}
  <2> DEFINE k == CHOOSE j \in FirstFit(source, Len(source)) : TRUE
             c == Forms[k]
  <2>1. k \in FirstFit(source, Len(source))
    BY <1>2
  <2>2. k \in 1 .. 4 /\ Fits(source, Len(source), c)
    BY <2>1, FormsTyped DEF FirstFit
  <2>3. Form(c) /\ c.size \in Sizes
    BY <2>2, FormsTyped DEF Form, Sizes
  <2>4. Whole = [ desc |-> ParsedAs(source, c), size |-> c.size ]
    BY <1>2 DEF Parsed, Whole
  <2>5. Len(source) >= c.size
    BY <2>2 DEF Fits
  <2>6. \A a, b \in Words : a \in Nat /\ a + Base * b \in Nat
    BY WordAssumption DEF Words
  <2>7. \A i \in 1 .. (IF c.zip64 THEN 5 ELSE 3) : Body(source, c)[i] \in Words
    BY <2>3, <2>5, BodyAt
  <2>8. ParsedAs(source, c) \in Descriptors
    <3>1. CASE c.zip64
      <4>1. /\ Body(source, c)[1] \in Words /\ Body(source, c)[2] \in Words
            /\ Body(source, c)[3] \in Words /\ Body(source, c)[4] \in Words
            /\ Body(source, c)[5] \in Words
        BY <2>7, <3>1
      <4> HIDE DEF c
      <4> QED
        BY <2>6, <3>1, <4>1 DEF ParsedAs, Descriptors
    <3>2. CASE ~c.zip64
      <4>1. /\ Body(source, c)[1] \in Words /\ Body(source, c)[2] \in Words
            /\ Body(source, c)[3] \in Words
        BY <2>7, <3>2
      <4> HIDE DEF c
      <4> QED
        BY <2>6, <3>2, <4>1 DEF ParsedAs, Descriptors
    <3> QED
      BY <3>1, <3>2
  <2> HIDE DEF c
  <2> QED
    BY <1>2, <2>3, <2>4, <2>5, <2>8 DEF Sizes
<1> QED
  BY <1>1, <1>2

-----------------------------------------------------------------------------
(* Until the source ends a whole descriptor is pending, or nothing has     *)
(* been emitted; then exactly the rest of the payload is pending.          *)
Held == hasDescriptor /\ ~eof => emitted = 0 \/ emitted + 6 <= end

Ended == eof => end = Len(source) - Whole.size /\ desc = Whole.desc /\ ~err

Reported == result = "EOF" => eof /\ emitted = end

IInv == TypeOK /\ Held /\ Ended /\ Reported

LEMMA InvInit == Init => IInv
<1> SUFFICES ASSUME Init
             PROVE  IInv
  OBVIOUS
<1>1. source \in Seq(0 .. Base - 1) /\ Len(source) \in Nat
  BY SourceAssumption DEF Init
<1>2. TypeOK
  <2>1. hasDescriptor \in BOOLEAN /\ eof \in BOOLEAN /\ err \in BOOLEAN
    BY DEF Init
  <2>2. emitted \in Nat /\ end \in emitted .. Len(source)
    BY <1>1 DEF Init
  <2>3. desc \in Descriptors \cup {NoDescriptor}
    BY DEF Init
  <2> QED
    BY <1>1, <2>1, <2>2, <2>3 DEF Init, TypeOK
<1>3. Held /\ Ended /\ Reported
  BY DEF Init, Held, Ended, Reported
<1> QED
  BY <1>2, <1>3 DEF IInv

(* Only what the buffer holds changes when the source is read.             *)
LEMMA InvStep ==
  ASSUME IInv, Next
  PROVE  IInv' /\ source' = source /\ hasDescriptor' = hasDescriptor
<1> USE DEF Words
<1>1. /\ source \in Seq(Words) /\ Len(source) \in Nat /\ emitted \in Nat
      /\ end \in emitted .. Len(source) /\ end \in Nat
  BY DEF IInv, TypeOK
<1>2. Whole.size \in 0 .. 6 /\ Whole.size <= Len(source)
        /\ (~hasDescriptor => Whole.size = 0)
        /\ Whole.desc \in Descriptors \cup {NoDescriptor}
  BY <1>1, WholeTyped
<1>3. source' = source /\ hasDescriptor' = hasDescriptor
  BY DEF Next, Progress, Deliver, Refill, ReturnEOF, ReturnError,
         RefillAtEOF, RefillFails
<1>4. Whole' = Whole
  BY <1>3 DEF Whole, Parsed, FirstFit, Fits, ParsedAs, Body
<1> SUFFICES IInv'
  BY <1>3
<1>5. ASSUME NEW n \in 1 .. BufSize, Deliver(n)
      PROVE  IInv'
  <2>1. emitted' = emitted + n /\ n \in 1 .. (end - emitted - holdBack)
    BY <1>5 DEF Deliver, avail
  <2>2. holdBack \in Nat /\ (hasDescriptor /\ ~eof => holdBack = 6)
    BY DEF holdBack, dataDescriptor64Words
  <2>3. emitted' \in Nat /\ emitted' + holdBack <= end
    BY <1>1, <2>1, <2>2
  <2>4. end' \in emitted' .. Len(source')
    BY <1>1, <1>5, <2>2, <2>3 DEF Deliver
  <2>5. TypeOK'
    BY <1>5, <2>3, <2>4 DEF Deliver, IInv, TypeOK
  <2>6. Held'
    BY <1>5, <2>2, <2>3 DEF Deliver, Held
  <2>7. Ended' /\ Reported'
    BY <1>4, <1>5 DEF Deliver, IInv, Ended, Reported
  <2> QED
    BY <2>5, <2>6, <2>7 DEF IInv
<1>6. CASE ReturnEOF
  <2>1. emitted = end
    BY <1>1, <1>6 DEF ReturnEOF, avail, holdBack
  <2> QED
    BY <1>4, <1>6, <2>1 DEF ReturnEOF, IInv, TypeOK, Held, Ended, Reported
<1>7. CASE ReturnError
  BY <1>4, <1>7 DEF ReturnError, IInv, TypeOK, Held, Ended, Reported
<1>8. ASSUME NEW n \in 0 .. BufSize, Refill(n) \/ RefillFails(n)
      PROVE  IInv'
  <2>1. n \in Nat /\ end' = end + n /\ emitted' = emitted
          /\ end + n <= Len(source) /\ ~eof /\ result = "more"
          /\ eof' = eof /\ result' = result /\ desc' = desc
          /\ err' \in BOOLEAN
    <3>1. n \in Nat /\ err \in BOOLEAN
      BY BufferAssumption DEF IInv, TypeOK
    <3>2. CASE Refill(n)
      BY <3>1, <3>2 DEF Refill, MustRefill
    <3>3. CASE RefillFails(n)
      BY <3>1, <3>3 DEF RefillFails, MustRefill
    <3> QED
      BY <1>8, <3>2, <3>3
  <2>2. end' \in emitted' .. Len(source')
    BY <1>1, <1>3, <2>1
  <2>3. TypeOK'
    BY <1>3, <2>1, <2>2 DEF IInv, TypeOK
  <2>4. Held' /\ Ended' /\ Reported'
    BY <1>1, <1>3, <2>1 DEF IInv, Held, Ended, Reported
  <2> QED
    BY <2>3, <2>4 DEF IInv
<1>9. ASSUME NEW n \in 0 .. BufSize, RefillAtEOF(n)
      PROVE  IInv'
  <2>1. /\ end + n = Len(source) /\ n \in Nat /\ ~eof /\ ~err
        /\ result = "more" /\ result' = result /\ emitted' = emitted
        /\ eof' = TRUE /\ err' = err
    BY <1>9, BufferAssumption DEF RefillAtEOF, MustRefill
  <2>2. hasDescriptor => emitted = 0 \/ emitted + 6 <= Len(source)
    BY <1>1, <2>1 DEF IInv, Held
  <2>3. Parsed(EndFrom(emitted), Len(source)) = Whole
    BY <1>1, <2>2, TailParsed
  <2>4. desc' = Whole.desc /\ end' = Len(source) - Whole.size
    <3>1. Parsed(SubSeq(source, emitted + 1, end + n), end + n) = Whole
      BY <2>1, <2>3 DEF EndFrom
    <3> DEFINE parsed == Parsed(SubSeq(source, emitted + 1, end + n), end + n)
    <3>2. desc' = parsed.desc /\ end' = end + n - parsed.size
      BY <1>9 DEF RefillAtEOF
    <3>3. parsed = Whole
      BY <3>1
    <3> HIDE DEF parsed
    <3> QED
      BY <1>1, <1>2, <2>1, <3>2, <3>3
  <2>5. end' \in emitted' .. Len(source')
    BY <1>1, <1>2, <1>3, <2>1, <2>2, <2>4
  <2>6. TypeOK'
    BY <1>2, <1>3, <2>1, <2>4, <2>5 DEF IInv, TypeOK
  <2>7. Held' /\ Ended' /\ Reported'
    BY <1>3, <1>4, <2>1, <2>4 DEF Held, Ended, Reported
  <2> QED
    BY <2>6, <2>7 DEF IInv
<1> QED
  <2>1. 0 \in 0 .. BufSize /\ 1 .. BufSize \subseteq 0 .. BufSize
    BY BufferAssumption
  <2> QED
    BY <1>5, <1>6, <1>7, <1>8, <1>9, <2>1 DEF Next, Progress

-----------------------------------------------------------------------------
(* The inductive invariant: what is held back covers the descriptor, until *)
(* the end of the source is seen and its size is known.                    *)
(* (descriptorStripper.Read, parseDescriptor)                              *)
THEOREM Invariant == Spec => []IInv
<1>1. IInv /\ [Next]_vars => IInv'
  <2> SUFFICES ASSUME IInv, [Next]_vars
               PROVE  IInv'
    OBVIOUS
  <2>1. CASE Next
    BY <2>1, InvStep
  <2>2. CASE UNCHANGED vars
    <3>1. Whole' = Whole
      BY <2>2 DEF vars, Whole, Parsed, FirstFit, Fits, ParsedAs, Body
    <3> QED
      BY <2>2, <3>1 DEF vars, IInv, TypeOK, Held, Ended, Reported
  <2> QED
    BY <2>1, <2>2
<1> QED
  BY <1>1, InvInit, PTL DEF Spec

(* The buffer and the position in it keep their types: the pending words   *)
(* are always a part of the source.                                        *)
THEOREM TypeCorrect == Spec => []TypeOK
<1>1. IInv => TypeOK
  BY DEF IInv
<1> QED
  BY <1>1, Invariant, PTL

(* No word of the descriptor is handed out, wherever the source ends or    *)
(* fails.  (holdBack, raw_reader.go:97)                                    *)
LEMMA PayloadOnlyHolds == IInv => PayloadOnly
<1> SUFFICES ASSUME IInv
             PROVE  emitted <= Len(source) - Whole.size
  BY DEF PayloadOnly
<1>1. /\ source \in Seq(Words) /\ Len(source) \in Nat /\ emitted \in Nat
      /\ end \in emitted .. Len(source) /\ end \in Nat
  BY DEF IInv, TypeOK, Words
<1>2. Whole.size \in 0 .. 6 /\ Whole.size <= Len(source)
        /\ (~hasDescriptor => Whole.size = 0)
  BY <1>1, WholeTyped
<1>3. CASE eof
  BY <1>1, <1>2, <1>3 DEF IInv, Ended
<1>4. CASE ~eof
  BY <1>1, <1>2, <1>4 DEF IInv, Held
<1> QED
  BY <1>3, <1>4

(* Nothing of a descriptor is ever handed out, whatever the source returns *)
(* in one read and wherever its end falls.  (descriptorStripper.Read)      *)
THEOREM PayloadAlwaysOnly == Spec => []PayloadOnly
BY PayloadOnlyHolds, Invariant, PTL

(* The stripper implements the reader that knows the whole source: it      *)
(* hands out the payload, to its end, and reports its descriptor.          *)
THEOREM Refinement == Spec => ImplementsRawPart
<1>1. Init => Abstract!Init
  <2> SUFFICES ASSUME Init
               PROVE  Abstract!Init
    OBVIOUS
  <2>1. source \in Seq(Words) /\ Len(source) \in Nat
    BY SourceAssumption DEF Init, Words
  <2>2. Len(source) - Whole.size \in Nat
    BY <2>1, WholeTyped
  <2> QED
    BY <2>2 DEF Init, Abstract!Init
<1>2. IInv /\ IInv' /\ [Next]_vars => [Abstract!Next]_(Abstract!vars)
  <2> SUFFICES ASSUME IInv, IInv', [Next]_vars
               PROVE  [Abstract!Next]_(Abstract!vars)
    OBVIOUS
  <2>1. CASE UNCHANGED vars
    BY <2>1 DEF vars, Abstract!vars, Whole, Parsed, FirstFit, Fits, ParsedAs,
                Body
  <2>2. CASE Next
    <3>1. source' = source /\ hasDescriptor' = hasDescriptor
      BY <2>2, InvStep
    <3>2. Whole' = Whole /\ Len(source') = Len(source)
      BY <3>1 DEF Whole, Parsed, FirstFit, Fits, ParsedAs, Body
    <3>3. Len(source) \in Nat /\ emitted \in Nat /\ Whole.size \in Nat
      BY WholeTyped DEF IInv, TypeOK, Words
    <3>4. ASSUME NEW n \in 1 .. BufSize, Deliver(n)
          PROVE  Abstract!Deliver
      <4>1. result = "more" /\ result' = "more" /\ emitted' = emitted + n
              /\ emitted' + holdBack <= end
        <5>1. emitted \in Nat /\ end \in Nat /\ holdBack \in Nat
          BY <3>3 DEF IInv, TypeOK, holdBack, dataDescriptor64Words
        <5> QED
          BY <3>4, <5>1 DEF Deliver, avail
      <4>2. emitted' <= Len(source) - Whole.size
        <5>1. end \in Nat /\ end <= Len(source) /\ emitted' \in Nat
          BY <3>3, <4>1 DEF IInv, TypeOK
        <5>2. CASE eof
          BY <3>3, <4>1, <5>1, <5>2 DEF IInv, Ended, holdBack
        <5>3. CASE ~eof /\ hasDescriptor
          <6>1. holdBack = 6 /\ Whole.size <= 6
            BY <5>3, WholeTyped
               DEF holdBack, dataDescriptor64Words, IInv, TypeOK, Words
          <6> QED
            BY <3>3, <4>1, <5>1, <6>1
        <5>4. CASE ~eof /\ ~hasDescriptor
          <6>1. holdBack = 0 /\ Whole.size = 0
            BY <5>4, WholeTyped DEF holdBack, IInv, TypeOK, Words
          <6> QED
            BY <3>3, <4>1, <5>1, <6>1
        <5> QED
          BY <5>2, <5>3, <5>4
      <4>3. emitted' \in (emitted + 1) .. (Len(source) - Whole.size)
        BY <3>3, <4>1, <4>2
      <4> QED
        BY <3>2, <4>1, <4>3 DEF Abstract!Deliver
    <3>5. CASE ReturnEOF
      <4>1. result = "more" /\ result' = "EOF" /\ emitted' = emitted
              /\ desc' = desc /\ eof
        BY <3>5 DEF ReturnEOF
      <4>2. emitted' = end'
        BY <4>1 DEF IInv, Reported
      <4>3. emitted = end
        BY <3>5, <4>1, <4>2 DEF ReturnEOF
      <4>4. emitted = Len(source) - Whole.size /\ desc = Whole.desc
        BY <4>1, <4>3 DEF IInv, Ended
      <4> QED
        BY <3>2, <4>1, <4>4 DEF Abstract!End, Abstract!Next
    <3>6. CASE ReturnError
      BY <3>2, <3>6 DEF ReturnError, Abstract!Fail, Abstract!Next
    <3>7. ASSUME NEW n \in 0 .. BufSize,
                 Refill(n) \/ RefillAtEOF(n) \/ RefillFails(n)
          PROVE  UNCHANGED Abstract!vars
      <4>1. result = "more" /\ result' = "more" /\ emitted' = emitted
        BY <3>7 DEF Refill, RefillAtEOF, RefillFails, MustRefill
      <4> QED
        BY <3>2, <4>1 DEF Abstract!vars
    <3>8. 0 \in 0 .. BufSize /\ 1 .. BufSize \subseteq 0 .. BufSize
      BY BufferAssumption
    <3> QED
      BY <2>2, <3>4, <3>5, <3>6, <3>7, <3>8
         DEF Next, Progress, Abstract!Next
  <2> QED
    BY <2>1, <2>2
<1> QED
  BY <1>1, <1>2, Invariant, PTL DEF Spec, Abstract!Spec, ImplementsRawPart

-----------------------------------------------------------------------------
(* Which of the forms that fit is taken.                                   *)

(* The words that a form looks at, counted from the end of the source.     *)
Last(i) == source[Len(source) + 1 - i]

LEMMA FitsWords ==
  ASSUME source \in Seq(Words), NEW k \in 1 .. 4,
         Fits(source, Len(source), Forms[k])
  PROVE  LET d == ParsedAs(source, Forms[k])
         IN /\ k \in {1, 3} =>
                 /\ Len(source) >= 5
                 /\ d.crc = Last(5) /\ d.csize = Last(4) + Base * Last(3)
            /\ k \in {2, 4} =>
                 /\ Len(source) >= 3
                 /\ d.crc = Last(3) /\ d.csize = Last(2)
            /\ k = 2 => Len(source) >= 4 /\ Last(4) = Signature
            /\ d.csize = Len(source) - Forms[k].size
<1> DEFINE c == Forms[k]
           n == IF c.zip64 THEN 5 ELSE 3
           d == ParsedAs(source, c)
           L == Len(source)
<1>1. /\ Form(c) /\ L \in Nat
      /\ k \in {1, 3} => c.zip64
      /\ k \in {2, 4} => ~c.zip64
      /\ k = 2 => c.sig /\ c.size = 4
  <2>1. /\ Forms[1].zip64 = TRUE /\ Forms[2].zip64 = FALSE
        /\ Forms[3].zip64 = TRUE /\ Forms[4].zip64 = FALSE
        /\ Forms[2].sig = TRUE /\ Forms[2].size = 4
    BY DEF Forms
  <2>2. Form(c)
    BY FormsTyped DEF Form
  <2> QED
    BY <2>1, <2>2
<1>2. L >= c.size /\ d.csize = L - c.size
        /\ (c.sig => source[L - c.size + 1] = Signature)
  BY DEF Fits
<1>3. \A i \in 1 .. n : Body(source, c)[i] = source[L - n + i]
  BY <1>1, <1>2, BodyAt
<1>4. d = IF c.zip64
          THEN [ crc |-> Body(source, c)[1],
                 csize |-> Body(source, c)[2] + Base * Body(source, c)[3],
                 usize |-> Body(source, c)[4] + Base * Body(source, c)[5] ]
          ELSE [ crc |-> Body(source, c)[1], csize |-> Body(source, c)[2],
                 usize |-> Body(source, c)[3] ]
  BY DEF ParsedAs
<1> HIDE DEF c, d
<1>5. CASE k \in {1, 3}
  <2>1. n = 5 /\ L >= 5 /\ c.zip64
    BY <1>1, <1>2, <1>5 DEF Form
  <2>2. /\ d.crc = Body(source, c)[1]
        /\ d.csize = Body(source, c)[2] + Base * Body(source, c)[3]
    BY <1>4, <2>1
  <2>3. /\ Body(source, c)[1] = source[L - 4] /\ Body(source, c)[2] = source[L - 3]
        /\ Body(source, c)[3] = source[L - 2]
    <3>1. L - 5 + 1 = L - 4 /\ L - 5 + 2 = L - 3 /\ L - 5 + 3 = L - 2
      BY <1>1
    <3>2. \A i \in 1 .. 5 : Body(source, c)[i] = source[L - 5 + i]
      BY <1>3, <2>1
    <3> HIDE DEF L
    <3>3. /\ Body(source, c)[1] = source[L - 5 + 1]
          /\ Body(source, c)[2] = source[L - 5 + 2]
          /\ Body(source, c)[3] = source[L - 5 + 3]
      BY <3>2
    <3> QED
      BY <3>1, <3>3
  <2>4. Last(5) = source[L - 4] /\ Last(4) = source[L - 3] /\ Last(3) = source[L - 2]
    <3>1. L + 1 - 5 = L - 4 /\ L + 1 - 4 = L - 3 /\ L + 1 - 3 = L - 2
      BY <1>1
    <3> QED
      BY <3>1 DEF Last
  <2> HIDE DEF L
  <2> QED
    BY <1>1, <1>2, <1>5, <2>1, <2>2, <2>3, <2>4 DEF c, d, L
<1>6. CASE k \in {2, 4}
  <2>1. n = 3 /\ L >= 3 /\ ~c.zip64
    BY <1>1, <1>2, <1>6 DEF Form
  <2>2. d.crc = Body(source, c)[1] /\ d.csize = Body(source, c)[2]
    BY <1>4, <2>1
  <2>3. Body(source, c)[1] = source[L - 2] /\ Body(source, c)[2] = source[L - 1]
    <3>1. L - 3 + 1 = L - 2 /\ L - 3 + 2 = L - 1
      BY <1>1
    <3>2. \A i \in 1 .. 3 : Body(source, c)[i] = source[L - 3 + i]
      BY <1>3, <2>1
    <3> HIDE DEF L
    <3>3. /\ Body(source, c)[1] = source[L - 3 + 1]
          /\ Body(source, c)[2] = source[L - 3 + 2]
      BY <3>2
    <3> QED
      BY <3>1, <3>3
  <2>4. Last(3) = source[L - 2] /\ Last(2) = source[L - 1]
    <3>1. L + 1 - 3 = L - 2 /\ L + 1 - 2 = L - 1
      BY <1>1
    <3> QED
      BY <3>1 DEF Last
  <2>5. k = 2 => L >= 4 /\ Last(4) = Signature
    <3>1. ASSUME k = 2
          PROVE  L >= 4 /\ source[L - 4 + 1] = Signature /\ L + 1 - 4 = L - 4 + 1
      BY <1>1, <1>2, <3>1
    <3> QED
      BY <3>1 DEF Last
  <2> HIDE DEF L
  <2> QED
    BY <1>1, <1>2, <1>6, <2>1, <2>2, <2>3, <2>4, <2>5 DEF c, d, L
<1> QED
  BY <1>5, <1>6

(* Two forms do not both fit when the later one is certain: the size each  *)
(* reads would have to be the number of words in front of it.              *)
LEMMA EarlierFormsMiss ==
  ASSUME source \in Seq(Words), NEW k \in 1 .. 4, Certain(Forms[k]),
         NEW m \in 1 .. 4, Fits(source, Len(source), Forms[m])
  PROVE  ~(m < k)
<1> DEFINE L == Len(source)
           d == ParsedAs(source, Forms[k])
           e == ParsedAs(source, Forms[m])
<1> SUFFICES ASSUME m < k
             PROVE  FALSE
  OBVIOUS
<1>1. Fits(source, L, Forms[k]) /\ d.crc # 0 /\ d.csize # Signature
  BY DEF Certain
<1>2. /\ k \in {1, 3} =>
           L >= 5 /\ d.crc = Last(5) /\ d.csize = Last(4) + Base * Last(3)
      /\ k \in {2, 4} => L >= 3 /\ d.crc = Last(3) /\ d.csize = Last(2)
      /\ k = 2 => L >= 4 /\ Last(4) = Signature
      /\ d.csize = L - Forms[k].size
  BY <1>1, FitsWords
<1>3. /\ m \in {1, 3} =>
           L >= 5 /\ e.crc = Last(5) /\ e.csize = Last(4) + Base * Last(3)
      /\ m \in {2, 4} => L >= 3 /\ e.crc = Last(3) /\ e.csize = Last(2)
      /\ m = 2 => L >= 4 /\ Last(4) = Signature
      /\ e.csize = L - Forms[m].size
  BY FitsWords
<1>4. /\ Forms[1].size = 6 /\ Forms[2].size = 4
      /\ Forms[3].size = 5 /\ Forms[4].size = 3
  BY DEF Forms
<1>5. L \in Nat /\ \A i \in 1 .. L : source[i] \in Words
  OBVIOUS
<1>6. \A i \in 1 .. 5 : L >= i => Last(i) \in Words
  <2>1. \A i \in 1 .. 5 : L >= i => L + 1 - i \in 1 .. L
    BY <1>5
  <2> QED
    BY <1>5, <2>1 DEF Last
<1> DEFINE x == Last(3)
           y == Last(4)
           z == Last(2)
<1> HIDE DEF d, e, L, x, y, z
<1>7. Base \in Nat /\ Base > 0
  BY WordAssumption
<1>8. \A i \in Nat : i # 0 => Base * i >= Base
  <2>1. ASSUME NEW i \in Nat, i # 0
        PROVE  Base * i >= Base
    <3>1. i - 1 \in Nat
      BY <2>1
    <3>2. Base * (i - 1) \in Nat
      BY <1>7, <3>1
    <3>3. Base * i = Base + Base * (i - 1)
      BY <1>7, <3>1
    <3> QED
      BY <1>7, <3>2, <3>3
  <2> QED
    BY <2>1
<1>9. ASSUME NEW w \in Words
      PROVE  w \in Nat /\ w < Base /\ Base * 0 = 0
  BY <1>7 DEF Words
(* The later form has 32 bit sizes: the earlier one would read its         *)
(* checksum for the high half of a size.                                   *)
<1>10. CASE m \in {1, 3} /\ k \in {2, 4}
  <2>1. x # 0 /\ z = L - Forms[k].size /\ y + Base * x = L - Forms[m].size
          /\ x \in Words /\ y \in Words /\ z \in Words
    BY <1>1, <1>2, <1>3, <1>5, <1>6, <1>10 DEF x, y, z
  <2>2. Base * x >= Base /\ z < Base /\ y \in Nat /\ Base * x \in Int
    BY SMTT(30), <1>7, <1>8, <1>9, <2>1
  <2>3. Forms[k].size < Forms[m].size /\ Forms[k].size \in Nat /\ Forms[m].size \in Nat
    BY <1>4, <1>10
  <2> QED
    BY SMTT(30), <1>5, <1>7, <2>1, <2>2, <2>3
(* Both read the same size, from the same words.                           *)
<1>11. CASE \/ m = 1 /\ k = 3
            \/ m = 2 /\ k = 4
  <2>1. d.csize = e.csize
    BY <1>2, <1>3, <1>11
  <2> QED
    BY <1>2, <1>3, <1>4, <1>5, <1>11, <2>1
(* The signature of the earlier one would be the low half of the size.     *)
<1>12. CASE m = 2 /\ k = 3
  <2>1. /\ y = Signature /\ z = L - 4 /\ d.csize = y + Base * x
        /\ d.csize = L - 5 /\ x \in Words /\ y \in Words /\ z \in Words
    BY <1>2, <1>3, <1>4, <1>5, <1>6, <1>12 DEF x, y, z
  <2>2. CASE x = 0
    <3>1. d.csize = Signature
      BY <1>9, <2>1, <2>2
    <3> QED
      BY <1>1, <3>1
  <2>3. CASE x # 0
    <3>1. Base * x >= Base /\ z < Base /\ y \in Nat /\ Base * x \in Int
      BY <1>7, <1>8, <1>9, <2>1, <2>3
    <3> QED
      BY <1>5, <1>7, <2>1, <3>1
  <2> QED
    BY <2>2, <2>3
<1>13. \/ m \in {1, 3} /\ k \in {2, 4}
       \/ m = 1 /\ k = 3
       \/ m = 2 /\ k = 4
       \/ m = 2 /\ k = 3
  OBVIOUS
<1> QED
  BY <1>10, <1>11, <1>12, <1>13

LEMMA CertainIsTaken ==
  ASSUME source \in Seq(Words), hasDescriptor, NEW k \in 1 .. 4,
         Certain(Forms[k])
  PROVE  Whole.desc = ParsedAs(source, Forms[k])
<1> DEFINE F == FirstFit(source, Len(source))
<1>1. Fits(source, Len(source), Forms[k])
  BY DEF Certain
<1>2. DOMAIN Forms = 1 .. 4
  BY FormsTyped
<1>3. \A m \in F : m = k
  <2>1. ASSUME NEW m \in F
        PROVE  m = k
    <3>1. /\ m \in 1 .. 4 /\ Fits(source, Len(source), Forms[m])
          /\ \A j \in 1 .. (m - 1) : ~Fits(source, Len(source), Forms[j])
      BY <1>2 DEF FirstFit
    <3>2. ~(m < k)
      BY <3>1, EarlierFormsMiss
    <3>3. ~(k < m)
      BY <1>1, <3>1
    <3> QED
      BY <3>1, <3>2, <3>3
  <2> QED
    BY <2>1
<1>4. k \in F
  <2>1. \A j \in 1 .. (k - 1) : ~Fits(source, Len(source), Forms[j])
    <3>1. ASSUME NEW j \in 1 .. (k - 1)
          PROVE  ~Fits(source, Len(source), Forms[j])
      <4>1. j \in 1 .. 4 /\ j < k
        OBVIOUS
      <4> QED
        BY <4>1, EarlierFormsMiss
    <3> QED
      BY <3>1
  <2> QED
    BY <1>1, <1>2, <2>1 DEF FirstFit
<1> DEFINE j == CHOOSE m \in F : TRUE
<1>5. j = k
  <2> HIDE DEF F
  <2> QED
    BY <1>3, <1>4
<1>6. Whole.desc = ParsedAs(source, Forms[j])
  <2>1. F # {}
    BY <1>4
  <2> QED
    BY <2>1 DEF Whole, Parsed
<1> HIDE DEF j
<1> QED
  BY <1>5, <1>6

(* The descriptor that Close of the writer put there is the one found,     *)
(* whatever the payload holds and wherever the reads are cut, as long as   *)
(* it cannot be read as a part of a longer one: its checksum is not 0 and  *)
(* its size is not the number of the signature.  (parseDescriptor,         *)
(* raw_reader.go:166)                                                      *)
THEOREM TrueDescriptorAlwaysTaken == Spec => []TrueDescriptorTaken
<1>1. IInv => TrueDescriptorTaken
  <2> SUFFICES ASSUME IInv, result = "EOF", hasDescriptor,
                      NEW k \in DOMAIN Forms, Certain(Forms[k])
               PROVE  desc = ParsedAs(source, Forms[k])
    BY DEF TrueDescriptorTaken
  <2>1. desc = Whole.desc /\ source \in Seq(Words)
    BY DEF IInv, Reported, Ended, TypeOK, Words
  <2>2. k \in 1 .. 4
    BY FormsTyped
  <2> QED
    BY <2>1, <2>2, CertainIsTaken
<1> QED
  BY <1>1, Invariant, PTL
=============================================================================
