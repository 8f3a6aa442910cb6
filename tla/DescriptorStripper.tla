------------------------- MODULE DescriptorStripper -------------------------
(***************************************************************************)
(* The descriptorStripper of raw_reader.go: a reader that passes the       *)
(* payload of a raw part through and removes the data descriptor at its    *)
(* end, whose form and position are known only when the source ends.       *)
(*                                                                         *)
(* The unit is a word of four bytes, of which all forms of the descriptor  *)
(* consist; a word is a number below Base, and a 64 bit size is two words, *)
(* the low one first.  An action is one iteration of the loop of Read: it  *)
(* returns to the caller, or refills the buffer and goes on.               *)
(***************************************************************************)
EXTENDS Integers, Sequences

CONSTANTS
  Base,           (* words are numbers below Base: 2^32 in the code        *)
  Signature,      (* dataDescriptorSignature                               *)
  BufSize,        (* descriptorStripperBufSize                             *)
  NoDescriptor,   (* desc is nil                                           *)
  Sources         (* what the reader below will yield                      *)

(* The four forms a descriptor may have, in the order they are tried.      *)
(* Mutated form: the 32 bit sizes are tried first.                         *)
FormsNarrowFirst ==
  << [ size |-> 4, sig |-> TRUE,  zip64 |-> FALSE ],
     [ size |-> 6, sig |-> TRUE,  zip64 |-> TRUE  ],
     [ size |-> 3, sig |-> FALSE, zip64 |-> FALSE ],
     [ size |-> 5, sig |-> FALSE, zip64 |-> TRUE  ] >>
Forms ==
  << [ size |-> 6, sig |-> TRUE,  zip64 |-> TRUE  ],
     [ size |-> 4, sig |-> TRUE,  zip64 |-> FALSE ],
     [ size |-> 5, sig |-> FALSE, zip64 |-> TRUE  ],
     [ size |-> 3, sig |-> FALSE, zip64 |-> FALSE ] >>

dataDescriptor64Words == 6

ASSUME WordAssumption == Base \in Nat \ {0} /\ Signature \in 0 .. Base - 1
ASSUME BufferAssumption ==
  BufSize \in Nat /\ BufSize > dataDescriptor64Words
ASSUME SourceAssumption == Sources \subseteq Seq(0 .. Base - 1)

VARIABLES
  source,          (* what ds.r yields until it ends                       *)
  hasDescriptor,   (* ds.hasDescriptor                                     *)
  emitted,         (* ds.emitted                                           *)
  end,             (* the pending bytes are source[emitted + 1 .. end]     *)
  eof,             (* ds.eof                                               *)
  err,             (* ds.err is set                                        *)
  desc,            (* ds.desc                                              *)
  result           (* the error Read has returned, or "more"               *)

vars == <<source, hasDescriptor, emitted, end, eof, err, desc, result>>

Descriptors == [ crc : Nat, csize : Nat, usize : Nat ]

TypeOK ==
  /\ source \in Seq(0 .. Base - 1)
  /\ hasDescriptor \in BOOLEAN
  /\ emitted \in Nat
  /\ end \in emitted .. Len(source)
  /\ eof \in BOOLEAN
  /\ err \in BOOLEAN
  /\ desc \in Descriptors \cup {NoDescriptor}
  /\ result \in {"more", "EOF", "error"}

Init ==
  /\ source \in Sources
  /\ hasDescriptor \in BOOLEAN
  /\ emitted = 0
  /\ end = 0
  /\ eof = FALSE
  /\ err = FALSE
  /\ desc = NoDescriptor
  /\ result = "more"

-----------------------------------------------------------------------------
(* parseDescriptor.                                                        *)

(* The words behind the signature of a descriptor of form c that ends s.   *)
Body(s, c) == SubSeq(s, Len(s) - c.size + (IF c.sig THEN 2 ELSE 1), Len(s))

ParsedAs(s, c) ==
  LET d == Body(s, c)
  IN IF c.zip64
     THEN [ crc |-> d[1], csize |-> d[2] + Base * d[3],
            usize |-> d[4] + Base * d[5] ]
     ELSE [ crc |-> d[1], csize |-> d[2], usize |-> d[3] ]

(* Mutated form: the size is not compared with what precedes.              *)
FitsUnsized(s, total, c) ==
  /\ Len(s) >= c.size
  /\ c.sig => s[Len(s) - c.size + 1] = Signature
(* total is the length of the whole source, of which s is the end.         *)
Fits(s, total, c) ==
  /\ Len(s) >= c.size
  /\ c.sig => s[Len(s) - c.size + 1] = Signature
  /\ ParsedAs(s, c).csize = total - c.size

FirstFit(s, total) ==
  { k \in DOMAIN Forms :
      /\ Fits(s, total, Forms[k])
      /\ \A j \in 1 .. (k - 1) : ~Fits(s, total, Forms[j]) }

(* ds.desc and the words removed from the end of the pending ones.         *)
Parsed(s, total) ==
  IF ~hasDescriptor \/ FirstFit(s, total) = {}
  THEN [ desc |-> NoDescriptor, size |-> 0 ]
  ELSE LET c == Forms[CHOOSE k \in FirstFit(s, total) : TRUE]
       IN [ desc |-> ParsedAs(s, c), size |-> c.size ]

-----------------------------------------------------------------------------
(* Mutated form: room is kept for a 32 bit descriptor only.                *)
holdBackNarrow == IF hasDescriptor /\ ~eof THEN 4 ELSE 0
(* How many pending words may still belong to the descriptor.              *)
holdBack == IF hasDescriptor /\ ~eof THEN dataDescriptor64Words ELSE 0

avail == end - emitted - holdBack

(* Read returns n words of the payload.                                    *)
Deliver(n) ==
  /\ result = "more"
  /\ n \in 1 .. avail
  /\ emitted' = emitted + n
  /\ UNCHANGED <<source, hasDescriptor, end, eof, err, desc, result>>

ReturnEOF ==
  /\ result = "more"
  /\ avail <= 0 /\ eof
  /\ result' = "EOF"
  /\ UNCHANGED <<source, hasDescriptor, emitted, end, eof, err, desc>>

(* Mutated form: what is pending has to be returned first.                 *)
ReturnErrorDrained ==
  /\ result = "more"
  /\ end = emitted /\ ~eof /\ err
  /\ result' = "error"
  /\ UNCHANGED <<source, hasDescriptor, emitted, end, eof, err, desc>>
ReturnError ==
  /\ result = "more"
  /\ avail <= 0 /\ ~eof /\ err
  /\ result' = "error"
  /\ UNCHANGED <<source, hasDescriptor, emitted, end, eof, err, desc>>

(* The reader below returns n words and, by its contract, nil, io.EOF (also*)
(* together with the last words) or an error.                              *)
MustRefill(n) ==
  /\ result = "more"
  /\ avail <= 0 /\ ~eof /\ ~err
  /\ n \in 0 .. BufSize - (end - emitted)
  /\ end + n <= Len(source)

Refill(n) ==
  /\ MustRefill(n)
  /\ end' = end + n
  /\ UNCHANGED <<source, hasDescriptor, emitted, eof, err, desc, result>>

(* Mutated form: the words that came with io.EOF are not counted.          *)
RefillAtEOFUncounted(n) ==
  /\ MustRefill(n)
  /\ end + n = Len(source)
  /\ eof' = TRUE
  /\ LET parsed == Parsed(SubSeq(source, emitted + 1, end + n), end + n)
     IN /\ desc' = parsed.desc
        /\ end' = end - parsed.size
  /\ UNCHANGED <<source, hasDescriptor, emitted, err, result>>
RefillAtEOF(n) ==
  /\ MustRefill(n)
  /\ end + n = Len(source)
  /\ eof' = TRUE
  /\ LET parsed == Parsed(SubSeq(source, emitted + 1, end + n), end + n)
     IN /\ desc' = parsed.desc
        /\ end' = end + n - parsed.size
  /\ UNCHANGED <<source, hasDescriptor, emitted, err, result>>

RefillFails(n) ==
  /\ MustRefill(n)
  /\ end' = end + n
  /\ err' = TRUE
  /\ UNCHANGED <<source, hasDescriptor, emitted, eof, desc, result>>

Progress ==
  \/ \E n \in 1 .. BufSize : Deliver(n) \/ Refill(n)
  \/ ReturnEOF
  \/ ReturnError
  \/ \E n \in 0 .. BufSize : RefillAtEOF(n) \/ RefillFails(n)

(* A reader may also return nothing, and nil.                              *)
Next == Progress \/ Refill(0)

Spec == Init /\ [][Next]_vars

(* The caller reads on until Read returns an error, and the reader below   *)
(* does not return nothing for ever.                                       *)
FairSpec == Spec /\ WF_vars(Progress)

-----------------------------------------------------------------------------
(* Whichever way the source is cut into reads, the stripper behaves as one *)
(* that knows the whole source: the payload is all that precedes the       *)
(* descriptor, and after an error a beginning of it.  ("Only the last      *)
(* dataDescriptor64Len bytes are held back", raw_reader.go:97)             *)
Whole == Parsed(source, Len(source))

Abstract == INSTANCE RawPart WITH
  length    <- Len(source) - Whole.size,
  trailer   <- Whole.desc,
  delivered <- emitted,
  outcome   <- result,
  desc      <- IF result = "EOF" THEN desc ELSE NoDescriptor

ImplementsRawPart == Abstract!Spec

(* No word of the descriptor is ever handed out, wherever the source ends  *)
(* or fails.  (holdBack)                                                   *)
PayloadOnly == emitted <= Len(source) - Whole.size

(* A form of which source may be a payload and a descriptor with the right *)
(* size, and whose checksum and sizes cannot be taken for anything else:   *)
(* the checksum is not the high half of a size nor the size a signature.   *)
Certain(c) ==
  /\ Fits(source, Len(source), c)
  /\ LET d == ParsedAs(source, c)
     IN /\ d.crc # 0
        /\ d.csize # Signature

(* "A candidate is only taken if its compressed size equals the number of  *)
(* payload bytes preceding it, which rules out data that merely happens to *)
(* contain the signature" (raw_reader.go:166-168): of a part whose         *)
(* descriptor has a checksum other than 0 and a size other than the        *)
(* signature, that descriptor is the one found, whatever the payload holds.*)
TrueDescriptorTaken ==
  result = "EOF" /\ hasDescriptor =>
    \A k \in DOMAIN Forms :
      Certain(Forms[k]) => desc = ParsedAs(source, Forms[k])

(* Reading comes to an end.                                                *)
ReadingEnds == <>(result # "more")
=============================================================================
