----------------------------- MODULE KeyStream -----------------------------
(***************************************************************************)
(* The key stream of WinZip AES: the ctr of crypto.go, which encrypts      *)
(* block after block of a little-endian counter into a buffer and hands    *)
(* the buffer out in pieces of any size.  The two sides of a copy cut the  *)
(* data into different calls, so the stream must depend on the position    *)
(* alone.  AES is external: the key byte j of the block encrypted from     *)
(* counter c is the pair <<c, j>>.                                         *)
(***************************************************************************)
EXTENDS Integers, Sequences

CONSTANTS
  BlockSize,     (* x.b.BlockSize()                                        *)
  BufSize,       (* streamBufferSize, not less than a block                *)
  DigitBase,     (* a byte of the counter is a number below it: 256        *)
  MaxCall,       (* bound: bytes in a call                                 *)
  MaxStream      (* bound: bytes altogether                                *)

ASSUME SizeAssumption ==
  /\ DigitBase \in Nat /\ DigitBase > 1
  /\ BlockSize \in Nat \ {0}
  /\ BufSize \in Nat /\ BufSize > 2 * BlockSize

VARIABLES
  ctr,        (* x.ctr                                                     *)
  out,        (* x.out                                                     *)
  outUsed,    (* x.outUsed                                                 *)
  left,       (* len(src) in the call of XORKeyStream under way            *)
  used        (* history: the key bytes used, in the order of the data     *)

vars == <<ctr, out, outUsed, left, used>>

Counters == [1 .. BlockSize -> 0 .. DigitBase - 1]
KeyBytes == Counters \X (0 .. BlockSize - 1)

TypeOK ==
  /\ ctr \in Counters
  /\ out \in Seq(KeyBytes) /\ Len(out) < BufSize
  /\ outUsed \in 0 .. Len(out)
  /\ left \in Nat
  /\ used \in Seq(KeyBytes)

(* A counter of n, the least significant digit first: n is divided by the  *)
(* base once for every digit.                                              *)
Quotients(n) ==
  LET q[i \in 1 .. BlockSize] == IF i = 1 THEN n ELSE q[i - 1] \div DigitBase
  IN q

Digits(n) == [ i \in 1 .. BlockSize |-> Quotients(n)[i] % DigitBase ]

(* newWinZipCTR                                                            *)
Init ==
  /\ ctr = [ i \in 1 .. BlockSize |-> IF i = 1 THEN 1 ELSE 0 ]
  /\ out = <<>>
  /\ outUsed = 0
  /\ left = 0
  /\ used = <<>>

-----------------------------------------------------------------------------
(* Mutated form: the carry is lost.                                        *)
IncrementedFirst(c) == [ c EXCEPT ![1] = (@ + 1) % DigitBase ]
(* The counter plus one: the digits up to the first that does not become 0.*)
Incremented(c) ==
  [ i \in 1 .. BlockSize |->
      IF \A j \in 1 .. (i - 1) : c[j] = DigitBase - 1
      THEN (c[i] + 1) % DigitBase ELSE c[i] ]

CountedUp[n \in Nat] == IF n = 0 THEN ctr ELSE Incremented(CountedUp[n - 1])

(* Mutated form: as long as anything is free.                              *)
BlocksFittingOver(remain) == (BufSize - remain + BlockSize - 1) \div BlockSize
(* How many blocks refill adds behind remain bytes: one as long as more    *)
(* than a block is free.                                                   *)
BlocksFitting(remain) ==
  IF remain >= BufSize - BlockSize THEN 0
  ELSE (BufSize - remain - 1) \div BlockSize

Kept == [ ctr |-> ctr, out |-> out, outUsed |-> outUsed ]

FilledBehind(rest) ==
  LET n == BlocksFitting(Len(rest))
  IN [ ctr |-> CountedUp[n],
       out |-> rest \o [ k \in 1 .. n * BlockSize |->
                           << CountedUp[(k - 1) \div BlockSize],
                              (k - 1) % BlockSize >> ],
       outUsed |-> 0 ]

Unused == SubSeq(out, outUsed + 1, Len(out))

(* Mutated form: the bytes used stay in the buffer.                        *)
RefilledTwice ==
  IF Len(Unused) > outUsed THEN Kept ELSE FilledBehind(out)
(* Mutated form: a buffer that is exactly half used is not refilled.       *)
RefilledAboveHalf ==
  IF Len(Unused) >= outUsed THEN Kept ELSE FilledBehind(Unused)
(* refill                                                                  *)
Refilled ==
  IF Len(Unused) > outUsed THEN Kept ELSE FilledBehind(Unused)

-----------------------------------------------------------------------------
(* XORKeyStream over n bytes.                                              *)
Call(n) ==
  /\ left = 0
  /\ Len(used) + n <= MaxStream
  /\ left' = n
  /\ UNCHANGED <<ctr, out, outUsed, used>>

(* One iteration of its loop.                                              *)
XORKeyStream ==
  /\ left > 0
  /\ LET x == IF outUsed >= Len(out) - BlockSize THEN Refilled ELSE Kept
         ready == Len(x.out) - x.outUsed
         n     == IF left < ready THEN left ELSE ready
     IN /\ ctr' = x.ctr
        /\ out' = x.out
        /\ outUsed' = x.outUsed + n
        /\ left' = left - n
        /\ used' = used \o SubSeq(x.out, x.outUsed + 1, x.outUsed + n)

Next == XORKeyStream \/ \E n \in 1 .. MaxCall : Call(n)

(* A call is a loop of the caller's goroutine, which runs on.              *)
Spec == Init /\ [][Next]_vars /\ WF_vars(XORKeyStream)

-----------------------------------------------------------------------------
(* Byte i of the data is encrypted with byte i of the stream, however the  *)
(* data is cut into calls: none is skipped and none is used twice, and the *)
(* counter starts with 1 and carries into its second digit.                *)
KeyByte(i) == << Digits((i - 1) \div BlockSize + 1), (i - 1) % BlockSize >>

KeyBytesInOrder == \A i \in DOMAIN used : used[i] = KeyByte(i)

(* Every call returns: refill leaves at least one byte to use.             *)
StreamCallsReturn == left > 0 ~> left = 0
=============================================================================
