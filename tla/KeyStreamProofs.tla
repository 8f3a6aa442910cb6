-------------------------- MODULE KeyStreamProofs --------------------------
(***************************************************************************)
(* KeyStream, for any size of block, buffer and counter, and calls of any  *)
(* size: byte i of the data meets byte i of the key stream.                *)
(***************************************************************************)
EXTENDS KeyStream, TLAPS, WellFoundedInduction

USE SizeAssumption

(* The next block to be encrypted is block M, the blocks before it have    *)
(* been handed out or are in the buffer, in order.                         *)
Aligned ==
  \E M \in Nat : /\ Len(used) + Len(out) - outUsed = BlockSize * M
                 /\ ctr = Digits(M + 1)

BufferInOrder ==
  \A k \in outUsed + 1 .. Len(out) : out[k] = KeyByte(Len(used) + k - outUsed)

IInv == TypeOK /\ Aligned /\ BufferInOrder /\ KeyBytesInOrder

-----------------------------------------------------------------------------
(* A set of numbers that is not empty has a least one.                     *)
LEMMA LeastElement ==
  ASSUME NEW S \in SUBSET Nat, S # {}
  PROVE  \E n \in S : \A m \in S : n <= m
<1> DEFINE R == { ss \in Nat \X Nat : ss[1] < ss[2] }
<1>1. IsWellFoundedOn(R, Nat)
  BY NatLessThanWellFounded DEF OpToRel
<1>2. PICK n \in S : \A m \in S : <<m, n>> \notin R
  <2> HIDE DEF R
  <2> QED
    BY <1>1, WFMin
<1>3. \A m \in S : ~(m < n)
  BY <1>2
<1> QED
  BY <1>3

(* Division with remainder, by a number that is not a literal.             *)
LEMMA Division ==
  ASSUME NEW a \in Nat, NEW b \in Nat \ {0}
  PROVE  /\ a \div b \in Nat /\ a % b \in 0 .. b - 1
         /\ a = b * (a \div b) + (a % b)
<1>1. a \div b \in Int /\ a % b \in 0 .. b - 1
  OBVIOUS
<1>2. ASSUME NEW x \in Int, NEW y \in Int, y > 0
      PROVE  x = y * (x \div y) + (x % y)
  BY <1>2
<1>3. a = b * (a \div b) + (a % b)
  BY <1>2
<1>4. ASSUME NEW q \in Int, NEW r \in 0 .. b - 1, a = b * q + r
      PROVE  q >= 0
  <2>1. SUFFICES ASSUME q <= -1
                 PROVE  FALSE
    OBVIOUS
  <2>2. b * q <= b * (-1)
    BY <2>1
  <2> QED
    BY <1>4, <2>2
<1>5. a \div b >= 0
  BY <1>1, <1>3, <1>4
<1> QED
  BY <1>1, <1>3, <1>5

LEMMA DivisionUnique ==
  ASSUME NEW b \in Nat \ {0}, NEW q \in Nat, NEW r \in 0 .. b - 1
  PROVE  (b * q + r) \div b = q /\ (b * q + r) % b = r
OBVIOUS

LEMMA DivisionOfNext ==
  ASSUME NEW a \in Nat, NEW b \in Nat \ {0}
  PROVE  /\ (a + 1) \div b = IF a % b = b - 1 THEN a \div b + 1 ELSE a \div b
         /\ (a + 1) % b = IF a % b = b - 1 THEN 0 ELSE (a % b) + 1
OBVIOUS

(* The position k behind M whole blocks.                                   *)
LEMMA DivisionBehind ==
  ASSUME NEW b \in Nat \ {0}, NEW M \in Nat, NEW k \in Nat
  PROVE  (b * M + k) \div b = M + k \div b /\ (b * M + k) % b = k % b
<1>1. /\ k \div b \in Nat /\ k % b \in 0 .. b - 1 /\ k = b * (k \div b) + (k % b)
  BY Division
<1>2. ASSUME NEW q \in Nat, NEW r \in 0 .. b - 1, k = b * q + r
      PROVE  (b * M + k) \div b = M + q /\ (b * M + k) % b = r
  <2>1. b * M + k = b * (M + q) + r
    BY <1>2
  <2>2. M + q \in Nat
    OBVIOUS
  <2> QED
    BY <2>1, <2>2, DivisionUnique
<1> QED
  BY <1>1, <1>2

-----------------------------------------------------------------------------
(* The quotients of which the digits are the remainders: the recursion has *)
(* a solution, and every solution unfolds as it says.                      *)
Divided(n, m, q) ==
  q = [ i \in 1 .. m |-> IF i = 1 THEN n ELSE q[i - 1] \div DigitBase ]

LEMMA QuotientsExist ==
  ASSUME NEW n \in Nat, NEW m \in Nat
  PROVE  \E q : Divided(n, m, q)
<1> DEFINE Bad == { k \in Nat : ~ \E q : Divided(n, k, q) }
<1>1. Bad = {}
  <2>1. SUFFICES ASSUME Bad # {}
                 PROVE  FALSE
    OBVIOUS
  <2>2. Bad \in SUBSET Nat
    OBVIOUS
  <2>3. PICK k \in Bad : \A j \in Bad : k <= j
    <3> HIDE DEF Bad
    <3> QED
      BY <2>1, <2>2, LeastElement
  <2>4. k \in Nat /\ ~ \E q : Divided(n, k, q)
    BY <2>3
  <2>5. CASE k = 0
    <3> DEFINE h == [ i \in 1 .. 0 |-> 0 ]
    <3>1. Divided(n, k, h)
      <4>1. \A i \in 1 .. 0 : FALSE
        OBVIOUS
      <4> QED
        BY <2>5, <4>1 DEF Divided
    <3> QED
      BY <2>4, <3>1
  <2>6. CASE k # 0
    <3>1. k - 1 \in Nat /\ k - 1 \notin Bad
      BY <2>3, <2>4, <2>6
    <3>2. PICK g : Divided(n, k - 1, g)
      BY <3>1
    <3>3. \A i \in 1 .. k - 1 : g[i] = IF i = 1 THEN n ELSE g[i - 1] \div DigitBase
      BY <3>2 DEF Divided
    <3> DEFINE h == [ i \in 1 .. k |->
                        IF i = k THEN IF k = 1 THEN n ELSE g[k - 1] \div DigitBase
                        ELSE g[i] ]
    <3>4. ASSUME NEW i \in 1 .. k
          PROVE  h[i] = IF i = 1 THEN n ELSE h[i - 1] \div DigitBase
      <4>1. i # 1 => i - 1 \in 1 .. k /\ i - 1 # k /\ h[i - 1] = g[i - 1]
        BY <2>4
      <4>2. i # k => i \in 1 .. k - 1
        BY <2>4
      <4> QED
        BY <3>3, <4>1, <4>2
    <3>5. h = [ i \in 1 .. k |-> h[i] ]
      OBVIOUS
    <3>6. Divided(n, k, h)
      <4> HIDE DEF h
      <4> QED
        BY <3>4, <3>5 DEF Divided
    <3> QED
      BY <2>4, <3>6
  <2> QED
    BY <2>5, <2>6
<1> QED
  BY <1>1

LEMMA QuotientsUnfold ==
  ASSUME NEW n \in Nat, NEW i \in 1 .. BlockSize
  PROVE  /\ Quotients(n)[i] \in Nat
         /\ Quotients(n)[i] = IF i = 1 THEN n
                              ELSE Quotients(n)[i - 1] \div DigitBase
<1> DEFINE q == Quotients(n)
<1>1. Divided(n, BlockSize, q)
  <2>1. q = CHOOSE g : Divided(n, BlockSize, g)
    BY DEF Quotients, Divided
  <2>2. \E g : Divided(n, BlockSize, g)
    BY QuotientsExist
  <2> HIDE DEF q
  <2> QED
    BY <2>1, <2>2
<1> HIDE DEF q
<1>2. \A j \in 1 .. BlockSize : q[j] = IF j = 1 THEN n ELSE q[j - 1] \div DigitBase
  BY <1>1 DEF Divided
<1> DEFINE Bad == { j \in 1 .. BlockSize : q[j] \notin Nat }
<1>3. Bad = {}
  <2>1. SUFFICES ASSUME Bad # {}
                 PROVE  FALSE
    OBVIOUS
  <2>2. Bad \in SUBSET Nat
    OBVIOUS
  <2>3. PICK k \in Bad : \A j \in Bad : k <= j
    <3> HIDE DEF Bad
    <3> QED
      BY <2>1, <2>2, LeastElement
  <2>4. k \in 1 .. BlockSize /\ q[k] \notin Nat
    BY <2>3
  <2>5. k # 1 => q[k - 1] \in Nat
    <3>1. k # 1 => k - 1 \in 1 .. BlockSize /\ ~(k <= k - 1)
      BY <2>4
    <3> QED
      BY <2>3, <3>1
  <2>6. \A a \in Nat : a \div DigitBase \in Nat
    <3>1. DigitBase \in Nat \ {0}
      OBVIOUS
    <3> QED
      BY <3>1, Division
  <2> QED
    BY <1>2, <2>4, <2>5, <2>6
<1> QED
  BY <1>2, <1>3 DEF q

-----------------------------------------------------------------------------
(* Counting.                                                               *)
LEMMA DigitsType ==
  ASSUME NEW n \in Nat
  PROVE  /\ Digits(n) \in Counters
         /\ \A i \in 1 .. BlockSize :
              Digits(n)[i] = Quotients(n)[i] % DigitBase
<1>1. \A i \in 1 .. BlockSize : Quotients(n)[i] \in Nat
  BY QuotientsUnfold
<1>2. \A a \in Nat : a % DigitBase \in 0 .. DigitBase - 1
  OBVIOUS
<1> QED
  BY <1>1, <1>2 DEF Digits, Counters

(* A quotient grows where all the digits below it are at their largest.    *)
LEMMA CarryArrives ==
  ASSUME NEW n \in Nat, NEW i \in 1 .. BlockSize
  PROVE  Quotients(n + 1)[i] =
           IF \A j \in 1 .. i - 1 : Digits(n)[j] = DigitBase - 1
           THEN Quotients(n)[i] + 1 ELSE Quotients(n)[i]
<1> DEFINE q == Quotients(n)
           p == Quotients(n + 1)
           Carry(k) == \A j \in 1 .. k - 1 : Digits(n)[j] = DigitBase - 1
           Bad == { k \in 1 .. BlockSize :
                      p[k] # IF Carry(k) THEN q[k] + 1 ELSE q[k] }
<1>1. /\ \A k \in 1 .. BlockSize :
           q[k] \in Nat /\ q[k] = IF k = 1 THEN n ELSE q[k - 1] \div DigitBase
      /\ \A k \in 1 .. BlockSize :
           p[k] = IF k = 1 THEN n + 1 ELSE p[k - 1] \div DigitBase
  BY QuotientsUnfold
<1>2. \A k \in 1 .. BlockSize : Digits(n)[k] = q[k] % DigitBase
  BY DigitsType
<1> HIDE DEF q, p
<1>3. ASSUME Bad # {}
      PROVE  FALSE
  <2>1. Bad \in SUBSET Nat
    OBVIOUS
  <2>2. PICK k \in Bad : \A j \in Bad : k <= j
    <3> HIDE DEF Bad
    <3> QED
      BY <1>3, <2>1, LeastElement
  <2>3. k \in 1 .. BlockSize /\ p[k] # IF Carry(k) THEN q[k] + 1 ELSE q[k]
    BY <2>2
  <2>4. CASE k = 1
    <3>1. Carry(k)
      BY <2>4
    <3> QED
      BY <1>1, <2>3, <2>4, <3>1
  <2>5. CASE k # 1
    <3>1. k - 1 \in 1 .. BlockSize /\ ~(k <= k - 1)
      BY <2>3, <2>5
    <3>2. p[k - 1] = IF Carry(k - 1) THEN q[k - 1] + 1 ELSE q[k - 1]
      BY <2>2, <3>1
    <3>3. Carry(k) <=> Carry(k - 1) /\ Digits(n)[k - 1] = DigitBase - 1
      <4>1. \A j \in 1 .. k - 1 : j \in 1 .. k - 1 - 1 \/ j = k - 1
        BY <2>3
      <4>2. k - 1 \in 1 .. k - 1 /\ \A j \in 1 .. k - 1 - 1 : j \in 1 .. k - 1
        BY <2>3, <3>1
      <4> QED
        BY <4>1, <4>2
    <3> HIDE DEF Carry, Bad
    <3>4. (q[k - 1] + 1) \div DigitBase =
             IF q[k - 1] % DigitBase = DigitBase - 1
             THEN (q[k - 1] \div DigitBase) + 1 ELSE q[k - 1] \div DigitBase
      <4>1. q[k - 1] \in Nat /\ DigitBase \in Nat \ {0}
        BY <1>1, <3>1
      <4> QED
        BY <4>1, DivisionOfNext
    <3>5. /\ p[k] = p[k - 1] \div DigitBase /\ q[k] = q[k - 1] \div DigitBase
          /\ Digits(n)[k - 1] = q[k - 1] % DigitBase
      BY <1>1, <1>2, <2>3, <2>5, <3>1
    <3> QED
      BY <2>3, <3>2, <3>3, <3>4, <3>5
  <2> QED
    BY <2>4, <2>5
<1>4. i \notin Bad
  BY <1>3
<1> QED
  BY <1>4 DEF q, p

LEMMA IncrementCounts ==
  ASSUME NEW n \in Nat
  PROVE  Incremented(Digits(n)) = Digits(n + 1)
<1> DEFINE c == Digits(n)
           Carry(i) == \A j \in 1 .. i - 1 : c[j] = DigitBase - 1
<1>1. ASSUME NEW i \in 1 .. BlockSize
      PROVE  Incremented(c)[i] = Digits(n + 1)[i]
  <2>1. /\ Digits(n + 1)[i] = Quotients(n + 1)[i] % DigitBase
        /\ c[i] = Quotients(n)[i] % DigitBase
    BY DigitsType
  <2>2. Quotients(n + 1)[i] = IF Carry(i) THEN Quotients(n)[i] + 1
                              ELSE Quotients(n)[i]
    BY CarryArrives
  <2>3. Incremented(c)[i] = IF Carry(i) THEN (c[i] + 1) % DigitBase ELSE c[i]
    BY DEF Incremented
  <2>4. (Quotients(n)[i] + 1) % DigitBase =
          ((Quotients(n)[i] % DigitBase) + 1) % DigitBase
    <3>1. ASSUME NEW a \in Nat
          PROVE  (a + 1) % DigitBase = ((a % DigitBase) + 1) % DigitBase
      <4>1. DigitBase \in Nat \ {0} /\ a % DigitBase \in 0 .. DigitBase - 1
        OBVIOUS
      <4>2. (a + 1) % DigitBase = IF a % DigitBase = DigitBase - 1 THEN 0
                                  ELSE (a % DigitBase) + 1
        BY <4>1, DivisionOfNext
      <4>3. ASSUME NEW r \in 0 .. DigitBase - 1
            PROVE  (r + 1) % DigitBase = IF r = DigitBase - 1 THEN 0 ELSE r + 1
        <5>1. CASE r = DigitBase - 1
          <6>1. r + 1 = DigitBase * 1 + 0
            BY <5>1
          <6>2. 1 \in Nat /\ 0 \in 0 .. DigitBase - 1
            OBVIOUS
          <6> QED
            BY <4>1, <5>1, <6>1, <6>2, DivisionUnique
        <5>2. CASE r # DigitBase - 1
          <6>1. r + 1 = DigitBase * 0 + (r + 1) /\ r + 1 \in 0 .. DigitBase - 1
            BY <5>2
          <6> QED
            BY <4>1, <5>2, <6>1, DivisionUnique
        <5> QED
          BY <5>1, <5>2
      <4> QED
        BY <4>1, <4>2, <4>3
    <3>2. Quotients(n)[i] \in Nat
      BY QuotientsUnfold
    <3> QED
      BY <3>1, <3>2
  <2> HIDE DEF c, Carry
  <2> QED
    BY <2>1, <2>2, <2>3, <2>4
<1>2. Incremented(c) = [ i \in 1 .. BlockSize |-> Incremented(c)[i] ]
  BY DEF Incremented
<1>3. Digits(n + 1) = [ i \in 1 .. BlockSize |-> Digits(n + 1)[i] ]
  BY DEF Digits
<1> QED
  BY <1>1, <1>2, <1>3

(* The counter starts with one.                                            *)
LEMMA FirstCounter ==
  Digits(1) = [ i \in 1 .. BlockSize |-> IF i = 1 THEN 1 ELSE 0 ]
<1> DEFINE q == Quotients(1)
           Bad == { i \in 1 .. BlockSize : q[i] # IF i = 1 THEN 1 ELSE 0 }
<1>1. \A i \in 1 .. BlockSize :
        q[i] = IF i = 1 THEN 1 ELSE q[i - 1] \div DigitBase
  BY QuotientsUnfold
<1>2. \A i \in 1 .. BlockSize : Digits(1)[i] = q[i] % DigitBase
  BY DigitsType
<1> HIDE DEF q
<1>3. /\ 1 \div DigitBase = 0 /\ 0 \div DigitBase = 0
      /\ 1 % DigitBase = 1 /\ 0 % DigitBase = 0
  <2>1. DigitBase \in Nat \ {0} /\ 1 \in 0 .. DigitBase - 1 /\ 0 \in 0 .. DigitBase - 1
    OBVIOUS
  <2>2. DigitBase * 0 + 1 = 1 /\ DigitBase * 0 + 0 = 0
    OBVIOUS
  <2> QED
    BY <2>1, <2>2, DivisionUnique
<1>4. ASSUME Bad # {}
      PROVE  FALSE
  <2>1. Bad \in SUBSET Nat
    OBVIOUS
  <2>2. PICK k \in Bad : \A j \in Bad : k <= j
    <3> HIDE DEF Bad
    <3> QED
      BY <1>4, <2>1, LeastElement
  <2>3. k \in 1 .. BlockSize /\ q[k] # IF k = 1 THEN 1 ELSE 0
    BY <2>2
  <2>4. k # 1 => k - 1 \in 1 .. BlockSize /\ ~(k <= k - 1)
    BY <2>3
  <2>5. k # 1 => q[k - 1] = 1 \/ q[k - 1] = 0
    BY <2>2, <2>4
  <2> QED
    BY <1>1, <1>3, <2>3, <2>5
<1>5. \A i \in 1 .. BlockSize : q[i] = IF i = 1 THEN 1 ELSE 0
  BY <1>4
<1>6. \A i \in 1 .. BlockSize : Digits(1)[i] = IF i = 1 THEN 1 ELSE 0
  BY <1>2, <1>3, <1>5
<1>7. Digits(1) = [ i \in 1 .. BlockSize |-> Digits(1)[i] ]
  BY DEF Digits
<1> QED
  BY <1>6, <1>7

(* The counter that refill has after n blocks.                             *)
LEMMA CountsUp ==
  ASSUME NEW c \in Nat, ctr = Digits(c), NEW n \in Nat
  PROVE  CountedUp[n] = Digits(c + n)
<1> DEFINE Count(g) == [ i \in Nat |-> IF i = 0 THEN ctr ELSE Incremented(g[i - 1]) ]
           C == [ i \in Nat |-> Digits(c + i) ]
<1>1. CountedUp = CHOOSE g : g = Count(g)
  BY DEF CountedUp
<1>2. ASSUME NEW i \in Nat
      PROVE  C[i] = IF i = 0 THEN ctr ELSE Incremented(C[i - 1])
  <2>1. CASE i = 0
    BY <2>1
  <2>2. CASE i # 0
    <3>1. i - 1 \in Nat /\ c + (i - 1) \in Nat /\ (c + (i - 1)) + 1 = c + i
      BY <2>2
    <3>2. Incremented(Digits(c + (i - 1))) = Digits((c + (i - 1)) + 1)
      BY <3>1, IncrementCounts
    <3> QED
      BY <2>2, <3>1, <3>2
  <2> QED
    BY <2>1, <2>2
<1>3. C = [ i \in Nat |-> C[i] ]
  OBVIOUS
<1> HIDE DEF C
<1>4. C = Count(C)
  BY <1>2, <1>3
<1>5. ASSUME NEW g, g = Count(g)
      PROVE  g = C
  <2> DEFINE Bad == { i \in Nat : g[i] # C[i] }
  <2>1. ASSUME Bad # {}
        PROVE  FALSE
    <3>1. Bad \in SUBSET Nat
      OBVIOUS
    <3>2. PICK k \in Bad : \A j \in Bad : k <= j
      <4> HIDE DEF Bad
      <4> QED
        BY <2>1, <3>1, LeastElement
    <3>3. k \in Nat /\ g[k] # C[k]
      BY <3>2
    <3>4. g[k] = IF k = 0 THEN ctr ELSE Incremented(g[k - 1])
      BY <1>5, <3>3
    <3>5. k # 0 => g[k - 1] = C[k - 1]
      <4>1. k # 0 => k - 1 \in Nat /\ ~(k <= k - 1)
        BY <3>3
      <4> QED
        BY <3>2, <4>1
    <3> QED
      BY <1>2, <3>3, <3>4, <3>5
  <2>2. g = [ i \in Nat |-> g[i] ]
    BY <1>5
  <2> QED
    BY <1>3, <2>1, <2>2
<1> HIDE DEF Count
<1>6. CountedUp = C
  BY <1>1, <1>4, <1>5
<1> QED
  BY <1>6 DEF C

-----------------------------------------------------------------------------
(* The buffer.                                                             *)
LEMMA KeyByteType ==
  ASSUME NEW i \in Nat \ {0}
  PROVE  KeyByte(i) \in KeyBytes
<1>1. i - 1 \in Nat /\ BlockSize \in Nat \ {0}
  OBVIOUS
<1>2. (i - 1) \div BlockSize \in Nat /\ (i - 1) % BlockSize \in 0 .. BlockSize - 1
  BY <1>1, Division
<1>3. Digits((i - 1) \div BlockSize + 1) \in Counters
  BY <1>2, DigitsType
<1> QED
  BY <1>2, <1>3 DEF KeyByte, KeyBytes

(* Byte k of the blocks encrypted behind M blocks.                         *)
LEMMA KeyByteBehind ==
  ASSUME NEW M \in Nat, NEW k \in Nat \ {0}
  PROVE  KeyByte(BlockSize * M + k) =
           << Digits(M + 1 + ((k - 1) \div BlockSize)), (k - 1) % BlockSize >>
<1>1. k - 1 \in Nat /\ BlockSize \in Nat \ {0} /\ BlockSize * M \in Nat
      /\ BlockSize * M + k - 1 = BlockSize * M + (k - 1)
  OBVIOUS
<1>2. /\ (BlockSize * M + (k - 1)) \div BlockSize = M + ((k - 1) \div BlockSize)
      /\ (BlockSize * M + (k - 1)) % BlockSize = (k - 1) % BlockSize
      /\ (k - 1) \div BlockSize \in Nat
  BY <1>1, Division, DivisionBehind
<1>3. M + ((k - 1) \div BlockSize) + 1 = M + 1 + ((k - 1) \div BlockSize)
  BY <1>2
<1> QED
  BY <1>1, <1>2, <1>3 DEF KeyByte

(* A counter and a buffer x that go on where the data ends.                *)
GoesOn(x) ==
  /\ x.ctr \in Counters /\ x.out \in Seq(KeyBytes)
  /\ Len(x.out) < BufSize /\ x.outUsed \in 0 .. Len(x.out)
  /\ \E M \in Nat : /\ Len(used) + Len(x.out) - x.outUsed = BlockSize * M
                    /\ x.ctr = Digits(M + 1)
  /\ \A k \in x.outUsed + 1 .. Len(x.out) :
       x.out[k] = KeyByte(Len(used) + k - x.outUsed)

LEMMA KeptGoesOn ==
  ASSUME IInv
  PROVE  GoesOn(Kept)
BY DEF IInv, TypeOK, Aligned, BufferInOrder, GoesOn, Kept

(* What refill leaves free is less than a block and at least a byte.       *)
LEMMA BlocksFit ==
  ASSUME NEW remain \in Nat, remain < BufSize
  PROVE  /\ BlocksFitting(remain) \in Nat
         /\ BlockSize * BlocksFitting(remain) \in Nat
         /\ remain + BlockSize * BlocksFitting(remain) < BufSize
<1>1. CASE remain >= BufSize - BlockSize
  BY <1>1 DEF BlocksFitting
<1>2. CASE remain < BufSize - BlockSize
  <2> DEFINE a == BufSize - remain - 1
             n == a \div BlockSize
  <2>1. a \in Nat /\ BlockSize \in Nat \ {0} /\ BlocksFitting(remain) = n
    BY <1>2 DEF BlocksFitting
  <2> HIDE DEF a
  <2>2. n \in Nat /\ a % BlockSize \in 0 .. BlockSize - 1
        /\ a = BlockSize * n + (a % BlockSize)
    BY <2>1, Division
  <2> HIDE DEF n
  <2>3. BlockSize * n \in Nat
    BY <2>1, <2>2
  <2>4. BlockSize * n <= a
    BY <2>2, <2>3
  <2> QED
    BY <2>1, <2>2, <2>3, <2>4 DEF a
<1> QED
  BY <1>1, <1>2

LEMMA RefilledGoesOn ==
  ASSUME IInv
  PROVE  GoesOn(Refilled)
<1> SUFFICES ASSUME Refilled = FilledBehind(Unused)
             PROVE  GoesOn(Refilled)
  BY KeptGoesOn DEF Refilled
<1> DEFINE U == Len(used)
           rest == Unused
           R == Len(rest)
           n == BlocksFitting(R)
           B == BlockSize * n
           new == [ k \in 1 .. n * BlockSize |->
                      << CountedUp[(k - 1) \div BlockSize], (k - 1) % BlockSize >> ]
           x == FilledBehind(rest)
<1>1. /\ out \in Seq(KeyBytes) /\ Len(out) \in Nat /\ Len(out) < BufSize
      /\ outUsed \in Nat /\ outUsed <= Len(out) /\ U \in Nat
  BY DEF IInv, TypeOK
<1>2. /\ rest \in Seq(KeyBytes) /\ R = Len(out) - outUsed
      /\ \A k \in 1 .. R : rest[k] = out[outUsed + k]
  BY <1>1 DEF Unused
<1>3. PICK M \in Nat : U + R = BlockSize * M /\ ctr = Digits(M + 1)
  <2>1. PICK M \in Nat : Len(used) + Len(out) - outUsed = BlockSize * M
                         /\ ctr = Digits(M + 1)
    BY DEF IInv, Aligned
  <2> QED
    BY <1>1, <1>2, <2>1
<1> HIDE DEF U, rest
<1>4. R \in Nat /\ R < BufSize
  BY <1>1, <1>2
<1> HIDE DEF R
<1>5. n \in Nat /\ B \in Nat /\ R + B < BufSize /\ n * BlockSize = B
  BY <1>4, BlocksFit
<1> HIDE DEF n, B
<1>6. \A j \in Nat : CountedUp[j] = Digits(M + 1 + j)
  BY <1>3, CountsUp
<1>7. ASSUME NEW k \in 1 .. B
      PROVE  new[k] = KeyByte(U + R + k) /\ new[k] \in KeyBytes
  <2>1. k \in Nat \ {0} /\ k - 1 \in Nat /\ BlockSize \in Nat \ {0}
    BY <1>5
  <2>2. (k - 1) \div BlockSize \in Nat
    BY <2>1, Division
  <2>3. new[k] = << CountedUp[(k - 1) \div BlockSize], (k - 1) % BlockSize >>
    BY <1>5
  <2>4. KeyByte(U + R + k) =
          << Digits(M + 1 + ((k - 1) \div BlockSize)), (k - 1) % BlockSize >>
    BY <1>3, <2>1, KeyByteBehind
  <2> HIDE DEF new
  <2>5. new[k] = KeyByte(U + R + k)
    BY <1>6, <2>2, <2>3, <2>4
  <2>6. U + R + k \in Nat \ {0}
    BY <1>1, <1>4, <2>1
  <2> QED
    BY <2>5, <2>6, KeyByteType
<1>8. new \in Seq(KeyBytes) /\ Len(new) = B
  <2>1. new = [ k \in 1 .. B |-> new[k] ]
    BY <1>5
  <2> HIDE DEF new
  <2>2. new \in [ 1 .. B -> KeyBytes ]
    BY <1>7, <2>1
  <2> QED
    BY <1>5, <2>2
<1> HIDE DEF new
<1>9. x.ctr = Digits(M + 1 + n) /\ x.out = rest \o new /\ x.outUsed = 0
  BY <1>5, <1>6 DEF FilledBehind, new, n, R
<1>10. Refilled = x
  BY DEF rest
<1> HIDE DEF x
<1>11. /\ x.out \in Seq(KeyBytes) /\ Len(x.out) = R + B
       /\ \A k \in 1 .. R : x.out[k] = rest[k]
       /\ \A k \in R + 1 .. R + B : x.out[k] = new[k - R]
  <2>1. ASSUME NEW S, NEW s \in Seq(S), NEW t \in Seq(S)
        PROVE  /\ s \o t \in Seq(S) /\ Len(s \o t) = Len(s) + Len(t)
               /\ \A k \in 1 .. Len(s) : (s \o t)[k] = s[k]
               /\ \A k \in Len(s) + 1 .. Len(s) + Len(t) :
                    (s \o t)[k] = t[k - Len(s)]
    OBVIOUS
  <2>2. rest \in Seq(KeyBytes) /\ new \in Seq(KeyBytes) /\ x.out = rest \o new
        /\ Len(rest) = R /\ Len(new) = B
    BY <1>2, <1>8, <1>9 DEF R
  <2>3. /\ rest \o new \in Seq(KeyBytes) /\ Len(rest \o new) = Len(rest) + Len(new)
        /\ \A k \in 1 .. Len(rest) : (rest \o new)[k] = rest[k]
        /\ \A k \in Len(rest) + 1 .. Len(rest) + Len(new) :
             (rest \o new)[k] = new[k - Len(rest)]
    BY <2>1, <2>2
  <2> QED
    BY <2>2, <2>3
<1>12. ASSUME NEW k \in 1 .. R + B
       PROVE  x.out[k] = KeyByte(U + k)
  <2>1. CASE k \in 1 .. R
    <3>1. outUsed + k \in outUsed + 1 .. Len(out)
      BY <1>1, <1>2, <2>1
    <3>2. out[outUsed + k] = KeyByte(U + (outUsed + k) - outUsed)
      BY <3>1 DEF IInv, BufferInOrder, U
    <3>3. U + (outUsed + k) - outUsed = U + k
      BY <1>1, <2>1
    <3> QED
      BY <1>2, <1>11, <2>1, <3>2, <3>3
  <2>2. CASE k \notin 1 .. R
    <3>1. k \in R + 1 .. R + B /\ k - R \in 1 .. B /\ U + R + (k - R) = U + k
      BY <1>1, <1>4, <1>5, <2>2
    <3> QED
      BY <1>7, <1>11, <3>1
  <2> QED
    BY <2>1, <2>2
<1>13. M + n \in Nat /\ U + (R + B) - 0 = BlockSize * (M + n)
       /\ M + 1 + n = (M + n) + 1
  BY <1>1, <1>3, <1>4, <1>5 DEF B
<1>14. x.ctr \in Counters
  BY <1>9, <1>13, DigitsType
<1>15. \A k \in 0 + 1 .. R + B : x.out[k] = KeyByte(U + k - 0)
  BY <1>1, <1>12
<1>16. 0 \in 0 .. R + B
  BY <1>4, <1>5
<1> QED
  BY <1>5, <1>9, <1>10, <1>11, <1>13, <1>14, <1>15, <1>16 DEF GoesOn, U

-----------------------------------------------------------------------------
LEMMA InitHolds ==
  ASSUME Init
  PROVE  IInv
<1>1. /\ ctr = Digits(1) /\ out = <<>> /\ outUsed = 0 /\ left = 0 /\ used = <<>>
  BY FirstCounter DEF Init
<1>2. Len(out) = 0 /\ Len(used) = 0 /\ out \in Seq(KeyBytes) /\ used \in Seq(KeyBytes)
  BY <1>1
<1>3. TypeOK
  BY <1>1, <1>2, DigitsType DEF TypeOK
<1>4. Aligned
  <2>1. 0 \in Nat /\ 0 + 0 - 0 = BlockSize * 0 /\ 0 + 1 = 1
    OBVIOUS
  <2> QED
    BY <1>1, <1>2, <2>1 DEF Aligned
<1>5. BufferInOrder
  BY <1>1, <1>2 DEF BufferInOrder
<1>6. KeyBytesInOrder
  BY <1>1 DEF KeyBytesInOrder
<1> QED
  BY <1>3, <1>4, <1>5, <1>6 DEF IInv

(* One iteration of the loop takes the next bytes of the buffer.           *)
LEMMA TakesNext ==
  ASSUME IInv, XORKeyStream
  PROVE  IInv'
<1>1. PICK x \in {Refilled, Kept} :
        LET ready == Len(x.out) - x.outUsed
            n     == IF left < ready THEN left ELSE ready
        IN /\ ctr' = x.ctr /\ out' = x.out /\ outUsed' = x.outUsed + n
           /\ left' = left - n
           /\ used' = used \o SubSeq(x.out, x.outUsed + 1, x.outUsed + n)
  BY DEF XORKeyStream
<1>2. GoesOn(x)
  BY KeptGoesOn, RefilledGoesOn
<1> DEFINE L == Len(x.out)
           o == x.outUsed
           U == Len(used)
           n == IF left < L - o THEN left ELSE L - o
           piece == SubSeq(x.out, o + 1, o + n)
<1>3. /\ x.out \in Seq(KeyBytes) /\ L \in Nat /\ L < BufSize /\ o \in Nat
      /\ o <= L /\ x.ctr \in Counters
      /\ \A k \in o + 1 .. L : x.out[k] = KeyByte(U + k - o)
  BY <1>2 DEF GoesOn
<1>4. left \in Nat /\ used \in Seq(KeyBytes) /\ U \in Nat
  BY DEF IInv, TypeOK
<1>5. /\ ctr' = x.ctr /\ out' = x.out /\ outUsed' = o + n /\ left' = left - n
      /\ used' = used \o piece
  BY <1>1
<1>6. PICK M \in Nat : U + L - o = BlockSize * M /\ x.ctr = Digits(M + 1)
  BY <1>2 DEF GoesOn
<1> HIDE DEF L, o, U
<1>7. n \in Nat /\ o + n <= L /\ n <= left
  BY <1>3, <1>4
<1> HIDE DEF n
<1>8. /\ piece \in Seq(KeyBytes) /\ Len(piece) = n
      /\ \A k \in 1 .. n : piece[k] = x.out[o + k]
  BY <1>3, <1>7 DEF L
<1> HIDE DEF piece
<1>9. /\ used' \in Seq(KeyBytes) /\ Len(used') = U + n
      /\ \A k \in 1 .. U : used'[k] = used[k]
      /\ \A k \in U + 1 .. U + n : used'[k] = piece[k - U]
  BY <1>4, <1>5, <1>7, <1>8 DEF U
<1>10. TypeOK'
  <2>1. outUsed' \in 0 .. Len(out') /\ Len(out') < BufSize /\ left' \in Nat
    BY <1>3, <1>4, <1>5, <1>7 DEF L
  <2>2. Counters' = Counters /\ KeyBytes' = KeyBytes
    BY DEF Counters, KeyBytes
  <2> QED
    BY <1>3, <1>5, <1>9, <2>1, <2>2 DEF TypeOK
<1>11. Aligned'
  <2>1. Len(used') + Len(out') - outUsed' = BlockSize * M
    <3>1. Len(used') = U + n /\ Len(out') = L /\ outUsed' = o + n
      BY <1>5, <1>9 DEF L
    <3>2. (U + n) + L - (o + n) = U + L - o
      BY <1>3, <1>4, <1>7
    <3> QED
      BY <1>6, <3>1, <3>2
  <2> QED
    BY <1>5, <1>6, <2>1 DEF Aligned, Digits, Quotients
<1>12. BufferInOrder'
  <2>1. ASSUME NEW k \in o + n + 1 .. L
        PROVE  x.out[k] = KeyByte((U + n) + k - (o + n))
    <3>1. k \in o + 1 .. L /\ (U + n) + k - (o + n) = U + k - o
      BY <1>3, <1>4, <1>7
    <3> QED
      BY <1>3, <3>1
  <2>2. outUsed' = o + n /\ Len(out') = L /\ Len(used') = U + n /\ out' = x.out
    BY <1>5, <1>9 DEF L
  <2> QED
    BY <2>1, <2>2 DEF BufferInOrder, KeyByte
<1>13. KeyBytesInOrder'
  <2>1. ASSUME NEW k \in 1 .. U + n
        PROVE  used'[k] = KeyByte(k)
    <3>1. CASE k \in 1 .. U
      <4>1. used[k] = KeyByte(k)
        BY <1>4, <3>1 DEF IInv, KeyBytesInOrder, U
      <4> QED
        BY <1>9, <3>1, <4>1
    <3>2. CASE k \notin 1 .. U
      <4>1. k \in U + 1 .. U + n /\ k - U \in 1 .. n
        BY <1>4, <1>7, <3>2
      <4>2. o + (k - U) \in o + 1 .. L /\ U + (o + (k - U)) - o = k
        BY <1>3, <1>4, <1>7, <4>1
      <4> QED
        BY <1>3, <1>8, <1>9, <4>1, <4>2
    <3> QED
      BY <3>1, <3>2
  <2>2. DOMAIN used' = 1 .. U + n
    BY <1>9
  <2> QED
    BY <2>1, <2>2 DEF KeyBytesInOrder, KeyByte
<1> QED
  BY <1>10, <1>11, <1>12, <1>13 DEF IInv

LEMMA NextKeeps ==
  ASSUME IInv, [Next]_vars
  PROVE  IInv'
<1>1. CASE XORKeyStream
  BY <1>1, TakesNext
<1>2. ASSUME UNCHANGED <<ctr, out, outUsed, used>>, left' \in Nat
      PROVE  IInv'
  <2>1. TypeOK'
    BY <1>2 DEF IInv, TypeOK
  <2>2. Aligned' /\ BufferInOrder' /\ KeyBytesInOrder'
    BY <1>2 DEF IInv, Aligned, BufferInOrder, KeyBytesInOrder
  <2> QED
    BY <2>1, <2>2 DEF IInv
<1>3. CASE \E n \in 1 .. MaxCall : Call(n)
  <2>1. PICK n \in 1 .. MaxCall : Call(n)
    BY <1>3
  <2>2. left' \in Nat
    BY <2>1 DEF Call
  <2> QED
    BY <1>2, <2>1, <2>2 DEF Call
<1>4. CASE UNCHANGED vars
  <2>1. left' \in Nat
    BY <1>4 DEF vars, IInv, TypeOK
  <2> QED
    BY <1>2, <1>4, <2>1 DEF vars
<1> QED
  BY <1>1, <1>3, <1>4 DEF Next

(* Whatever calls of XORKeyStream are made, the ctr and its buffer go on   *)
(* where the data ends.                                                    *)
THEOREM Invariant == Spec => []IInv
<1>1. Init => IInv
  BY InitHolds
<1>2. IInv /\ [Next]_vars => IInv'
  BY NextKeeps
<1> QED
  BY <1>1, <1>2, PTL DEF Spec

(* The counter, the buffer and its use keep their types: refill never      *)
(* overfills out.                                                          *)
THEOREM TypeCorrect == Spec => []TypeOK
<1>1. IInv => TypeOK
  BY DEF IInv
<1> QED
  BY <1>1, Invariant, PTL

(* Byte i of the data is encrypted with byte i of the key stream, however  *)
(* the data is cut into calls of XORKeyStream and whenever refill runs.    *)
THEOREM KeyBytesAlwaysInOrder == Spec => []KeyBytesInOrder
<1>1. IInv => KeyBytesInOrder
  BY DEF IInv
<1> QED
  BY <1>1, Invariant, PTL
=============================================================================
