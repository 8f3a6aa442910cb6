------------------------ MODULE MCDescriptorStripper ------------------------
(***************************************************************************)
(* Bounded instances of DescriptorStripper: payloads whose last three      *)
(* words are what a longer descriptor, laid over the true one, would have  *)
(* there, followed by a descriptor of each form.                           *)
(***************************************************************************)
EXTENDS DescriptorStripper

CONSTANT PayloadLens

(* The last words of a payload of n words, the very last one first.        *)
Endings(n) ==
  { <<a, b, c>> : a \in {0, n - 2, n - 3} \cap Nat,
                  b \in {0, Signature}, c \in {0, Signature} }

Payloads ==
  UNION { { [ i \in 1 .. n |-> IF i + 3 > n THEN last[n + 1 - i] ELSE 0 ] :
              last \in Endings(n) } : n \in PayloadLens }

Encoded(c, crc, csize, usize) ==
  (IF c.sig THEN <<Signature>> ELSE <<>>) \o <<crc>> \o
  (IF c.zip64 THEN <<csize % Base, csize \div Base, usize % Base, usize \div Base>>
   ELSE <<csize, usize>>)

Parts ==
  { p \o Encoded(Forms[k], crc, Len(p), usize) :
      p \in Payloads, k \in DOMAIN Forms, crc \in {0, 1}, usize \in {6} }
=============================================================================
