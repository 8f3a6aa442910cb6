--------------------------- MODULE MCEntryReader ---------------------------
(***************************************************************************)
(* Bounded instances of EntryReader: entries of every kind, as a writer    *)
(* leaves them, of which any two fields may be wrong.                      *)
(***************************************************************************)
EXTENDS EntryReader

Kinds == {"None", "ZipCrypto", "AE-1", "AE-2"}

(* Of n units of plain data; a Deflate stream has its marker besides.      *)
Units(m, n) == IF m = "Deflate" THEN n + 1 ELSE n

Written(m, c, defer, has, signed, n, crc) ==
  [ method |-> m, encrypted |-> c # "None",
    ae |-> IF c = "AE-1" THEN 1 ELSE IF c = "AE-2" THEN 2 ELSE 0,
    strength |-> IF c \in {"AE-1", "AE-2"} THEN 3 ELSE 0,
    password |-> IF c = "None" THEN "nil" ELSE "right",
    defer |-> defer, usize |-> n, crc |-> IF c = "AE-2" THEN 0 ELSE crc,
    hasDescriptor |-> has, local |-> TRUE, header |-> TRUE, overhead |-> TRUE,
    authentic |-> TRUE, dataCrc |-> crc,
    data |-> Units(m, n), present |-> Units(m, n) + 1, marker |-> n + 1,
    descriptor |-> (IF signed THEN <<Signature>> ELSE <<>>) \o <<crc, n, n>> ]

Intact ==
  { Written(m, c, defer, form # "none", form = "signed", n,
            IF form = "ambiguous" THEN Signature ELSE 1) :
      m \in {"Store", "Deflate"}, c \in Kinds, defer \in BOOLEAN,
      form \in {"none", "signed", "unsigned", "ambiguous"},
      n \in {0, MaxUnits - 1} }

(* The ways in which a field may be wrong; the first is none.              *)
Altered(e) ==
  << e,
     [e EXCEPT !.method = "Unknown"], [e EXCEPT !.strength = 0],
     [e EXCEPT !.password = "nil"], [e EXCEPT !.password = "wrong"],
     [e EXCEPT !.encrypted = FALSE], [e EXCEPT !.usize = 1],
     [e EXCEPT !.data = 1], [e EXCEPT !.present = 1],
     [e EXCEPT !.present = e.data], [e EXCEPT !.marker = 1],
     [e EXCEPT !.marker = e.data + 1],
     [e EXCEPT !.crc = 0], [e EXCEPT !.dataCrc = 2],
     [e EXCEPT !.hasDescriptor = ~@],
     [e EXCEPT !.descriptor = SubSeq(@, 1, Len(@) - 1)],
     [e EXCEPT !.descriptor[1] = 2], [e EXCEPT !.descriptor[2] = 2],
     [e EXCEPT !.local = FALSE], [e EXCEPT !.header = FALSE],
     [e EXCEPT !.overhead = FALSE], [e EXCEPT !.authentic = FALSE] >>

TwiceAltered ==
  { Altered(Altered(e)[i])[j] : e \in Intact, i \in 1 .. 22, j \in 1 .. 22 }
=============================================================================
