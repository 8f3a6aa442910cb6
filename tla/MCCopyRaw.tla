----------------------------- MODULE MCCopyRaw -----------------------------
(***************************************************************************)
(* Bounded instances of CopyRaw: parts with and without a cipher and a     *)
(* descriptor, whole ones and truncated ones.                              *)
(***************************************************************************)
EXTENDS CopyRaw, TLC

Plain ==
  [ name |-> 1, comment |-> 0, extra |-> NoExtra, version |-> 0, flags |-> {},
    method |-> "Store", level |-> 0, crc |-> 0, xxh3 |-> 0,
    csize |-> 0, usize |-> 0, csize64 |-> 0, usize64 |-> 0,
    encryption |-> "None", password |-> FALSE, aesStrength |-> 0 ]

Own == { Plain, [ Plain EXCEPT !.password = TRUE, !.flags = {"encrypted"},
                               !.encryption = "Standard" ] }

Part(flags, data, usize) ==
  LET time == 1
      crc  == 7
  IN [ name |-> 1, other |-> 0, flags |-> flags, method |-> "Deflate",
       time |-> time, crc |-> crc, usize |-> usize, data |-> data,
       check |-> zipCryptoCheckBytes(flags, time, crc),
       available |-> data + IF "encrypted" \in flags THEN 12 ELSE 0,
       trailer |-> "descriptor" \in flags ]

Truncated(part, n) == [ part EXCEPT !.available = @ - n, !.trailer = FALSE ]

Some ==
  { Part({}, 2, 3), Part({"descriptor"}, 2, 150), Part({"encrypted"}, 2, 3),
    Part(FlagBits, 2, 3),
    Truncated(Part({}, 2, 3), 1), Truncated(Part(FlagBits, 2, 3), 0),
    Truncated(Part(FlagBits, 2, 3), 3),
    [ Part({"encrypted"}, 2, 3) EXCEPT !.method = "AES" ], Part({}, 16, 3) }

(* A callback that changes what it may, and one with too long a name.      *)
Changes ==
  { [ name |-> 2, comment |-> 3, other |-> 4, xxh3 |-> 5, time |-> 2 ],
    [ name |-> uint16max + 1, comment |-> 0, other |-> 0, xxh3 |-> 0, time |-> 1 ] }

(* What WriterProofs assumes of headers and parts.                         *)
ASSUME HeadersClean == \A f \in Own : CleanHeader(f)
ASSUME PartsSound ==
  \A part \in Some :
    /\ part.available <= PayloadSize(part)
    /\ part.check = zipCryptoCheckBytes(part.flags, part.time, part.crc)

Symmetry == Permutations(Headers)
=============================================================================
