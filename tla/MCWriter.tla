------------------------------ MODULE MCWriter ------------------------------
(***************************************************************************)
(* Bounded instances of Writer.                                            *)
(***************************************************************************)
EXTENDS Writer, TLC

Plain ==
  [ name |-> 1, comment |-> 0, extra |-> NoExtra, version |-> 0, flags |-> {},
    method |-> "Store", level |-> 0, crc |-> 0, xxh3 |-> 0,
    csize |-> 0, usize |-> 0, csize64 |-> 0, usize64 |-> 0,
    encryption |-> "None", password |-> FALSE, aesStrength |-> 0 ]

(* SetEncryptionMethod and SetPassword.                                    *)
WithPassword(f, enc) ==
  [ f EXCEPT !.password = TRUE, !.flags = @ \cup {"encrypted"},
             !.encryption = enc,
             !.aesStrength = CASE enc = "AES128" -> 1
                               [] enc = "AES192" -> 2
                               [] enc = "AES256" -> 3
                               [] OTHER -> @ ]

Deflated(level) == [ Plain EXCEPT !.method = "Deflate", !.level = level ]
Custom == [ Plain EXCEPT !.method = "Custom" ]

(* Already compressed data, for CreateRaw: the caller knows its checksum   *)
(* and its length.  CreateHeader has no compressor for it.                 *)
Compact == [ Plain EXCEPT !.method = "Unknown", !.crc = 7, !.usize64 = 150,
                          !.usize = 150 ]

EveryKind ==
  { Plain, WithPassword(Plain, "Standard"), WithPassword(Plain, "AES128"),
    Deflated(5), WithPassword(Deflated(5), "AES256"),
    Custom, WithPassword(Custom, "Standard"),
    Compact, WithPassword(Compact, "AES192"),
    [ Plain EXCEPT !.comment = uint16max + 1 ] }

(* Headers that CreateHeader refuses at each of its checks.                *)
Refused ==
  { WithPassword(Plain, "None"), WithPassword(Deflated(12), "AES128"),
    [ Plain EXCEPT !.name = uint16max + 1 ],
    WithPassword([ Plain EXCEPT !.extra.other = uint16max - 8 ], "AES256") }

(* Both.                                                                   *)
Every == EveryKind \cup Refused

ASSUME CleanHeadersAssumption == \A f \in Every : CleanHeader(f)

Symmetry == Permutations(Headers)
=============================================================================
