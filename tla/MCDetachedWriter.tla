-------------------------- MODULE MCDetachedWriter --------------------------
(***************************************************************************)
(* Bounded instances of DetachedWriter.                                    *)
(***************************************************************************)
EXTENDS DetachedWriter, TLC

Plain == [ ZeroHeader EXCEPT !.name = 1 ]

Secret(f, enc) ==
  [ f EXCEPT !.password = TRUE, !.flags = @ \cup {"encrypted"},
             !.encryption = enc,
             !.aesStrength = CASE enc = "AES128" -> 1
                               [] enc = "AES256" -> 3
                               [] OTHER -> @ ]

Deflated == [ Plain EXCEPT !.method = "Deflate", !.level = 5 ]

Custom == Secret([ Plain EXCEPT !.method = "Custom" ], "Standard")

LongComment == [ Plain EXCEPT !.comment = uint16max + 1 ]

Few == { Deflated, Secret(Plain, "AES128") }

(* One whose comment does not fit, and one without a key size.             *)
Many == Few \cup { Custom, LongComment, Secret(Deflated, "None") }

(* Entries built by hand, with the sizes in both fields.                   *)
OfSize(f, n) ==
  [ f EXCEPT !.csize = n, !.usize = n, !.csize64 = n, !.usize64 = n ]

ByHand == { OfSize(LongComment, 1), OfSize(Plain, uint32max) }

Small == { OfSize(LongComment, 1) }

ASSUME CleanCallsAssumption == CleanCalls
ASSUME SettledCallsAssumption == SettledCalls

Symmetry == Permutations(Headers)
=============================================================================
