--------------------------- MODULE MCFilterStream ---------------------------
(***************************************************************************)
(* Bounded instances of FilterStream: archives put together from entries   *)
(* that this package writes and entries of other programs.                 *)
(***************************************************************************)
EXTENDS FilterStream

CONSTANTS Gaps, Lens

Plain ==
  [ name |-> 1, comment |-> 0, extra |-> NoExtra, version |-> 0, flags |-> {},
    method |-> "Store", level |-> 0, crc |-> 0, xxh3 |-> 0,
    csize |-> 0, usize |-> 0, csize64 |-> 0, usize64 |-> 0,
    encryption |-> "None", password |-> FALSE, aesStrength |-> 0 ]

Encrypted == [ Plain EXCEPT !.password = TRUE, !.flags = {"encrypted"},
                            !.encryption = "AES128", !.aesStrength = 1 ]

(* An entry of n bytes at position at, as a fileWriter leaves it.          *)
Own(fh, n, at) ==
  LET h  == CHOOSE h \in Headers : TRUE
      p  == PreparedHeader(fh, FALSE)
      w  == Written(NewFileWriter(h, fh, FALSE), n, n)
      u  == UpdatedHeader(p, Finished(w, 0))
      b  == FinishedBlock(WrittenBlock(NewBlock(p, fh.method, at),
                                       NewFileWriter(h, fh, FALSE), n),
                          w, u, 0)
  IN [ at |-> at, local |-> b.local, localZip64 |-> p.extra.zip64 # <<>>,
       data |-> PayloadLen(b), descriptor |-> DescriptorBytes(b),
       signed |-> w.enc # "AES", crcIsSignature |-> FALSE,
       rec |-> DirectoryHeader(u, at) ]

(* Entries of other programs: without a descriptor; with one that has no   *)
(* signature; announced as zip64 although it may be small, with and        *)
(* without a signature; not where the directory says.                      *)
Foreign(kind, n, at) ==
  LET e == Own(Plain, n, at)
  IN CASE kind = "sized"    -> [ e EXCEPT !.descriptor = 0, !.rec.flags = {} ]
       [] kind = "unsigned" -> [ e EXCEPT !.descriptor = @ - 4, !.signed = FALSE ]
       [] kind = "zip64"    -> [ e EXCEPT !.local = @ + 20, !.localZip64 = TRUE,
                                          !.descriptor = 24 ]
       [] kind = "unsigned64" -> [ e EXCEPT !.local = @ + 20, !.localZip64 = TRUE,
                                            !.descriptor = 20, !.signed = FALSE ]
       [] kind = "moved"    -> [ e EXCEPT !.at = @ + 1 ]

Kinds == {"plain", "aes", "extra64", "sized", "unsigned", "zip64",
          "unsigned64", "moved"}

Entry(kind, n, at) ==
  CASE kind = "plain"   -> Own(Plain, n, at)
    [] kind = "aes"     -> Own(Encrypted, n, at)
    [] kind = "extra64" ->
         Own([ Plain EXCEPT !.extra.zip64 = << <<0, 0, 0>> >> ], n, at)
    [] OTHER            -> Foreign(kind, n, at)

(* Two entries with a gap before each, listed in either order; and the     *)
(* second listed twice.                                                    *)
Pair(k, l, n, m, gap) ==
  LET a == Entry(k, n, gap)
      b == Entry(l, m, gap + EntryLen(a) + gap)
  IN << <<a, b>>, <<b, a>>, <<b, b, a>> >>

Pairs ==
  { Pair(k, l, n, m, gap)[i] :
      k \in Kinds, l \in Kinds, n \in Lens, m \in Lens, gap \in Gaps,
      i \in 1 .. 3 }
=============================================================================
