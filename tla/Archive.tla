------------------------------ MODULE Archive ------------------------------
(***************************************************************************)
(* What a Writer promises, whichever way its entries reach the archive:    *)
(* an entry grows while it is open and never after; the directory comes    *)
(* once, when nothing is open, and lists every entry once with the size of *)
(* what was written for it.  Nothing happens afterwards.  An entry whose   *)
(* compressor failed is listed like the others, but nothing is said of it. *)
(***************************************************************************)
EXTENDS Naturals, Sequences

CONSTANTS
  Headers,     (* one for each entry there may be                          *)
  Attached     (* entries share one stream: one is open at a time          *)

VARIABLES
  entry,       (* how far each entry has come                              *)
  listed       (* <<the directory>>, or <<>>                               *)

Absent == [ state |-> "none", size |-> 0 ]

Init ==
  /\ entry = [ h \in Headers |-> Absent ]
  /\ listed = <<>>

OpenIn(e) == { h \in Headers : e[h].state = "open" }

(* An entry begins empty, or complete when it was built by hand.           *)
Begins(old, new) ==
  /\ old = Absent
  /\ \/ new = [ state |-> "open", size |-> 0 ]
     \/ ~Attached /\ new.state = "finished"

Grows(old, new) ==
  /\ old.state = "open"
  /\ new.state \in {"open", "finished", "abandoned"}
  /\ new.size >= old.size

Work ==
  /\ \A h \in Headers : \/ entry'[h] = entry[h]
                        \/ Begins(entry[h], entry'[h])
                        \/ Grows(entry[h], entry'[h])
  /\ Attached => \A g, h \in OpenIn(entry') : g = h

Lists(d, e) ==
  /\ OpenIn(e) = {}
  /\ { d[i].header : i \in 1 .. Len(d) }
       = { h \in Headers : e[h].state # "none" }
  /\ \A i, j \in 1 .. Len(d) : d[i].header = d[j].header => i = j
  /\ \A i \in 1 .. Len(d) :
       e[d[i].header].state = "finished" => d[i].size = e[d[i].header].size

Next ==
  /\ listed = <<>>
  /\ Work
  /\ \/ UNCHANGED listed
     \/ listed' # <<>> /\ Lists(listed'[1], entry')

Spec == Init /\ [][Next]_<<entry, listed>>
=============================================================================
