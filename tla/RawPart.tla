------------------------------ MODULE RawPart ------------------------------
(***************************************************************************)
(* What a reader of a raw part promises: it hands out the payload, all of  *)
(* it and nothing behind it, and knows the data descriptor at its end; or  *)
(* it fails and has handed out a beginning of the payload.                 *)
(***************************************************************************)
EXTENDS Naturals

CONSTANT NoDescriptor

VARIABLES
  length,      (* of the payload                                           *)
  trailer,     (* the descriptor behind it                                 *)
  delivered,   (* how much of the payload was handed out                   *)
  outcome,     (* "more", "EOF" or "error"                                 *)
  desc         (* the descriptor the reader reports                        *)

vars == <<length, trailer, delivered, outcome, desc>>

Init ==
  /\ length \in Nat
  /\ delivered = 0
  /\ outcome = "more"
  /\ desc = NoDescriptor

Deliver ==
  /\ outcome = "more"
  /\ delivered' \in (delivered + 1) .. length
  /\ UNCHANGED <<length, trailer, outcome, desc>>

End ==
  /\ outcome = "more"
  /\ delivered = length
  /\ outcome' = "EOF"
  /\ desc' = trailer
  /\ UNCHANGED <<length, trailer, delivered>>

Fail ==
  /\ outcome = "more"
  /\ outcome' = "error"
  /\ UNCHANGED <<length, trailer, delivered, desc>>

Next == Deliver \/ End \/ Fail

Spec == Init /\ [][Next]_vars
=============================================================================
