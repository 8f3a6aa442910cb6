----------------------------- MODULE FlatePool -----------------------------
(***************************************************************************)
(* The pools of flate writers and readers of register.go, used by          *)
(* goroutines that write different archives, or call Write and Close of    *)
(* one compressor at the same time.                                        *)
(*                                                                         *)
(* A handle is a pooledFlateWriter or a pooledFlateReader; an object is    *)
(* the flate.Writer or the reader below it, which goes back to its pool    *)
(* when the handle is closed, while the handle stays in its owner's hands. *)
(* There is one pool for each compression level, and one for the readers.  *)
(***************************************************************************)
CONSTANTS
  Procs,       (* goroutines                                               *)
  Handles,     (* pooledFlateWriters and pooledFlateReaders                *)
  Objects,     (* flate writers and readers                                *)
  Levels,      (* compression levels                                       *)
  Reader,      (* the index of the readers' pool                           *)
  None         (* nil                                                      *)

ASSUME ReaderAssumption == Reader \notin Levels
Pools == Levels \cup {Reader}

ASSUME NoneAssumption ==
  None \notin Procs \cup Handles \cup Objects \cup Pools

VARIABLES
  made,      (* the pool that an object belongs to, by its level           *)
  target,    (* the handle an object was last Reset for: its w, or its r   *)
  pool,      (* flateWriterPools and flateReaderPool                       *)
  kind,      (* the level a handle was asked for; it is not made in None   *)
  fw,        (* w.fw, or r.fr, of a handle                                 *)
  mu,        (* who holds w.mu, or r.mu                                    *)
  pc,        (* where a goroutine is                                       *)
  at         (* the handle its call is about                               *)

vars == <<made, target, pool, kind, fw, mu, pc, at>>

TypeOK ==
  /\ made \in [Objects -> Pools \cup {None}]
  /\ target \in [Objects -> Handles \cup {None}]
  /\ pool \in [Pools -> SUBSET Objects]
  /\ kind \in [Handles -> Pools \cup {None}]
  /\ fw \in [Handles -> Objects \cup {None}]
  /\ mu \in [Handles -> Procs \cup {None}]
  /\ pc \in [Procs -> {"idle", "reset", "use", "flush", "put", "clear"}]
  /\ at \in [Procs -> Handles \cup {None}]

Init ==
  /\ made = [o \in Objects |-> None]
  /\ target = [o \in Objects |-> None]
  /\ pool = [l \in Pools |-> {}]
  /\ kind = [h \in Handles |-> None]
  /\ fw = [h \in Handles |-> None]
  /\ mu = [h \in Handles |-> None]
  /\ pc = [p \in Procs |-> "idle"]
  /\ at = [p \in Procs |-> None]

Goto(p, label) == pc' = [pc EXCEPT ![p] = label]

-----------------------------------------------------------------------------
(* newFlateWriter and newFlateReader: Get takes any object of the pool, or *)
(* none, and then one is made, which is Reset from the start.              *)
New(p, h, l) ==
  /\ pc[p] = "idle"
  /\ kind[h] = None /\ \A q \in Procs : at[q] # h
  /\ at' = [at EXCEPT ![p] = h]
  /\ kind' = [kind EXCEPT ![h] = l]

(* Mutated form: all the writers are in one pool.                          *)
PoolOfAny(l) == CHOOSE k \in Pools : l \in Levels => k \in Levels
(* flateWriterPools[level-flate.HuffmanOnly]                               *)
PoolOf(l) == l

GetPooled(p, h, l) ==
  /\ New(p, h, l)
  /\ \E o \in pool[PoolOf(l)] :
       /\ pool' = [pool EXCEPT ![PoolOf(l)] = @ \ {o}]
       /\ fw' = [fw EXCEPT ![h] = o]
  /\ Goto(p, "reset")
  /\ UNCHANGED <<made, target, mu>>

Reset(p) ==
  /\ pc[p] = "reset"
  /\ target' = [target EXCEPT ![fw[at[p]]] = at[p]]
  /\ Goto(p, "idle")
  /\ at' = [at EXCEPT ![p] = None]
  /\ UNCHANGED <<made, pool, kind, fw, mu>>

GetNew(p, h, l) ==
  /\ New(p, h, l)
  /\ \E o \in Objects :
       /\ made[o] = None
       /\ made' = [made EXCEPT ![o] = l]
       /\ fw' = [fw EXCEPT ![h] = o]
  /\ Goto(p, "reset")
  /\ UNCHANGED <<target, pool, mu>>

NewFlateWriter(p, h) == \E l \in Levels : GetPooled(p, h, l) \/ GetNew(p, h, l)
NewFlateReader(p, h) == GetPooled(p, h, Reader) \/ GetNew(p, h, Reader)

(* The handle has been returned to its owner.                              *)
Usable(p, h) ==
  /\ pc[p] = "idle"
  /\ kind[h] # None
  /\ \A q \in Procs : ~(at[q] = h /\ pc[q] = "reset")

-----------------------------------------------------------------------------
(* Mutated form: the lock is not waited for.                               *)
LockShared(p, h) ==
  /\ Usable(p, h)
  /\ fw[h] # None
  /\ mu' = [mu EXCEPT ![h] = p]
  /\ at' = [at EXCEPT ![p] = h]
  /\ UNCHANGED <<made, target, pool, kind, fw>>
(* Mutated form: a closed handle is not noticed.                           *)
LockClosed(p, h) ==
  /\ Usable(p, h)
  /\ mu[h] = None
  /\ mu' = [mu EXCEPT ![h] = p]
  /\ at' = [at EXCEPT ![p] = h]
  /\ UNCHANGED <<made, target, pool, kind, fw>>
(* A call of Write, Read or Close gets the lock.  If the handle is closed  *)
(* it releases it and returns: nothing changes.                            *)
Lock(p, h) ==
  /\ Usable(p, h)
  /\ mu[h] = None
  /\ fw[h] # None
  /\ mu' = [mu EXCEPT ![h] = p]
  /\ at' = [at EXCEPT ![p] = h]
  /\ UNCHANGED <<made, target, pool, kind, fw>>

Unlock(p) ==
  /\ mu' = [mu EXCEPT ![at[p]] = None]
  /\ at' = [at EXCEPT ![p] = None]
  /\ Goto(p, "idle")

Write(p, h) == kind[h] \in Levels /\ Lock(p, h) /\ Goto(p, "use")
Read(p, h)  == kind[h] = Reader   /\ Lock(p, h) /\ Goto(p, "use")

(* The object has compressed or decompressed, and the call returns.        *)
Used(p) ==
  /\ pc[p] = "use"
  /\ Unlock(p)
  /\ UNCHANGED <<made, target, pool, kind, fw>>

CloseWriter(p, h) == kind[h] \in Levels /\ Lock(p, h) /\ Goto(p, "flush")
CloseReader(p, h) == kind[h] = Reader   /\ Lock(p, h) /\ Goto(p, "flush")

(* w.fw.Close() has written what the object still held, or failed.         *)
Flush(p) ==
  /\ pc[p] = "flush"
  /\ Goto(p, "put")
  /\ UNCHANGED <<made, target, pool, kind, fw, mu, at>>

Put(p) ==
  /\ pc[p] = "put"
  /\ LET h == at[p]
     IN pool' = [pool EXCEPT ![PoolOf(kind[h])] = @ \cup {fw[h]}]
  /\ Goto(p, "clear")
  /\ UNCHANGED <<made, target, kind, fw, mu, at>>

(* Mutated form: the handle keeps its object.                              *)
ClearNothing(p) ==
  /\ pc[p] = "clear"
  /\ Unlock(p)
  /\ UNCHANGED <<made, target, pool, kind, fw>>
Clear(p) ==
  /\ pc[p] = "clear"
  /\ fw' = [fw EXCEPT ![at[p]] = None]
  /\ Unlock(p)
  /\ UNCHANGED <<made, target, pool, kind>>

(* The garbage collector empties the pools; an object dropped is not seen  *)
(* again, so its name may be given to a new one.                           *)
Collect ==
  /\ pool' = [l \in Pools |-> {}]
  /\ made' = [ o \in Objects |->
                 IF \E l \in Pools : o \in pool[l] THEN None ELSE made[o] ]
  /\ UNCHANGED <<target, kind, fw, mu, pc, at>>

Step(p) == Reset(p) \/ Used(p) \/ Flush(p) \/ Put(p) \/ Clear(p)

Next ==
  \/ \E p \in Procs, h \in Handles :
       \/ NewFlateWriter(p, h) \/ NewFlateReader(p, h)
       \/ Write(p, h) \/ Read(p, h)
       \/ CloseWriter(p, h) \/ CloseReader(p, h)
  \/ \E p \in Procs : Step(p)
  \/ Collect

Spec == Init /\ [][Next]_vars

-----------------------------------------------------------------------------
(* A handle has its object to itself until it has put it back.             *)
Holds(h) == /\ fw[h] # None
            /\ \A p \in Procs : ~(at[p] = h /\ pc[p] = "clear")

(* No object serves two handles, and none is in a pool while a handle      *)
(* holds it or in two pools at once: two archives never share a compressor.*)
OneOwner ==
  /\ \A g, h \in Handles :
       Holds(g) /\ Holds(h) /\ fw[g] = fw[h] => g = h
  /\ \A h \in Handles, l \in Pools : Holds(h) => fw[h] \notin pool[l]
  /\ \A k, l \in Pools : pool[k] \cap pool[l] # {} => k = l

(* The bytes of a handle go to its own output: while a call compresses or  *)
(* flushes, the object is Reset for that handle, and no other call is at   *)
(* the same object.                                                        *)
OwnOutput ==
  \A p \in Procs :
    pc[p] \in {"use", "flush"} =>
      /\ fw[at[p]] # None /\ target[fw[at[p]]] = at[p]
      /\ \A q \in Procs \ {p} :
           pc[q] \in {"reset", "use", "flush", "put"} => fw[at[q]] # fw[at[p]]

(* An object compresses with the level it was made for, which Reset keeps: *)
(* that is the level its handle was asked for (register.go:26-28).         *)
LevelKept == \A h \in Handles : Holds(h) => made[fw[h]] = kind[h]
=============================================================================
