-------------------------- MODULE FlatePoolProofs --------------------------
(***************************************************************************)
(* Proofs about FlatePool, for any number of goroutines, handles, objects  *)
(* and levels.  The invariant says who is at which handle (Locks) and      *)
(* where each object is (Places); the properties of FlatePool follow.      *)
(***************************************************************************)
EXTENDS FlatePool, TLAPS

Working(p) == pc[p] \in {"use", "flush", "put", "clear"}

(* A goroutine in a call is alone at its handle: while it makes the handle *)
(* because nobody else knows it, and afterwards because it has its lock.   *)
Idle == \A p \in Procs : (pc[p] = "idle") <=> (at[p] = None)

Locked ==
  \A p \in Procs : Working(p) => mu[at[p]] = p /\ fw[at[p]] # None

Unlocked ==
  \A p \in Procs : \A h \in Handles : mu[h] = p => at[p] = h /\ Working(p)

Private ==
  \A p \in Procs : pc[p] = "reset" =>
    /\ fw[at[p]] # None /\ mu[at[p]] = None
    /\ \A q \in Procs : q # p => at[q] # at[p]

Unmade == \A h \in Handles : kind[h] = None => fw[h] = None /\ mu[h] = None

Locks == Idle /\ Locked /\ Unlocked /\ Private /\ Unmade

(* An object is with one handle, or in the pool of its level, or new.      *)
Unshared == \A g, h \in Handles : Holds(g) /\ Holds(h) /\ fw[g] = fw[h] => g = h

NotPooled == \A h \in Handles, l \in Pools : Holds(h) => fw[h] \notin pool[l]

Pooled == \A l \in Pools, o \in Objects : o \in pool[l] => made[o] = l

Aimed ==
  \A h \in Handles :
    Holds(h) /\ (\A p \in Procs : ~(at[p] = h /\ pc[p] = "reset"))
      => target[fw[h]] = h

Places == Unshared /\ NotPooled /\ Pooled /\ LevelKept /\ Aimed

IInv == TypeOK /\ Locks /\ Places

-----------------------------------------------------------------------------
LEMMA NoneIsNothing ==
  None \notin Procs /\ None \notin Handles /\ None \notin Objects /\ None \notin Pools
BY NoneAssumption

(* What the calls that begin have in common.                               *)
Begin(p, h, label) ==
  Lock(p, h) /\ Goto(p, label) /\ label \in {"use", "flush"}

LEMMA CallsBegin ==
  ASSUME NEW p \in Procs, NEW h \in Handles,
         Write(p, h) \/ Read(p, h) \/ CloseWriter(p, h) \/ CloseReader(p, h)
  PROVE  \E label \in {"use", "flush"} : Begin(p, h, label)
BY DEF Begin, Write, Read, CloseWriter, CloseReader

(* What making a handle of either kind may do.                             *)
LEMMA HandlesMade ==
  ASSUME NEW p \in Procs, NEW h \in Handles,
         NewFlateWriter(p, h) \/ NewFlateReader(p, h)
  PROVE  \E l \in Pools : GetPooled(p, h, l) \/ GetNew(p, h, l)
BY DEF NewFlateWriter, NewFlateReader, Pools

(* Every step is one of these.                                             *)
LEMMA StepCases ==
  ASSUME Next
  PROVE  \/ \E p \in Procs, h \in Handles, l \in Pools :
              GetPooled(p, h, l) \/ GetNew(p, h, l)
         \/ \E p \in Procs, h \in Handles, label \in {"use", "flush"} :
              Begin(p, h, label)
         \/ \E p \in Procs : Reset(p)
         \/ \E p \in Procs : Used(p)
         \/ \E p \in Procs : Flush(p)
         \/ \E p \in Procs : Put(p)
         \/ \E p \in Procs : Clear(p)
         \/ Collect
BY CallsBegin, HandlesMade DEF Next, Step

-----------------------------------------------------------------------------
LEMMA TypeInit == Init => TypeOK
BY DEF Init, TypeOK, Pools

LEMMA TypeStep ==
  ASSUME TypeOK, Locks, Next
  PROVE  TypeOK'
<1>1. ASSUME NEW p \in Procs, NEW h \in Handles, NEW l \in Pools,
             GetPooled(p, h, l)
      PROVE  TypeOK'
  BY <1>1 DEF TypeOK, GetPooled, New, PoolOf, Goto
<1>2. ASSUME NEW p \in Procs, NEW h \in Handles, NEW l \in Pools,
             GetNew(p, h, l)
      PROVE  TypeOK'
  BY <1>2 DEF TypeOK, GetNew, New, PoolOf, Goto
<1>3. ASSUME NEW p \in Procs, NEW h \in Handles,
             NEW label \in {"use", "flush"}, Begin(p, h, label)
      PROVE  TypeOK'
  BY <1>3 DEF TypeOK, Begin, Lock, Goto
<1>4. ASSUME NEW p \in Procs, Reset(p)
      PROVE  TypeOK'
  <2>1. at[p] \in Handles /\ fw[at[p]] \in Objects
    BY <1>4, NoneIsNothing DEF TypeOK, Locks, Idle, Private, Reset
  <2> QED
    BY <1>4, <2>1 DEF TypeOK, Reset, Goto
<1>5. ASSUME NEW p \in Procs, Used(p)
      PROVE  TypeOK'
  BY <1>5 DEF TypeOK, Used, Unlock, Goto
<1>6. ASSUME NEW p \in Procs, Flush(p)
      PROVE  TypeOK'
  BY <1>6 DEF TypeOK, Flush, Goto
<1>7. ASSUME NEW p \in Procs, Put(p)
      PROVE  TypeOK'
  <2>1. at[p] \in Handles /\ fw[at[p]] \in Objects
    BY <1>7, NoneIsNothing DEF TypeOK, Locks, Idle, Locked, Working, Put
  <2>2. kind[at[p]] \in Pools
    BY <1>7, <2>1, NoneIsNothing DEF TypeOK, Locks, Unmade, Put
  <2> QED
    BY <1>7, <2>1, <2>2 DEF TypeOK, Put, Goto, PoolOf
<1>8. ASSUME NEW p \in Procs, Clear(p)
      PROVE  TypeOK'
  BY <1>8 DEF TypeOK, Clear, Unlock, Goto
<1>9. ASSUME Collect
      PROVE  TypeOK'
  BY <1>9 DEF TypeOK, Collect
<1> QED
  BY StepCases, <1>1, <1>2, <1>3, <1>4, <1>5, <1>6, <1>7, <1>8, <1>9

-----------------------------------------------------------------------------
LEMMA LocksInit == Init => Locks
BY NoneIsNothing DEF Init, Locks, Idle, Locked, Unlocked, Private, Unmade, Working

(* One step per conjunct under each action: locks never meet.              *)
LEMMA LocksStep ==
  ASSUME TypeOK, Locks, Next
  PROVE  Locks'
<1> USE NoneIsNothing DEF TypeOK, Working, Goto
<1>1. ASSUME NEW p \in Procs, NEW h \in Handles, NEW l \in Pools,
             GetPooled(p, h, l) \/ GetNew(p, h, l)
      PROVE  Locks'
  <2>1. /\ pc[p] = "idle" /\ at[p] = None /\ kind[h] = None /\ mu[h] = None
        /\ \A q \in Procs : at[q] # h
        /\ at' = [at EXCEPT ![p] = h] /\ pc' = [pc EXCEPT ![p] = "reset"]
        /\ kind' = [kind EXCEPT ![h] = l] /\ mu' = mu
    BY <1>1 DEF GetPooled, GetNew, New, Locks, Idle, Unmade
  <2>2. \E o \in Objects : fw' = [fw EXCEPT ![h] = o]
    BY <1>1 DEF GetPooled, GetNew, PoolOf
  <2>3. Idle'
    BY <2>1 DEF Locks, Idle
  <2>4. Locked'
    BY <2>1, <2>2 DEF Locks, Locked, Idle
  <2>5. Unlocked'
    BY <2>1 DEF Locks, Unlocked
  <2>6. Private'
    BY <2>1, <2>2 DEF Locks, Private, Idle
  <2>7. Unmade'
    BY <2>1, <2>2 DEF Locks, Unmade
  <2> QED
    BY <2>3, <2>4, <2>5, <2>6, <2>7 DEF Locks
<1>2. ASSUME NEW p \in Procs, NEW h \in Handles,
             NEW label \in {"use", "flush"}, Begin(p, h, label)
      PROVE  Locks'
  <2> USE <1>2 DEF Begin, Lock, Usable
  <2>1. Idle'
    BY DEF Locks, Idle
  <2>2. Locked'
    BY DEF Locks, Locked
  <2>3. Unlocked'
    BY DEF Locks, Unlocked, Idle
  <2>4. Private'
    BY DEF Locks, Private
  <2>5. Unmade'
    BY DEF Locks, Unmade
  <2> QED
    BY <2>1, <2>2, <2>3, <2>4, <2>5 DEF Locks
<1>3. ASSUME NEW p \in Procs, Reset(p)
      PROVE  Locks'
  BY <1>3 DEF Reset, Locks, Idle, Locked, Unlocked, Private, Unmade
<1>4. ASSUME NEW p \in Procs, Used(p) \/ Clear(p)
      PROVE  Locks'
  <2>1. /\ Working(p) /\ at[p] \in Handles /\ mu[at[p]] = p
        /\ mu' = [mu EXCEPT ![at[p]] = None] /\ at' = [at EXCEPT ![p] = None]
        /\ pc' = [pc EXCEPT ![p] = "idle"] /\ kind' = kind
    BY <1>4 DEF Used, Clear, Unlock, Locks, Idle, Locked
  <2>2. fw' = fw \/ fw' = [fw EXCEPT ![at[p]] = None]
    BY <1>4 DEF Used, Clear
  <2>3. \A q \in Procs : at[q] = at[p] => q = p
    <3>1. ASSUME NEW q \in Procs, at[q] = at[p], q # p
          PROVE  FALSE
      <4>1. ~Working(q)
        BY <2>1, <3>1 DEF Locks, Locked
      <4>2. pc[q] # "reset"
        BY <2>1, <3>1 DEF Locks, Private
      <4>3. pc[q] # "idle"
        BY <2>1, <3>1 DEF Locks, Idle
      <4> QED
        BY <4>1, <4>2, <4>3
    <3> QED
      BY <3>1
  <2>4. Idle'
    BY <2>1 DEF Locks, Idle
  <2>5. Locked'
    BY <2>1, <2>2, <2>3 DEF Locks, Locked, Idle
  <2>6. Unlocked'
    BY <2>1, <2>3 DEF Locks, Unlocked
  <2>7. Private'
    BY <2>1, <2>2, <2>3 DEF Locks, Private, Idle
  <2>8. Unmade'
    BY <2>1, <2>2 DEF Locks, Unmade
  <2> QED
    BY <2>4, <2>5, <2>6, <2>7, <2>8 DEF Locks
<1>5. ASSUME NEW p \in Procs, Flush(p) \/ Put(p)
      PROVE  Locks'
  BY <1>5 DEF Flush, Put, Locks, Idle, Locked, Unlocked, Private, Unmade
<1>6. ASSUME Collect
      PROVE  Locks'
  BY <1>6 DEF Collect, Locks, Idle, Locked, Unlocked, Private, Unmade
<1> QED
  BY StepCases, <1>1, <1>2, <1>3, <1>4, <1>5, <1>6

-----------------------------------------------------------------------------
LEMMA PlacesInit == Init => Places
BY NoneIsNothing
   DEF Init, Places, Unshared, NotPooled, Pooled, LevelKept, Aimed, Holds

(* Whoever works at a handle and has not put the object back, or has just  *)
(* got it, is the reason why the handle holds it.                          *)
LEMMA WorkingHolds ==
  ASSUME TypeOK, Locks, NEW p \in Procs,
         pc[p] \in {"reset", "use", "flush", "put"}
  PROVE  at[p] \in Handles /\ Holds(at[p])
<1>1. at[p] \in Handles /\ fw[at[p]] # None
  BY DEF TypeOK, Locks, Idle, Locked, Private, Working
<1>2. ASSUME NEW q \in Procs, at[q] = at[p], pc[q] = "clear"
      PROVE  FALSE
  <2>1. mu[at[q]] = q
    BY <1>2 DEF Locks, Locked, Working
  <2>2. CASE pc[p] = "reset"
    BY <1>2, <2>2 DEF Locks, Private
  <2>3. CASE pc[p] # "reset"
    BY <1>2, <2>1, <2>3 DEF Locks, Locked, Working
  <2> QED
    BY <2>2, <2>3
<1> QED
  BY <1>1, <1>2 DEF Holds

(* No action makes an object shared: New takes it out of its pool, Reset   *)
(* aims it before anybody can use it, and Put gives it up.                 *)
LEMMA PlacesStep ==
  ASSUME TypeOK, Locks, Places, Next
  PROVE  Places'
<1> USE NoneIsNothing DEF TypeOK, Goto
<1>1. ASSUME NEW p \in Procs, NEW h \in Handles, NEW l \in Pools,
             GetPooled(p, h, l) \/ GetNew(p, h, l)
      PROVE  Places'
  <2>1. /\ \A q \in Procs : at[q] # h
        /\ at' = [at EXCEPT ![p] = h] /\ pc' = [pc EXCEPT ![p] = "reset"]
        /\ kind' = [kind EXCEPT ![h] = l] /\ target' = target
        /\ kind[h] = None /\ fw[h] = None
        /\ pc[p] = "idle" /\ at[p] = None
    BY <1>1 DEF GetPooled, GetNew, New, Locks, Unmade, Idle
  <2>2. PICK o \in Objects :
          /\ fw' = [fw EXCEPT ![h] = o]
          /\ \/ /\ o \in pool[l] /\ made' = made
                /\ pool' = [pool EXCEPT ![l] = @ \ {o}]
             \/ /\ made[o] = None /\ made' = [made EXCEPT ![o] = l]
                /\ pool' = pool
    BY <1>1 DEF GetPooled, GetNew, PoolOf
  <2>3. \A g \in Handles : g # h => (Holds(g)' <=> Holds(g))
    BY <2>1, <2>2 DEF Holds
  <2>4. \A g \in Handles : Holds(g) => fw[g] # o
    BY <2>2 DEF Places, NotPooled, LevelKept, Locks, Unmade, Holds
  <2>5. made'[o] = l /\ \A k \in Pools : o \notin pool'[k]
    BY <2>2 DEF Places, Pooled
  <2>6. Unshared'
    BY <2>2, <2>3, <2>4 DEF Places, Unshared
  <2>7. NotPooled'
    BY <2>2, <2>3, <2>5 DEF Places, NotPooled
  <2>8. Pooled'
    BY <2>2 DEF Places, Pooled
  <2>9. LevelKept'
    <3>1. ASSUME NEW g \in Handles, Holds(g)'
          PROVE  made'[fw'[g]] = kind'[g]
      <4>1. CASE g = h
        BY <2>1, <2>2, <2>5, <4>1
      <4>2. CASE g # h
        <5>1. Holds(g) /\ fw[g] # o /\ fw[g] \in Objects
          BY <2>3, <2>4, <3>1, <4>2 DEF Holds
        <5> QED
          BY <2>1, <2>2, <4>2, <5>1 DEF Places, LevelKept
      <4> QED
        BY <4>1, <4>2
    <3> QED
      BY <3>1 DEF LevelKept
  <2>10. Aimed'
    <3>1. ASSUME NEW g \in Handles, Holds(g)',
                 \A q \in Procs : ~(at'[q] = g /\ pc'[q] = "reset")
          PROVE  target'[fw'[g]] = g
      <4>1. g # h
        BY <2>1, <3>1
      <4>2. \A q \in Procs : ~(at[q] = g /\ pc[q] = "reset")
        BY <1>1, <2>1, <3>1, <4>1 DEF GetPooled, GetNew, New
      <4> QED
        BY <2>1, <2>2, <2>3, <3>1, <4>1, <4>2 DEF Places, Aimed
    <3> QED
      BY <3>1 DEF Aimed
  <2> QED
    BY <2>6, <2>7, <2>8, <2>9, <2>10 DEF Places
<1>2. ASSUME NEW p \in Procs, NEW h \in Handles,
             NEW label \in {"use", "flush"}, Begin(p, h, label)
      PROVE  Places'
  <2>1. \A g \in Handles : Holds(g)' <=> Holds(g)
    BY <1>2 DEF Begin, Lock, Usable, Holds, Locks, Idle
  <2>2. Unshared' /\ NotPooled' /\ Pooled' /\ LevelKept'
    BY <1>2, <2>1
       DEF Begin, Lock, Places, Unshared, NotPooled, Pooled, LevelKept
  <2>3. Aimed'
    BY <1>2, <2>1 DEF Begin, Lock, Usable, Places, Aimed
  <2> QED
    BY <2>2, <2>3 DEF Places
<1>3. ASSUME NEW p \in Procs, Reset(p)
      PROVE  Places'
  <2>1. at[p] \in Handles /\ Holds(at[p])
    BY <1>3, WorkingHolds DEF Reset
  <2>2. \A g \in Handles : Holds(g)' <=> Holds(g)
    BY <1>3 DEF Reset, Holds
  <2>3. Unshared' /\ NotPooled' /\ Pooled' /\ LevelKept'
    BY <1>3, <2>2 DEF Reset, Places, Unshared, NotPooled, Pooled, LevelKept
  <2>4. Aimed'
    <3>1. ASSUME NEW g \in Handles, Holds(g),
                 \A q \in Procs : ~(at'[q] = g /\ pc'[q] = "reset")
          PROVE  target'[fw[g]] = g
      <4>1. CASE g = at[p]
        BY <1>3, <2>1, <4>1 DEF Reset, Holds
      <4>2. CASE g # at[p]
        <5>1. fw[g] # fw[at[p]]
          BY <2>1, <3>1, <4>2 DEF Places, Unshared
        <5>2. \A q \in Procs : ~(at[q] = g /\ pc[q] = "reset")
          BY <1>3, <3>1, <4>2 DEF Reset
        <5> QED
          BY <1>3, <3>1, <5>1, <5>2 DEF Reset, Places, Aimed, Holds
      <4> QED
        BY <4>1, <4>2
    <3> QED
      BY <1>3, <2>2, <3>1 DEF Aimed, Reset
  <2> QED
    BY <2>3, <2>4 DEF Places
<1>4. ASSUME NEW p \in Procs, Used(p)
      PROVE  Places'
  <2>1. \A g \in Handles : Holds(g)' <=> Holds(g)
    BY <1>4 DEF Used, Unlock, Holds
  <2> QED
    BY <1>4, <2>1 DEF Used, Unlock, Places, Unshared, NotPooled, Pooled,
                      LevelKept, Aimed
<1>5. ASSUME NEW p \in Procs, Flush(p)
      PROVE  Places'
  <2>1. \A g \in Handles : Holds(g)' <=> Holds(g)
    BY <1>5 DEF Flush, Holds
  <2> QED
    BY <1>5, <2>1 DEF Flush, Places, Unshared, NotPooled, Pooled,
                      LevelKept, Aimed
<1>6. ASSUME NEW p \in Procs, Put(p)
      PROVE  Places'
  <2>1. at[p] \in Handles /\ Holds(at[p])
    BY <1>6, WorkingHolds DEF Put
  <2>2. kind[at[p]] \in Pools
    BY <1>6, <2>1 DEF Locks, Unmade, Holds
  <2>3. ~Holds(at[p])'
    BY <1>6 DEF Put, Holds
  <2>4. \A g \in Handles : Holds(g)' => Holds(g) /\ g # at[p]
    BY <1>6, <2>3 DEF Put, Holds
  <2>5. made[fw[at[p]]] = kind[at[p]]
    BY <2>1 DEF Places, LevelKept
  <2>6. Unshared' /\ LevelKept'
    BY <1>6, <2>4 DEF Put, Places, Unshared, LevelKept
  <2>7. NotPooled'
    BY <1>6, <2>1, <2>2, <2>4 DEF Put, PoolOf, Places, NotPooled, Unshared
  <2>8. Pooled'
    BY <1>6, <2>1, <2>2, <2>5 DEF Put, PoolOf, Places, Pooled
  <2>9. Aimed'
    BY <1>6, <2>4 DEF Put, Places, Aimed
  <2> QED
    BY <2>6, <2>7, <2>8, <2>9 DEF Places
<1>7. ASSUME NEW p \in Procs, Clear(p)
      PROVE  Places'
  <2>1. \A g \in Handles :
          Holds(g)' => Holds(g) /\ fw'[g] = fw[g]
    BY <1>7 DEF Clear, Unlock, Holds
  <2> QED
    BY <1>7, <2>1 DEF Clear, Unlock, Places, Unshared, NotPooled, Pooled,
                      LevelKept, Aimed
<1>8. ASSUME Collect
      PROVE  Places'
  <2>1. \A g \in Handles : Holds(g)' <=> Holds(g)
    BY <1>8 DEF Collect, Holds
  <2>2. Unshared' /\ NotPooled' /\ Pooled' /\ Aimed'
    BY <1>8, <2>1
       DEF Collect, Places, Unshared, NotPooled, Pooled, Aimed
  <2>3. LevelKept'
    BY <1>8, <2>1 DEF Collect, Places, NotPooled, LevelKept, Holds
  <2> QED
    BY <2>2, <2>3 DEF Places
<1> QED
  BY StepCases, <1>1, <1>2, <1>3, <1>4, <1>5, <1>6, <1>7, <1>8

-----------------------------------------------------------------------------
(* The invariant holds in every state.  (register.go:20-118)               *)
THEOREM Invariant == Spec => []IInv
<1>1. Init => IInv
  BY TypeInit, LocksInit, PlacesInit DEF IInv
<1>2. IInv /\ [Next]_vars => IInv'
  <2> SUFFICES ASSUME IInv, [Next]_vars
               PROVE  IInv'
    OBVIOUS
  <2>1. CASE Next
    BY <2>1, TypeStep, LocksStep, PlacesStep DEF IInv
  <2>2. CASE UNCHANGED vars
    BY <2>2 DEF vars, IInv, TypeOK, Locks, Idle, Locked, Unlocked, Private,
         Unmade, Working, Places, Unshared, NotPooled, Pooled, LevelKept,
         Aimed, Holds
  <2> QED
    BY <2>1, <2>2
<1> QED
  BY <1>1, <1>2, PTL DEF Spec

(* Handles, pools and goroutines keep their types.                         *)
THEOREM TypeCorrect == Spec => []TypeOK
<1>1. IInv => TypeOK
  BY DEF IInv
<1> QED
  BY <1>1, Invariant, PTL

(* No compressor or decompressor ever serves two handles, nor lies in a    *)
(* pool while one holds it, nor in two pools, whatever the number of       *)
(* goroutines, and whenever the collector empties the pools.               *)
THEOREM OneOwnerAlways == Spec => []OneOwner
<1>1. IInv => OneOwner
  BY DEF IInv, Places, Unshared, NotPooled, Pooled, OneOwner, TypeOK
<1> QED
  BY <1>1, Invariant, PTL

(* A call compresses or flushes to its own handle's output, with nobody    *)
(* else at the same object.                                                *)
THEOREM OwnOutputAlways == Spec => []OwnOutput
<1>1. ASSUME IInv, NEW p \in Procs, pc[p] \in {"use", "flush"}
      PROVE  /\ fw[at[p]] # None /\ target[fw[at[p]]] = at[p]
             /\ \A q \in Procs \ {p} :
                  pc[q] \in {"reset", "use", "flush", "put"}
                    => fw[at[q]] # fw[at[p]]
  <2>1. at[p] \in Handles /\ Holds(at[p])
    BY <1>1, WorkingHolds DEF IInv
  <2>2. mu[at[p]] = p
    BY <1>1 DEF IInv, Locks, Locked, Working
  <2>3. \A q \in Procs : ~(at[q] = at[p] /\ pc[q] = "reset")
    BY <1>1 DEF IInv, Locks, Private
  <2>4. target[fw[at[p]]] = at[p]
    BY <1>1, <2>1, <2>3 DEF IInv, Places, Aimed
  <2>5. ASSUME NEW q \in Procs \ {p},
               pc[q] \in {"reset", "use", "flush", "put"}
        PROVE  fw[at[q]] # fw[at[p]]
    <3>1. at[q] \in Handles /\ Holds(at[q])
      BY <1>1, <2>5, WorkingHolds DEF IInv
    <3>2. at[q] # at[p]
      BY <1>1, <2>2, <2>3, <2>5 DEF IInv, Locks, Locked, Working
    <3> QED
      BY <1>1, <2>1, <3>1, <3>2 DEF IInv, Places, Unshared
  <2> QED
    BY <2>1, <2>4, <2>5 DEF Holds
<1>2. IInv => OwnOutput
  BY <1>1 DEF OwnOutput
<1> QED
  BY <1>2, Invariant, PTL

(* An object compresses with the level its handle was asked for.           *)
THEOREM LevelAlwaysKept == Spec => []LevelKept
<1>1. IInv => LevelKept
  BY DEF IInv, Places
<1> QED
  BY <1>1, Invariant, PTL
=============================================================================
