-------------------------- MODULE MuxSessionsProofs --------------------------
(***************************************************************************)
(* Proofs about the mux session table, for every width of the id counter,  *)
(* every set of strategies and every finite set of calling tasks.          *)
(***************************************************************************)
EXTENDS MuxSessions, FiniteSetTheorems, TLAPS

(* The wrapping increment stays inside the id space, and is the ordinary   *)
(* successor until the counter wraps.                                      *)
LEMMA WrapLemma ==
    ASSUME NEW n \in Ids
    PROVE  /\ WrappingSucc(n) \in Ids
           /\ n + 1 < IdSpace => WrappingSucc(n) = n + 1
           /\ n + 1 = IdSpace => WrappingSucc(n) = 0
  BY MuxConstants DEF WrappingSucc, Ids

(* The limits of any strategy are natural numbers. *)
LEMMA LimitsLemma ==
    ASSUME TypeOK
    PROVE  MaxConcurrency \in Nat /\ MaxConnection \in Nat
  BY MuxConstants DEF TypeOK, MaxConcurrency, MaxConnection

(* The table is finite: its keys are u16 values. *)
LEMMA TableFinite ==
    ASSUME TypeOK
    PROVE  IsFiniteSet(DOMAIN sessions)
  <1>1. IsFiniteSet(Ids)
    BY MuxConstants, FS_Interval DEF Ids
  <1> QED BY <1>1, FS_Subset DEF TypeOK

(* The initial state of the table is well typed. *)
LEMMA TypeInit == Init => TypeOK
  <1> SUFFICES ASSUME Init PROVE TypeOK
    OBVIOUS
  <1> USE DEF Init
  <1>1. Opens = 0 /\ idOf \in Seq(Ids)
    BY DEF Opens
  <1>2. sessions \in [DOMAIN sessions -> 1 .. Opens] /\ DOMAIN sessions = {}
    OBVIOUS
  <1>3. 0 \in Ids
    BY MuxConstants DEF Ids
  <1>4. mon \in [pc : MonitorStates, size : Nat, count : Ids]
    BY <1>3 DEF MonitorStates
  <1>5. hist \in [sampled : 0 .. Opens, closedAt : 0 .. Opens]
    BY <1>1
  <1>6. pc \in [Callers -> {"idle", "allocating", "closing"}] /\ closedSess \subseteq 1 .. Opens
    OBVIOUS
  <1>7. next_id \in Ids /\ DOMAIN sessions \subseteq Ids /\ ending \in Ids \cup {NoId}
    BY <1>2, <1>3
  <1>8. Opens <= MaxOpens
    BY <1>1, MuxConstants
  <1>9. closed \in BOOLEAN /\ done \in BOOLEAN /\ strategy \in Strategies
    OBVIOUS
  <1> HIDE DEF Init
  <1> QED BY <1>1, <1>2, <1>4, <1>5, <1>6, <1>7, <1>8, <1>9 DEF TypeOK

(* Every step of the table keeps the types. *)
LEMMA TypeStep == TypeOK /\ [Next]_vars => TypeOK'
  <1> SUFFICES ASSUME TypeOK, [Next]_vars PROVE TypeOK'
    OBVIOUS
  <1> USE DEF TypeOK, Opens
  <1>0. Len(idOf) \in 0 .. Len(idOf)
    OBVIOUS
  <1>s. strategy' = strategy
    BY DEF Next, vars
  <1> USE <1>s
  <1>1. ASSUME NEW c \in Callers, AllocateCheck(c) PROVE TypeOK'
    BY <1>1 DEF AllocateCheck
  <1>2. ASSUME NEW c \in Callers, AllocateFull(c) PROVE TypeOK'
    BY <1>2 DEF AllocateFull
  <1>3. ASSUME NEW c \in Callers, AllocateLocked(c) PROVE TypeOK'
    <2>1. next_id' \in Ids
      BY <1>3, WrapLemma DEF AllocateLocked
    <2>2. idOf' \in Seq(Ids) /\ Len(idOf') = Len(idOf) + 1 /\ Len(idOf) \in Nat
      BY <1>3, <2>1 DEF AllocateLocked
    <2>3. sessions' \in [DOMAIN sessions' -> 1 .. Opens'] /\ DOMAIN sessions' \subseteq Ids
      BY <1>3, <2>1, <2>2 DEF AllocateLocked, Insert
    <2>4. closedSess' \subseteq 1 .. Opens'
      BY <1>3, <2>2 DEF AllocateLocked
    <2>5. hist' \in [sampled : 0 .. Opens', closedAt : 0 .. Opens']
      BY <1>3, <2>2 DEF AllocateLocked
    <2>6. Opens' <= MaxOpens
      BY <1>3, <2>2, MuxConstants DEF AllocateLocked
    <2>7. pc' \in [Callers -> {"idle", "allocating", "closing"}]
      BY <1>3 DEF AllocateLocked
    <2> QED BY <1>3, <2>1, <2>2, <2>3, <2>4, <2>5, <2>6, <2>7 DEF AllocateLocked
  <1>4. ASSUME NEW c \in Callers, CloseSwap(c) PROVE TypeOK'
    BY <1>0, <1>4 DEF CloseSwap
  <1>5. ASSUME NEW c \in Callers, CloseLocked(c) PROVE TypeOK'
    <2>1. closedSess' \subseteq 1 .. Opens'
      BY <1>5 DEF CloseLocked, Range
    <2>2. hist' \in [sampled : 0 .. Opens', closedAt : 0 .. Opens']
      BY <1>5 DEF CloseLocked
    <2>3. pc' \in [Callers -> {"idle", "allocating", "closing"}]
      BY <1>5 DEF CloseLocked
    <2> QED BY <1>5, <2>1, <2>2, <2>3 DEF CloseLocked
  <1>6. ASSUME NEW id \in Range(idOf), EndGet(id) PROVE TypeOK'
    <2>1. id \in Ids
      BY DEF Range
    <2> QED BY <1>6, <2>1 DEF EndGet
  <1>7. ASSUME NEW id \in Range(idOf), NewRemove(id) PROVE TypeOK'
    BY <1>7 DEF NewRemove, Remove, Restrict
  <1>8. CASE EndRemove
    BY <1>8 DEF EndRemove, Remove, Restrict
  <1>9. CASE ReadLoopEnds
    BY <1>9 DEF ReadLoopEnds
  <1>10. CASE MonitorDone
    BY <1>10 DEF MonitorDone, MonitorStates
  <1>11. CASE MonitorSize
    <2>1. Cardinality(DOMAIN sessions) \in Nat
      BY TableFinite, FS_CardinalityType
    <2> QED BY <1>11, <2>1 DEF MonitorSize, MonitorStates
  <1>12. CASE MonitorCount
    BY <1>0, <1>12 DEF MonitorCount, MonitorStates
  <1>13. CASE MonitorCheck
    BY <1>13 DEF MonitorCheck, MonitorStates
  <1>14. CASE MonitorBusy
    BY <1>14 DEF MonitorBusy, MonitorStates
  <1>15. CASE MonitorClose
    BY <1>0, <1>15 DEF MonitorClose, MonitorStates
  <1>16. CASE UNCHANGED vars
    BY <1>16 DEF vars
  <1> QED
    BY <1>1, <1>2, <1>3, <1>4, <1>5, <1>6, <1>7, <1>8, <1>9, <1>10,
       <1>11, <1>12, <1>13, <1>14, <1>15, <1>16 DEF Next, Monitor

(* TypeOK holds in every reachable state of the session table. *)
THEOREM TypeCorrect == Spec => []TypeOK
  BY TypeInit, TypeStep, PTL DEF Spec


(* Inserting one key grows a finite table by at most one entry, and        *)
(* removing one never grows it.                                            *)
LEMMA TableSize ==
    ASSUME TypeOK, NEW id
    PROVE  /\ Cardinality(DOMAIN sessions) \in Nat
           /\ Cardinality(DOMAIN Insert(id, Opens + 1)) \in Nat
           /\ Cardinality(DOMAIN Insert(id, Opens + 1)) <= Cardinality(DOMAIN sessions) + 1
           /\ Cardinality(DOMAIN Remove(id)) \in Nat
           /\ Cardinality(DOMAIN Remove(id)) <= Cardinality(DOMAIN sessions)
  <1>1. IsFiniteSet(DOMAIN sessions)
    BY TableFinite
  <1>2. DOMAIN Insert(id, Opens + 1) = DOMAIN sessions \cup {id}
    BY DEF Insert
  <1>3. DOMAIN Remove(id) = DOMAIN sessions \ {id}
    BY DEF Remove, Restrict
  <1>4. IsFiniteSet(DOMAIN sessions \ {id})
    BY <1>1, FS_Subset
  <1> QED BY <1>1, <1>2, <1>3, <1>4, FS_AddElement, FS_RemoveElement, FS_CardinalityType

(* Moving one task into or out of allocate() changes the number of tasks   *)
(* there by one.                                                           *)
LEMMA AllocatingSize ==
    ASSUME TypeOK
    PROVE  /\ IsFiniteSet(Allocating)
           /\ Cardinality(Allocating) \in Nat
           /\ Cardinality(Allocating) <= Cardinality(Callers)
           /\ Cardinality(Callers) \in Nat
           /\ \A c \in Allocating :
                 Cardinality(Allocating \ {c}) = Cardinality(Allocating) - 1
  <1>1. Allocating \subseteq Callers
    BY DEF Allocating
  <1> QED BY <1>1, CallersFinite, FS_Subset, FS_RemoveElement, FS_CardinalityType

(* The same bound after a step. *)
LEMMA AllocatingSizePrimed ==
    ASSUME TypeOK'
    PROVE  /\ Cardinality(Allocating)' \in Nat
           /\ Cardinality(Allocating)' <= Cardinality(Callers)
  <1>1. Allocating' \subseteq Callers
    BY DEF Allocating
  <1> QED BY <1>1, CallersFinite, FS_Subset, FS_CardinalityType

(* The invariant is inductive: it holds initially ...                      *)
LEMMA IndInvInit == Init => IndInv
  <1> SUFFICES ASSUME Init PROVE IndInv
    OBVIOUS
  <1>1. TypeOK
    BY TypeInit
  <1>2. Cardinality(DOMAIN sessions) = 0
    BY FS_EmptySet DEF Init
  <1>3. Opens = 0
    BY DEF Init, Opens
  <1>4. ConcurrencyBound /\ ConnectionBound
    BY <1>1, <1>2, <1>3, LimitsLemma DEF ConcurrencyBound, ConnectionBound
  <1>5. CounterCountsOpens /\ WindowIds /\ TableNamesItsObjects
    BY <1>3 DEF CounterCountsOpens, WindowIds, TableNamesItsObjects, Init
  <1>6. PendingBounded /\ SampleExact /\ EndingClosed
    BY DEF Init, PendingBounded, SampleExact, EndingClosed
  <1> QED BY <1>1, <1>4, <1>5, <1>6 DEF IndInv

(* Steps that leave the map, the counter and the objects alone.            *)
TableUnchanged == UNCHANGED <<sessions, next_id, idOf>>

(* A step either allocates, removes or leaves the table alone.             *)
LEMMA StepKinds ==
    ASSUME [Next]_vars
    PROVE  /\ UNCHANGED strategy
           /\ \/ \E c \in Callers : AllocateLocked(c)
              \/ \E id \in Range(idOf) : NewRemove(id)
              \/ EndRemove
              \/ TableUnchanged
  BY DEF Next, Monitor, vars, TableUnchanged, AllocateCheck, AllocateFull, CloseSwap,
         CloseLocked, EndGet, ReadLoopEnds, MonitorDone, MonitorSize, MonitorCount,
         MonitorCheck, MonitorBusy, MonitorClose

(* allocate() under the lock appends one object with the next id.          *)
LEMMA AllocateEffect ==
    ASSUME TypeOK, NEW c \in Callers, AllocateLocked(c)
    PROVE  /\ Opens \in Nat /\ Opens' = Opens + 1
           /\ next_id' \in Ids
           /\ idOf'[Opens + 1] = next_id'
           /\ \A h \in 1 .. Opens : idOf'[h] = idOf[h]
           /\ next_id + 1 < IdSpace => next_id' = next_id + 1
           /\ next_id + 1 = IdSpace => next_id' = 0
  <1>1. next_id' \in Ids
    BY WrapLemma DEF AllocateLocked, TypeOK
  <1>2. idOf \in Seq(Ids) /\ idOf' = Append(idOf, next_id')
    BY DEF AllocateLocked, TypeOK
  <1>3. /\ next_id + 1 < IdSpace => next_id' = next_id + 1
        /\ next_id + 1 = IdSpace => next_id' = 0
    BY WrapLemma DEF AllocateLocked, TypeOK
  <1> QED BY <1>1, <1>2, <1>3 DEF Opens

(* ... the part of the invariant about the table is kept ...               *)
LEMMA TablePartStep ==
    ASSUME IndInv, [Next]_vars
    PROVE  (ConcurrencyBound /\ CounterCountsOpens /\ WindowIds
              /\ TableNamesItsObjects /\ ConnectionBound)'
  <1> USE DEF IndInv
  <1>0. UNCHANGED <<MaxConcurrency, MaxConnection>>
        /\ MaxConcurrency \in Nat /\ MaxConnection \in Nat
    BY StepKinds, LimitsLemma DEF MaxConcurrency, MaxConnection
  <1>1. ASSUME NEW c \in Callers, AllocateLocked(c)
        PROVE  (ConcurrencyBound /\ CounterCountsOpens /\ WindowIds
                  /\ TableNamesItsObjects /\ ConnectionBound)'
    <2> USE AllocateEffect, <1>0, <1>1, MuxConstants
    <2>1. ConcurrencyBound'
      BY TableSize DEF ConcurrencyBound, AllocateLocked, Full
    <2>2. CounterCountsOpens'
      <3> SUFFICES ASSUME Opens + 1 < IdSpace
                   PROVE  next_id' = Opens + 1 /\ \A h \in 1 .. Opens + 1 : idOf'[h] = h
        BY DEF CounterCountsOpens
      <3>1. next_id = Opens /\ \A h \in 1 .. Opens : idOf[h] = h
        BY DEF CounterCountsOpens
      <3>2. next_id' = Opens + 1
        BY <3>1
      <3> QED BY <3>1, <3>2
    <2>3. WindowIds'
      <3> SUFFICES ASSUME NEW h \in 1 .. Opens + 1, Opens + 1 - h < IdSpace
                   PROVE  idOf'[h] = IF next_id' >= Opens + 1 - h
                                     THEN next_id' - (Opens + 1 - h)
                                     ELSE next_id' - (Opens + 1 - h) + IdSpace
        BY DEF WindowIds
      <3>1. CASE h = Opens + 1
        BY <3>1 DEF Ids
      <3>2. CASE h \in 1 .. Opens
        <4>1. idOf[h] = IF next_id >= Opens - h THEN next_id - (Opens - h)
                                                ELSE next_id - (Opens - h) + IdSpace
          BY <3>2 DEF WindowIds
        <4>2. next_id \in Nat /\ next_id < IdSpace
          BY DEF TypeOK, Ids
        <4> QED BY <3>2, <4>1, <4>2
      <3> QED BY <3>1, <3>2
    <2>4. TableNamesItsObjects'
      <3>1. \A i \in DOMAIN sessions : sessions[i] \in 1 .. Opens
        BY DEF TypeOK
      <3>2. sessions' = Insert(next_id', Opens + 1)
        BY DEF AllocateLocked
      <3>3. \A i \in DOMAIN sessions' :
               \/ i = next_id' /\ sessions'[i] = Opens + 1
               \/ i \in DOMAIN sessions /\ sessions'[i] = sessions[i]
        BY <3>2 DEF Insert
      <3> QED BY <3>1, <3>3 DEF TableNamesItsObjects
    <2>5. ConnectionBound'
      <3>1. next_id \in Nat /\ MaxConnection > 0 => next_id < MaxConnection
        BY DEF AllocateLocked, Full
      <3>2. next_id \in Nat
        BY DEF TypeOK, Ids
      <3>3. Opens < IdSpace => next_id = Opens
        BY DEF CounterCountsOpens
      <3> QED BY <3>1, <3>2, <3>3 DEF ConnectionBound
    <2> QED BY <2>1, <2>2, <2>3, <2>4, <2>5
  <1>2. ASSUME NEW id, sessions' = Remove(id), UNCHANGED <<next_id, idOf>>
        PROVE  (ConcurrencyBound /\ CounterCountsOpens /\ WindowIds
                  /\ TableNamesItsObjects /\ ConnectionBound)'
    <2>1. ConcurrencyBound'
      BY <1>0, <1>2, TableSize DEF ConcurrencyBound
    <2>2. TableNamesItsObjects'
      BY <1>2 DEF TableNamesItsObjects, Remove, Restrict
    <2> QED BY <1>0, <1>2, <2>1, <2>2 DEF CounterCountsOpens, WindowIds, ConnectionBound, Opens
  <1>3. CASE TableUnchanged
    BY <1>0, <1>3 DEF TableUnchanged, ConcurrencyBound, CounterCountsOpens, WindowIds,
                TableNamesItsObjects, ConnectionBound, Opens
  <1> QED BY <1>1, <1>2, <1>3, StepKinds DEF NewRemove, EndRemove

(* ... so is the count of pending allocate() calls ...                     *)
LEMMA PendingStep ==
    ASSUME IndInv, [Next]_vars
    PROVE  PendingBounded'
  <1> USE DEF IndInv
  <1>0. TypeOK' /\ Opens \in Nat
    BY TypeStep DEF TypeOK, Opens
  <1>1. ASSUME NEW c \in Callers, AllocateLocked(c) PROVE PendingBounded'
    <2>1. c \in Allocating /\ Allocating' = Allocating \ {c}
      BY <1>1 DEF Allocating, AllocateLocked, TypeOK
    <2>2. UNCHANGED <<closed, hist>>
      BY <1>1 DEF AllocateLocked
    <2>3. hist.closedAt \in Nat
      BY <1>0 DEF TypeOK
    <2> QED BY <1>0, <1>1, <2>1, <2>2, <2>3, AllocatingSize, AllocateEffect DEF PendingBounded
  <1>2. ASSUME NEW c \in Callers, AllocateFull(c) PROVE PendingBounded'
    <2>1. c \in Allocating /\ Allocating' = Allocating \ {c}
      BY <1>2 DEF Allocating, AllocateFull, TypeOK
    <2>2. UNCHANGED <<closed, hist, idOf>>
      BY <1>2 DEF AllocateFull
    <2>3. hist.closedAt \in Nat
      BY <1>0 DEF TypeOK
    <2> QED BY <1>0, <2>1, <2>2, <2>3, AllocatingSize DEF PendingBounded, Opens
  <1>3. ASSUME NEW c \in Callers, AllocateCheck(c) PROVE PendingBounded'
    BY <1>3 DEF AllocateCheck, PendingBounded
  <1>4. ASSUME NEW c \in Callers, CloseLocked(c) PROVE PendingBounded'
    <2>1. Allocating' = Allocating
      BY <1>4 DEF Allocating, CloseLocked, TypeOK
    <2>2. hist'.closedAt = hist.closedAt /\ UNCHANGED <<closed, idOf>>
      BY <1>4 DEF CloseLocked, TypeOK
    <2> QED BY <2>1, <2>2 DEF PendingBounded, Opens
  <1>5. ASSUME idOf' = idOf, hist'.closedAt = Opens PROVE PendingBounded'
    <2>1. Cardinality(Allocating)' <= Cardinality(Callers) /\ Cardinality(Allocating)' \in Nat
      BY <1>0, AllocatingSizePrimed
    <2> QED BY <1>0, <1>5, <2>1, AllocatingSize DEF PendingBounded, Opens
  <1>6. ASSUME NEW c \in Callers, CloseSwap(c) PROVE PendingBounded'
    BY <1>5, <1>6 DEF CloseSwap, TypeOK
  <1>7. CASE MonitorCount
    <2>1. hist'.closedAt = hist.closedAt /\ UNCHANGED <<closed, idOf, pc>>
      BY <1>7 DEF MonitorCount, TypeOK
    <2> QED BY <2>1 DEF PendingBounded, Opens, Allocating
  <1>8. CASE MonitorClose
    <2>1. CASE closed
      BY <1>8, <2>1 DEF MonitorClose, PendingBounded, Opens, Allocating
    <2>2. CASE ~closed
      BY <1>5, <1>8, <2>2 DEF MonitorClose, TypeOK
    <2> QED BY <2>1, <2>2
  <1>9. CASE UNCHANGED <<idOf, pc, closed, hist>>
    BY <1>9 DEF PendingBounded, Opens, Allocating
  <1>10. \/ \E c \in Callers : \/ AllocateCheck(c) \/ AllocateFull(c) \/ AllocateLocked(c)
                               \/ CloseSwap(c) \/ CloseLocked(c)
         \/ MonitorCount \/ MonitorClose
         \/ UNCHANGED <<idOf, pc, closed, hist>>
    BY DEF Next, Monitor, vars, EndGet, NewRemove, EndRemove, ReadLoopEnds,
           MonitorDone, MonitorSize, MonitorCheck, MonitorBusy
  <1> QED BY <1>1, <1>2, <1>3, <1>4, <1>6, <1>7, <1>8, <1>9, <1>10

(* ... the monitor's sample ...                                            *)
LEMMA SampleStep ==
    ASSUME IndInv, [Next]_vars
    PROVE  SampleExact'
  <1> USE DEF IndInv, SampleExact
  <1>1. ASSUME NEW c \in Callers, AllocateLocked(c) PROVE SampleExact'
    <2>1. UNCHANGED <<mon, hist>>
      BY <1>1 DEF AllocateLocked
    <2> QED BY <1>1, <2>1, AllocateEffect, MuxConstants
  <1>2. ASSUME NEW c \in Callers, CloseSwap(c) \/ CloseLocked(c) PROVE SampleExact'
    <2>1. hist'.sampled = hist.sampled /\ UNCHANGED <<mon, idOf>>
      BY <1>2 DEF CloseSwap, CloseLocked, TypeOK
    <2> QED BY <2>1 DEF Opens
  <1>3. CASE MonitorDone \/ MonitorSize \/ MonitorBusy \/ MonitorClose
    <2>1. mon'.pc \notin {"check", "locked"}
      BY <1>3 DEF MonitorDone, MonitorSize, MonitorBusy, MonitorClose, TypeOK
    <2> QED BY <2>1
  <1>4. CASE MonitorCount
    <2>1. mon'.count = next_id /\ hist'.sampled = Opens /\ UNCHANGED idOf
      BY <1>4 DEF MonitorCount, TypeOK
    <2> QED BY <2>1 DEF CounterCountsOpens, Opens
  <1>5. CASE MonitorCheck
    <2>1. mon.pc = "check" /\ mon'.count = mon.count /\ UNCHANGED <<hist, idOf>>
      BY <1>5 DEF MonitorCheck, TypeOK
    <2> QED BY <2>1 DEF Opens
  <1>6. CASE UNCHANGED <<mon, hist, idOf>>
    BY <1>6 DEF Opens
  <1> QED
    BY <1>1, <1>2, <1>3, <1>4, <1>5, <1>6
    DEF Next, Monitor, vars, AllocateCheck, AllocateFull, EndGet, NewRemove, EndRemove,
        ReadLoopEnds

(* ... and the id the read loop is about to remove.                        *)
LEMMA EndingStep ==
    ASSUME IndInv, [Next]_vars
    PROVE  EndingClosed'
  <1> USE DEF IndInv, EndingClosed
  <1>0. Opens \in Nat
    BY DEF TypeOK, Opens
  <1>1. ASSUME NEW c \in Callers, AllocateLocked(c) PROVE EndingClosed'
    <2> SUFFICES ASSUME ending # NoId, Opens + 1 < IdSpace
                 PROVE  /\ ending \in 1 .. Opens + 1
                        /\ ending \in DOMAIN sessions' => sessions'[ending] \in closedSess
      BY <1>1, AllocateEffect DEF AllocateLocked
    <2>1. ending \in 1 .. Opens /\ (ending \in DOMAIN sessions => sessions[ending] \in closedSess)
      BY <1>0, MuxConstants
    <2>2. next_id' = Opens + 1
      BY <1>0, <1>1, AllocateEffect, MuxConstants DEF CounterCountsOpens
    <2>3. ending # next_id'
      BY <1>0, <2>1, <2>2
    <2>4. ending \in DOMAIN sessions' => ending \in DOMAIN sessions /\ sessions'[ending] = sessions[ending]
      BY <1>1, <2>3 DEF AllocateLocked, Insert
    <2> QED BY <1>0, <2>1, <2>4
  <1>2. ASSUME NEW id \in Range(idOf), EndGet(id) PROVE EndingClosed'
    <2>1. PICK h \in 1 .. Opens : id = idOf[h]
      BY DEF Range, TypeOK, Opens
    <2>2. Opens < IdSpace => id \in 1 .. Opens
      BY <2>1 DEF CounterCountsOpens
    <2>3. id \in DOMAIN sessions => sessions[id] \in closedSess'
      BY <1>2 DEF EndGet
    <2> QED BY <1>2, <2>2, <2>3 DEF EndGet, Opens
  <1>3. CASE EndRemove
    BY <1>3 DEF EndRemove
  <1>4. ASSUME NEW id \in Range(idOf), NewRemove(id) PROVE EndingClosed'
    BY <1>4 DEF NewRemove
  <1>5. ASSUME NEW c \in Callers, CloseLocked(c) PROVE EndingClosed'
    BY <1>5 DEF CloseLocked, Opens
  <1>6. CASE UNCHANGED <<ending, sessions, closedSess, idOf>>
    BY <1>6 DEF Opens
  <1>7. \/ \E c \in Callers : AllocateLocked(c) \/ CloseLocked(c)
        \/ \E id \in Range(idOf) : EndGet(id) \/ NewRemove(id)
        \/ EndRemove
        \/ UNCHANGED <<ending, sessions, closedSess, idOf>>
    BY DEF Next, Monitor, vars, AllocateCheck, AllocateFull, CloseSwap, ReadLoopEnds, MonitorDone,
           MonitorSize, MonitorCount, MonitorCheck, MonitorBusy, MonitorClose
  <1> QED BY <1>1, <1>2, <1>3, <1>4, <1>5, <1>6, <1>7

(* The inductive invariant holds in every reachable state.                 *)
LEMMA IndInvariant == Spec => []IndInv
  <1>1. IndInv /\ [Next]_vars => IndInv'
    <2> SUFFICES ASSUME IndInv, [Next]_vars PROVE IndInv'
      OBVIOUS
    <2>1. TypeOK'
      BY TypeStep DEF IndInv
    <2> QED BY <2>1, TablePartStep, PendingStep, SampleStep, EndingStep DEF IndInv
  <1> QED BY <1>1, IndInvInit, PTL DEF Spec

(* max_concurrency bounds the table whatever the interleaving of the       *)
(* tasks inside allocate().                                                *)
THEOREM ConcurrencyBounded == Spec => []ConcurrencyBound
  <1>1. IndInv => ConcurrencyBound
    BY DEF IndInv
  <1> QED BY <1>1, IndInvariant, PTL

(* A max_connection below 2^W bounds the sessions opened on a connection   *)
(* and keeps their ids distinct.                                           *)
THEOREM ConnectionsBounded == Spec => [](ConnectionBound /\ IdsUnique)
  <1>1. IndInv => ConnectionBound /\ IdsUnique
    <2> SUFFICES ASSUME IndInv PROVE ConnectionBound /\ IdsUnique
      OBVIOUS
    <2>1. ConnectionBound /\ CounterCountsOpens /\ Opens \in Nat
      BY DEF IndInv, TypeOK, Opens
    <2> QED BY <2>1, MuxConstants DEF ConnectionBound, IdsUnique, CounterCountsOpens
  <1> QED BY <1>1, IndInvariant, PTL

(* Closing the table admits at most one more session per task.             *)
THEOREM LateOpens == Spec => []LateOpensBounded
  <1>1. IndInv => LateOpensBounded
    <2> SUFFICES ASSUME IndInv, closed PROVE Opens <= hist.closedAt + Cardinality(Callers)
      BY DEF LateOpensBounded
    <2>1. Opens \in Nat /\ hist.closedAt \in Nat
      BY DEF IndInv, TypeOK, Opens
    <2> QED BY <2>1, AllocatingSize DEF IndInv, PendingBounded
  <1> QED BY <1>1, IndInvariant, PTL

(* The monitor closes only an empty table to which nothing was added since *)
(* it sampled the counter.                                                 *)
THEOREM IdleCloseIsSound == Spec => IdleCloseSound
  <1>1. IndInv /\ [Next]_vars =>
          (mon.pc = "locked" /\ mon'.pc = "stopped" /\ Opens < IdSpace =>
             DOMAIN sessions = {} /\ Opens = hist.sampled)
    <2> SUFFICES ASSUME IndInv, [Next]_vars,
                        mon.pc = "locked", mon'.pc = "stopped", Opens < IdSpace
                 PROVE  DOMAIN sessions = {} /\ Opens = hist.sampled
      OBVIOUS
    <2>1. MonitorClose
      BY DEF IndInv, TypeOK, Next, Monitor, vars, AllocateCheck, AllocateFull, AllocateLocked,
             CloseSwap, CloseLocked, EndGet, NewRemove, EndRemove, ReadLoopEnds,
             MonitorDone, MonitorSize, MonitorCount, MonitorCheck, MonitorBusy
    <2>2. IdleCondition
      BY <2>1 DEF MonitorClose
    <2> QED BY <2>2 DEF IdleCondition, IndInv, SampleExact, CounterCountsOpens
  <1> QED BY <1>1, IndInvariant, PTL DEF Spec, IdleCloseSound

(* The read loop removes the session it closed and no other.               *)
THEOREM EndRemovalIsSound == Spec => EndRemovesWhatItClosed
  <1>1. IndInv /\ [Next]_vars =>
          (ending # NoId /\ ending' = NoId /\ Opens < IdSpace =>
             \A i \in DOMAIN sessions \ DOMAIN sessions' : sessions[i] \in closedSess)
    <2> SUFFICES ASSUME IndInv, [Next]_vars, ending # NoId, ending' = NoId, Opens < IdSpace,
                        NEW i \in DOMAIN sessions \ DOMAIN sessions'
                 PROVE  sessions[i] \in closedSess
      OBVIOUS
    <2>1. EndRemove
      BY StepKinds DEF TableUnchanged, AllocateLocked, NewRemove
    <2>2. i = ending
      BY <2>1 DEF EndRemove, Remove, Restrict
    <2> QED BY <2>2 DEF IndInv, EndingClosed
  <1> QED BY <1>1, IndInvariant, PTL DEF Spec, EndRemovesWhatItClosed

(* An id is reused for a live session only after 2^W allocations.          *)
THEOREM OverwriteIsOld == Spec => OverwriteNeedsWrap
  <1>1. IndInv /\ [Next]_vars =>
          \A i \in DOMAIN sessions \cap DOMAIN sessions' :
             sessions'[i] # sessions[i] => sessions'[i] - sessions[i] >= IdSpace
    <2> SUFFICES ASSUME IndInv, [Next]_vars, NEW i \in DOMAIN sessions \cap DOMAIN sessions',
                        sessions'[i] # sessions[i]
                 PROVE  sessions'[i] - sessions[i] >= IdSpace
      OBVIOUS
    <2>1. PICK c \in Callers : AllocateLocked(c)
      BY StepKinds DEF NewRemove, EndRemove, TableUnchanged, Remove, Restrict
    <2>2. i = next_id' /\ sessions'[i] = Opens + 1
      BY <2>1 DEF AllocateLocked, Insert
    <2>3. sessions[i] \in 1 .. Opens /\ idOf[sessions[i]] = i
      BY DEF IndInv, TypeOK, TableNamesItsObjects
    <2>4. WindowIds' /\ TypeOK /\ TypeOK'
      BY TablePartStep, TypeStep DEF IndInv
    <2>5. Opens' = Opens + 1 /\ Opens \in Nat /\ idOf'[sessions[i]] = i
      BY <2>1, <2>3, <2>4, AllocateEffect
    <2>6. next_id' \in Nat /\ next_id' < IdSpace
      BY <2>4, MuxConstants DEF TypeOK, Ids
    <2> QED BY <2>2, <2>3, <2>4, <2>5, <2>6, MuxConstants DEF WindowIds
  <1> QED BY <1>1, IndInvariant, PTL DEF Spec, OverwriteNeedsWrap
=============================================================================
