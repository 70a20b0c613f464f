--------------------------- MODULE MemLock_proofs ---------------------------
(***************************************************************************)
(* Proofs about MemLock, for any sets of guards, users and keys and        *)
(* vectors of any length.                                                  *)
(***************************************************************************)
EXTENDS MemLock, TLAPS

\* The part of a guard's batch that is in the map on its behalf: the keys
\* between its two iterators.
Span(g) == begin[g] .. curr[g] - 1

\* Where the iterators are in each state of a guard.
IteratorsAgree ==
    \A g \in Guards :
        /\ state[g] \in {"none", "failed"} => begin[g] = curr[g]
        /\ state[g] \in {"none", "locking", "locked"} => begin[g] = 1
        /\ state[g] = "locked" => curr[g] = Len(keys[g]) + 1

\* A guard is the holder of the keys of its span.
SpanIsHeld == \A g \in Guards : \A i \in Span(g) : holder[keys[g][i]] = g

\* The span names no key twice, so that taking back one of its keys does not
\* take away another.
SpanIsDistinct ==
    \A g \in Guards : \A i, j \in Span(g) : i # j => keys[g][i] # keys[g][j]

LockInv ==
    /\ IteratorsAgree
    /\ SpanIsHeld
    /\ SpanIsDistinct
    /\ NothingIsLeaked
    /\ ConflictIsForeign

IInv == TypeOK /\ LockInv

\* Sorting a vector and making it unique keeps its length and its keys.
LEMMA BatchType ==
    ASSUME NEW list \in Seq(Keys), NEW s \in Sorted(list), NEW u \in Uniqued(s)
    PROVE  s \in Seq(Keys) /\ u \in Seq(Keys)
<1>1. \A l \in Seq(Keys) : \A t \in [DOMAIN l -> KeysOf(l)] : t \in Seq(Keys)
  BY DEF KeysOf
<1>2. s \in Seq(Keys)
  BY <1>1 DEF Sorted
<1>3. u \in Seq(Keys)
  BY <1>1, <1>2 DEF Uniqued
<1> QED
  BY <1>2, <1>3

\* Every step keeps the types.
LEMMA TypeStep ==
    ASSUME TypeOK, LockInv, [Next]_vars
    PROVE  TypeOK'
<1> USE LockAssumption DEF TypeOK, guardVars, Holders
<1>1. CASE UNCHANGED vars
  BY <1>1 DEF vars
<1>2. ASSUME NEW u \in Users, NEW k \in Keys, TryLock(u, k) PROVE TypeOK'
  BY <1>2 DEF TryLock, Inserted
<1>3. ASSUME NEW u \in Users, NEW k \in Keys, Unlock(u, k) PROVE TypeOK'
  BY <1>3 DEF Unlock
<1>4. ASSUME NEW g \in Guards, Construct(g) PROVE TypeOK'
  <2>1. PICK list \in KeyLists, d \in BOOLEAN :
            /\ IF d
               THEN \E s \in Sorted(list) : \E u \in Uniqued(s) : keys' = [keys EXCEPT ![g] = u]
               ELSE keys' = [keys EXCEPT ![g] = list]
            /\ dedup' = [dedup EXCEPT ![g] = d]
    BY <1>4 DEF Construct
  <2>2. list \in Seq(Keys)
    OBVIOUS
  <2>3. PICK batch \in Seq(Keys) : keys' = [keys EXCEPT ![g] = batch]
    <3>1. CASE d
      BY <2>1, <2>2, <3>1, BatchType
    <3>2. CASE ~d
      BY <2>1, <2>2, <3>2
    <3> QED
      BY <3>1, <3>2
  <2>4. curr[g] = 1 /\ begin[g] = 1
    BY <1>4 DEF Construct, LockInv, IteratorsAgree
  <2> QED
    BY <1>4, <2>1, <2>3, <2>4 DEF Construct
<1>5. ASSUME NEW g \in Guards, Insert(g) PROVE TypeOK'
  BY <1>5 DEF Insert, Inserted, Current
<1>6. ASSUME NEW g \in Guards, Conflict(g) PROVE TypeOK'
  BY <1>6 DEF Conflict, Inserted, Current
<1>7. ASSUME NEW g \in Guards, Locked(g) PROVE TypeOK'
  BY <1>7 DEF Locked
<1>8. ASSUME NEW g \in Guards, Erase(g) PROVE TypeOK'
  BY <1>8 DEF Erase
<1>9. ASSUME NEW g \in Guards, RolledBack(g) PROVE TypeOK'
  BY <1>9 DEF RolledBack
<1>10. ASSUME NEW g \in Guards, Unlocking(g) PROVE TypeOK'
  BY <1>10 DEF Unlocking
<1>11. ASSUME NEW g \in Guards, Destruct(g) PROVE TypeOK'
  BY <1>11 DEF Destruct
<1> QED
  BY <1>1, <1>2, <1>3, <1>4, <1>5, <1>6, <1>7, <1>8, <1>9, <1>10, <1>11
     DEF Next, Guard

\* The keys of a span are keys, and its indexes are those of the vector.
LEMMA SpanType ==
    ASSUME TypeOK, NEW g \in Guards, NEW i \in Span(g)
    PROVE  i \in 1 .. Len(keys[g]) /\ keys[g][i] \in Keys
<1>1. begin[g] \in Nat \ {0} /\ curr[g] \in Nat /\ curr[g] <= Len(keys[g]) + 1
      /\ keys[g] \in Seq(Keys)
  BY DEF TypeOK
<1>2. i \in 1 .. Len(keys[g])
  BY <1>1 DEF Span
<1> QED
  BY <1>1, <1>2

\* A round of lockBatch() adds a key that is in no span.
LEMMA InsertStep ==
    ASSUME TypeOK, LockInv, NEW g \in Guards, Insert(g)
    PROVE  LockInv'
<1> DEFINE k == keys[g][curr[g]]
<1>1. /\ state[g] = "locking" /\ k \in Keys
      /\ holder[k] = Nobody /\ holder' = [holder EXCEPT ![k] = g]
      /\ curr' = [curr EXCEPT ![g] = curr[g] + 1]
      /\ UNCHANGED <<state, keys, begin, foreign>>
  BY DEF Insert, Inserted, Current, TypeOK
<1>2. /\ holder'[k] = g
      /\ \A x \in Keys \ {k} : holder'[x] = holder[x]
  BY <1>1 DEF TypeOK
<1>3. \A h \in Guards : \A i \in Span(h) : keys[h][i] # k
  <2> SUFFICES ASSUME NEW h \in Guards, NEW i \in Span(h)
               PROVE  keys[h][i] # k
    OBVIOUS
  <2>1. holder[keys[h][i]] = h
    BY DEF LockInv, SpanIsHeld
  <2> QED
    BY <1>1, <2>1, LockAssumption
<1>4. \A h \in Guards : \A i \in Span(h)' : i \in Span(h) \/ (h = g /\ i = curr[g])
  BY <1>1 DEF Span, TypeOK
<1>5. \A i \in Span(g)' : i = curr[g] => keys[g][i] = k
  OBVIOUS
<1> HIDE DEF k
<1>6. IteratorsAgree'
  BY <1>1 DEF LockInv, IteratorsAgree, TypeOK
<1>7. SpanIsHeld'
  <2> SUFFICES ASSUME NEW h \in Guards, NEW i \in Span(h)'
               PROVE  holder'[keys[h][i]] = h
    BY <1>1 DEF SpanIsHeld
  <2>1. CASE i \in Span(h)
    <3>1. keys[h][i] \in Keys \ {k}
      BY <1>3, <2>1, SpanType
    <3>2. holder[keys[h][i]] = h
      BY <2>1 DEF LockInv, SpanIsHeld
    <3> QED
      BY <1>2, <3>1, <3>2
  <2>2. CASE h = g /\ i = curr[g]
    BY <1>2, <1>5, <2>2
  <2> QED
    BY <1>4, <2>1, <2>2
<1>8. SpanIsDistinct'
  <2> SUFFICES ASSUME NEW h \in Guards, NEW i \in Span(h)', NEW j \in Span(h)', i # j
               PROVE  keys[h][i] # keys[h][j]
    BY <1>1 DEF SpanIsDistinct
  <2>1. CASE i \in Span(h) /\ j \in Span(h)
    BY <2>1 DEF LockInv, SpanIsDistinct
  <2>2. CASE i \in Span(h) /\ h = g /\ j = curr[g]
    BY <1>3, <1>5, <2>2
  <2>3. CASE j \in Span(h) /\ h = g /\ i = curr[g]
    BY <1>3, <1>5, <2>3
  <2> QED
    BY <1>4, <2>1, <2>2, <2>3
<1>9. NothingIsLeaked'
  <2> SUFFICES ASSUME NEW h \in Guards, NEW x \in Keys, holder'[x] = h
               PROVE  /\ state[h] \notin {"none", "failed"}
                      /\ \E i \in Span(h)' : keys[h][i] = x
    BY <1>1 DEF NothingIsLeaked, Span
  <2>1. CASE x = k
    <3>1. h = g /\ curr[g] \in Span(g)'
      BY <1>1, <1>2, <2>1 DEF Span, TypeOK
    <3> QED
      BY <1>1, <1>5, <2>1, <3>1
  <2>2. CASE x # k
    <3>1. holder[x] = h
      BY <1>2, <2>2
    <3>2. /\ state[h] \notin {"none", "failed"}
          /\ \E i \in Span(h) : keys[h][i] = x
      BY <3>1 DEF LockInv, NothingIsLeaked, Span
    <3>3. \A i \in Span(h) : i \in Span(h)'
      BY <1>1 DEF Span, TypeOK
    <3> QED
      BY <3>2, <3>3
  <2> QED
    BY <2>1, <2>2
<1>10. ConflictIsForeign'
  BY <1>1 DEF LockInv, ConflictIsForeign, HasDuplicate
<1> QED
  BY <1>6, <1>7, <1>8, <1>9, <1>10 DEF LockInv

\* A round of unlockBatch() takes a key away, and it is the guard's own.
LEMMA EraseStep ==
    ASSUME TypeOK, LockInv, NEW g \in Guards, Erase(g)
    PROVE  LockInv'
<1> DEFINE k == keys[g][begin[g]]
<1>1. /\ state[g] \in {"rollback", "unlocking"} /\ begin[g] < curr[g]
      /\ holder' = [holder EXCEPT ![k] = Nobody]
      /\ begin' = [begin EXCEPT ![g] = begin[g] + 1]
      /\ UNCHANGED <<state, keys, curr, foreign>>
  BY DEF Erase
<1>2. begin[g] \in Span(g) /\ begin[g] \notin Span(g)'
  BY <1>1 DEF Span, TypeOK
<1>3. k \in Keys /\ holder[k] = g
  BY <1>2, SpanType DEF LockInv, SpanIsHeld
<1>4. /\ holder'[k] = Nobody
      /\ \A x \in Keys \ {k} : holder'[x] = holder[x]
  BY <1>1, <1>3 DEF TypeOK
<1>5. \A h \in Guards : \A i \in Span(h)' : i \in Span(h)
  BY <1>1 DEF Span, TypeOK
<1>6. \A h \in Guards : \A i \in Span(h)' : keys[h][i] # k
  <2> SUFFICES ASSUME NEW h \in Guards, NEW i \in Span(h)'
               PROVE  keys[h][i] # k
    OBVIOUS
  <2>1. CASE h = g
    BY <1>2, <1>5, <2>1 DEF LockInv, SpanIsDistinct
  <2>2. CASE h # g
    <3>1. holder[keys[h][i]] = h
      BY <1>5 DEF LockInv, SpanIsHeld
    <3> QED
      BY <1>3, <2>2, <3>1
  <2> QED
    BY <2>1, <2>2
<1>7. \A i \in Span(g) : keys[g][i] # k => i \in Span(g)'
  BY <1>1 DEF Span, TypeOK
<1> HIDE DEF k
<1>8. IteratorsAgree'
  BY <1>1 DEF LockInv, IteratorsAgree, TypeOK
<1>9. SpanIsHeld'
  <2> SUFFICES ASSUME NEW h \in Guards, NEW i \in Span(h)'
               PROVE  holder'[keys[h][i]] = h
    BY <1>1 DEF SpanIsHeld
  <2>1. keys[h][i] \in Keys \ {k}
    BY <1>5, <1>6, SpanType
  <2>2. holder[keys[h][i]] = h
    BY <1>5 DEF LockInv, SpanIsHeld
  <2> QED
    BY <1>4, <2>1, <2>2
<1>10. SpanIsDistinct'
  <2> SUFFICES ASSUME NEW h \in Guards, NEW i \in Span(h)', NEW j \in Span(h)', i # j
               PROVE  keys[h][i] # keys[h][j]
    BY <1>1 DEF SpanIsDistinct
  <2> QED
    BY <1>5 DEF LockInv, SpanIsDistinct
<1>11. NothingIsLeaked'
  <2> SUFFICES ASSUME NEW h \in Guards, NEW x \in Keys, holder'[x] = h
               PROVE  /\ state[h] \notin {"none", "failed"}
                      /\ \E i \in Span(h)' : keys[h][i] = x
    BY <1>1 DEF NothingIsLeaked, Span
  <2>1. x # k /\ holder[x] = h
    BY <1>4, LockAssumption
  <2>2. PICK i \in Span(h) : keys[h][i] = x
    BY <2>1 DEF LockInv, NothingIsLeaked, Span
  <2>3. i \in Span(h)'
    <3>1. CASE h = g
      BY <1>7, <2>1, <2>2, <3>1
    <3>2. CASE h # g
      BY <1>1, <2>2, <3>2 DEF Span, TypeOK
    <3> QED
      BY <3>1, <3>2
  <2>4. state[h] \notin {"none", "failed"}
    BY <2>1 DEF LockInv, NothingIsLeaked
  <2> QED
    BY <2>2, <2>3, <2>4
<1>12. ConflictIsForeign'
  BY <1>1 DEF LockInv, ConflictIsForeign, HasDuplicate
<1> QED
  BY <1>8, <1>9, <1>10, <1>11, <1>12 DEF LockInv

\* A constructor starts with nothing of its batch in the map.
LEMMA ConstructStep ==
    ASSUME TypeOK, LockInv, NEW g \in Guards, Construct(g)
    PROVE  LockInv'
<1>1. /\ state[g] = "none" /\ state' = [state EXCEPT ![g] = "locking"]
      /\ UNCHANGED <<holder, curr, begin, foreign>>
  BY DEF Construct
<1>2. PICK batch : keys' = [keys EXCEPT ![g] = batch]
  BY DEF Construct
<1>3. \A h \in Guards \ {g} : keys'[h] = keys[h] /\ state'[h] = state[h]
  BY <1>1, <1>2 DEF TypeOK
<1>4. state'[g] = "locking" /\ begin[g] = 1 /\ curr[g] = 1
  BY <1>1 DEF TypeOK, LockInv, IteratorsAgree
<1>5. Span(g) = {} /\ \A h \in Guards : Span(h)' = Span(h)
  BY <1>1, <1>4 DEF Span
<1>6. IteratorsAgree'
  BY <1>1, <1>3, <1>4 DEF LockInv, IteratorsAgree
<1>7. SpanIsHeld'
  BY <1>1, <1>3, <1>5 DEF LockInv, SpanIsHeld
<1>8. SpanIsDistinct'
  BY <1>3, <1>5 DEF LockInv, SpanIsDistinct
<1>9. NothingIsLeaked'
  <2> SUFFICES ASSUME NEW h \in Guards, NEW x \in Keys, holder[x] = h
               PROVE  /\ state'[h] \notin {"none", "failed"}
                      /\ \E i \in Span(h)' : keys'[h][i] = x
    BY <1>1 DEF NothingIsLeaked, Span
  <2>1. /\ state[h] \notin {"none", "failed"}
        /\ \E i \in Span(h) : keys[h][i] = x
    BY DEF LockInv, NothingIsLeaked, Span
  <2> QED
    BY <1>1, <1>3, <1>5, <2>1
<1>10. ConflictIsForeign'
  BY <1>1, <1>3, <1>4 DEF LockInv, ConflictIsForeign, HasDuplicate
<1> QED
  BY <1>6, <1>7, <1>8, <1>9, <1>10 DEF LockInv

\* If lockBatch() meets a key of the guard itself, the batch names it twice.
LEMMA ConflictStep ==
    ASSUME TypeOK, LockInv, NEW g \in Guards, Conflict(g)
    PROVE  LockInv'
<1>1. /\ state[g] = "locking" /\ curr[g] <= Len(keys[g])
      /\ foreign' = [foreign EXCEPT ![g] = holder[Current(g)] # g]
      /\ state' = [state EXCEPT ![g] = "rollback"]
      /\ UNCHANGED <<holder, keys, curr, begin>>
  BY DEF Conflict
<1>2. /\ state'[g] = "rollback" /\ foreign'[g] = (holder[Current(g)] # g)
      /\ \A h \in Guards \ {g} : state'[h] = state[h] /\ foreign'[h] = foreign[h]
  BY <1>1 DEF TypeOK
<1>3. ~HasDuplicate(keys[g]) => holder[Current(g)] # g
  <2> SUFFICES ASSUME holder[Current(g)] = g
               PROVE  HasDuplicate(keys[g])
    OBVIOUS
  <2>1. curr[g] \in 1 .. Len(keys[g]) /\ keys[g] \in Seq(Keys)
    BY <1>1 DEF TypeOK
  <2>2. Current(g) \in Keys
    BY <2>1 DEF Current
  <2>3. PICK i \in Span(g) : keys[g][i] = Current(g)
    BY <2>2 DEF LockInv, NothingIsLeaked, Span
  <2>4. i \in 1 .. Len(keys[g])
    BY <2>3, SpanType
  <2>5. i # curr[g]
    BY <2>1 DEF Span, TypeOK
  <2> QED
    BY <2>1, <2>3, <2>4, <2>5 DEF HasDuplicate, Current
<1>4. IteratorsAgree'
  BY <1>1, <1>2 DEF LockInv, IteratorsAgree
<1>5. SpanIsHeld' /\ SpanIsDistinct'
  BY <1>1 DEF LockInv, SpanIsHeld, SpanIsDistinct, Span
<1>6. NothingIsLeaked'
  BY <1>1, <1>2 DEF LockInv, NothingIsLeaked
<1>7. ConflictIsForeign'
  <2> SUFFICES ASSUME NEW h \in Guards, state'[h] \in {"rollback", "failed"},
                      ~HasDuplicate(keys[h])
               PROVE  foreign'[h]
    BY <1>1 DEF ConflictIsForeign, HasDuplicate
  <2>1. CASE h = g
    BY <1>2, <1>3, <2>1
  <2>2. CASE h # g
    BY <1>2, <2>2 DEF LockInv, ConflictIsForeign
  <2> QED
    BY <2>1, <2>2
<1> QED
  BY <1>4, <1>5, <1>6, <1>7 DEF LockInv

\* Every step keeps the map and the guards in agreement.
LEMMA LockStep ==
    ASSUME TypeOK, LockInv, [Next]_vars
    PROVE  LockInv'
<1> USE LockAssumption DEF TypeOK, LockInv, IteratorsAgree, SpanIsHeld, SpanIsDistinct,
           Span, NothingIsLeaked, ConflictIsForeign, HasDuplicate, guardVars, Holders
<1>1. CASE UNCHANGED vars
  BY <1>1 DEF vars
<1>2. ASSUME NEW u \in Users, NEW k \in Keys, TryLock(u, k) PROVE LockInv'
  BY <1>2 DEF TryLock, Inserted
<1>3. ASSUME NEW u \in Users, NEW k \in Keys, Unlock(u, k) PROVE LockInv'
  BY <1>3 DEF Unlock
<1>4. ASSUME NEW g \in Guards, Construct(g) PROVE LockInv'
  BY <1>4, ConstructStep
<1>5. ASSUME NEW g \in Guards, Insert(g) PROVE LockInv'
  BY <1>5, InsertStep
<1>6. ASSUME NEW g \in Guards, Conflict(g) PROVE LockInv'
  BY <1>6, ConflictStep
<1>7. ASSUME NEW g \in Guards, Locked(g) PROVE LockInv'
  BY <1>7 DEF Locked
<1>8. ASSUME NEW g \in Guards, Erase(g) PROVE LockInv'
  BY <1>8, EraseStep
<1>9. ASSUME NEW g \in Guards, RolledBack(g) PROVE LockInv'
  BY <1>9 DEF RolledBack
<1>10. ASSUME NEW g \in Guards, Unlocking(g) PROVE LockInv'
  BY <1>10 DEF Unlocking
<1>11. ASSUME NEW g \in Guards, Destruct(g) PROVE LockInv'
  BY <1>11 DEF Destruct
<1> QED
  BY <1>1, <1>2, <1>3, <1>4, <1>5, <1>6, <1>7, <1>8, <1>9, <1>10, <1>11
     DEF Next, Guard

-----------------------------------------------------------------------------

\* An empty table with no guard satisfies the invariant.
LEMMA InitInv == Init => IInv
<1> SUFFICES ASSUME Init PROVE TypeOK /\ LockInv
  BY DEF IInv
<1> USE LockAssumption DEF Init
<1>1. TypeOK
  BY DEF TypeOK
<1>2. \A g \in Guards : Span(g) = {}
  BY DEF Span
<1>3. NothingIsLeaked
  BY DEF NothingIsLeaked, Holders
<1>4. ConflictIsForeign
  BY DEF ConflictIsForeign
<1> QED
  BY <1>1, <1>2, <1>3, <1>4 DEF LockInv, IteratorsAgree, SpanIsHeld, SpanIsDistinct

\* The invariant: every execution keeps the types and the agreement between
\* the map and the guards' iterators.
THEOREM Invariance == Spec => []IInv
<1>1. IInv /\ [Next]_vars => IInv'
  BY TypeStep, LockStep DEF IInv
<1> QED
  BY <1>1, InitInv, PTL DEF Spec

\* The variables keep their types, and no iterator leaves its vector.
THEOREM TypeCorrect == Spec => []TypeOK
<1>1. IInv => TypeOK
  BY DEF IInv
<1> QED
  BY <1>1, Invariance, PTL

\* The keys of a guard whose iterator has reached the end are all its own.
LEMMA WholeSpan ==
    ASSUME IInv, NEW g \in Guards, begin[g] = 1, curr[g] = Len(keys[g]) + 1,
           NEW k \in KeysOf(keys[g])
    PROVE  k \in Keys /\ holder[k] = g
<1>1. PICK i \in 1 .. Len(keys[g]) : keys[g][i] = k
  BY DEF KeysOf, IInv, TypeOK
<1>2. i \in Span(g)
  BY DEF Span, IInv, TypeOK
<1> QED
  BY <1>1, <1>2, SpanType DEF IInv, LockInv, SpanIsHeld

\* A guard that isLocked() holds each key of its batch.
THEOREM LockedHolds == Spec => []LockedGuardHoldsItsKeys
<1>1. IInv => LockedGuardHoldsItsKeys
  <2> SUFFICES ASSUME IInv, NEW g \in Guards, state[g] = "locked", NEW k \in KeysOf(keys[g])
               PROVE  holder[k] = g
    BY DEF LockedGuardHoldsItsKeys
  <2> QED
    BY WholeSpan DEF IInv, LockInv, IteratorsAgree
<1> QED
  BY <1>1, Invariance, PTL

\* A batch is all or nothing: nothing of a guard that failed or is gone is left
\* in the map.
THEOREM NothingLeaks == Spec => []NothingIsLeaked
<1>1. IInv => NothingIsLeaked
  BY DEF IInv, LockInv
<1> QED
  BY <1>1, Invariance, PTL

\* A batch without duplicates fails only over a key of somebody else.
THEOREM ForeignConflict == Spec => []ConflictIsForeign
<1>1. IInv => ConflictIsForeign
  BY DEF IInv, LockInv
<1> QED
  BY <1>1, Invariance, PTL

-----------------------------------------------------------------------------
(* The refinement of KeyLocks.                                             *)

\* What each holder has, for those who look from outside.
Held == [h \in Holders |->
            IF h \in Users THEN {k \in Keys : holder[k] = h}
            ELSE IF state[h] = "locked" THEN KeysOf(keys[h])
            ELSE {}]

\* A holder has only keys the map says it inserted.
LEMMA HeldIsInserted ==
    ASSUME IInv, NEW h \in Holders, NEW k \in Held[h]
    PROVE  k \in Keys /\ holder[k] = h
<1>1. CASE h \in Users
  BY <1>1 DEF Held
<1>2. CASE h \notin Users
  <2>1. h \in Guards /\ state[h] = "locked" /\ k \in KeysOf(keys[h])
    BY <1>2 DEF Held, Holders
  <2> QED
    BY <2>1, WholeSpan DEF IInv, LockInv, IteratorsAgree
<1> QED
  BY <1>1, <1>2

\* A step that changes neither a user's keys nor who is locked with what is
\* invisible from outside.
LEMMA Unseen ==
    ASSUME \A u \in Users, k \in Keys : (holder[k] = u) <=> (holder'[k] = u),
           \A g \in Guards : /\ (state[g] = "locked") <=> (state'[g] = "locked")
                             /\ state[g] = "locked" => keys'[g] = keys[g]
    PROVE  Held' = Held
<1>1. \A h \in Users : {k \in Keys : holder[k] = h} = {k \in Keys : holder'[k] = h}
  OBVIOUS
<1>2. \A h \in Holders \ Users : h \in Guards
  BY DEF Holders
<1> QED
  BY <1>1, <1>2 DEF Held

\* Every step takes or gives back a batch at once in the abstract table, or is not seen there.
LEMMA StepRefines ==
    ASSUME IInv, [Next]_vars
    PROVE  [Table!Next]_Held
<1> USE LockAssumption
<1>t. TypeOK
  BY DEF IInv
<1>d. \A g \in Guards : g \in Holders /\ g \notin Users
  BY DEF Holders
<1>1. CASE UNCHANGED vars
  BY <1>1, Unseen DEF vars, guardVars
<1>2. ASSUME NEW u \in Users, NEW k \in Keys, TryLock(u, k) PROVE Table!Next
  <2>1. holder[k] = Nobody /\ holder' = [holder EXCEPT ![k] = u]
        /\ UNCHANGED guardVars
    BY <1>2 DEF TryLock, Inserted
  <2>2. u \in Holders
    BY DEF Holders
  <2>3. \A other \in Holders \ {u} : Held[other] \cap {k} = {}
    BY <2>1, HeldIsInserted DEF Holders
  <2>4. Held'[u] = Held[u] \cup {k}
    BY <1>t, <2>1, <2>2 DEF Held, TypeOK
  <2>5. \A h \in Users \ {u} : Held'[h] = Held[h]
    BY <1>t, <2>1, <2>2 DEF Held, TypeOK, Holders
  <2>6. \A h \in Holders \ Users : Held'[h] = Held[h]
    BY <2>1 DEF Held, guardVars
  <2>7. Held' = [Held EXCEPT ![u] = @ \cup {k}]
    BY <2>2, <2>4, <2>5, <2>6 DEF Held
  <2>8. Table!Take(u, {k})
    BY <2>3, <2>7 DEF Table!Take, Held
  <2> QED
    BY <2>2, <2>8 DEF Table!Next
<1>3. ASSUME NEW u \in Users, NEW k \in Keys, Unlock(u, k) PROVE Table!Next
  <2>1. holder[k] = u /\ holder' = [holder EXCEPT ![k] = Nobody]
        /\ UNCHANGED guardVars
    BY <1>3 DEF Unlock
  <2>2. u \in Holders
    BY DEF Holders
  <2>3. {k} \subseteq Held[u]
    BY <2>1, <2>2 DEF Held
  <2>4. Held'[u] = Held[u] \ {k}
    BY <1>t, <2>1, <2>2 DEF Held, TypeOK
  <2>5. \A h \in Users \ {u} : Held'[h] = Held[h]
    BY <1>t, <2>1, <2>2 DEF Held, TypeOK, Holders
  <2>6. \A h \in Holders \ Users : Held'[h] = Held[h]
    BY <2>1 DEF Held, guardVars
  <2>7. Held' = [Held EXCEPT ![u] = @ \ {k}]
    BY <2>2, <2>4, <2>5, <2>6 DEF Held
  <2>8. Table!Give(u, {k})
    BY <2>3, <2>7 DEF Table!Give, Held
  <2> QED
    BY <2>2, <2>8 DEF Table!Next
<1>4. ASSUME NEW g \in Guards, Construct(g) PROVE Held' = Held
  <2>1. state[g] = "none" /\ state' = [state EXCEPT ![g] = "locking"] /\ holder' = holder
    BY <1>4 DEF Construct
  <2>2. PICK batch : keys' = [keys EXCEPT ![g] = batch]
    BY <1>4 DEF Construct
  <2> QED
    BY <1>t, <2>1, <2>2, Unseen DEF TypeOK
<1>5. ASSUME NEW g \in Guards, Insert(g) PROVE Held' = Held
  <2>1. /\ Current(g) \in Keys /\ holder[Current(g)] = Nobody
        /\ holder' = [holder EXCEPT ![Current(g)] = g]
        /\ UNCHANGED <<state, keys>>
    BY <1>t, <1>5 DEF Insert, Inserted, Current, TypeOK
  <2>2. \A u \in Users, k \in Keys : (holder[k] = u) <=> (holder'[k] = u)
    BY <1>t, <1>d, <2>1 DEF TypeOK, Holders
  <2> QED
    BY <2>1, <2>2, Unseen
<1>6. ASSUME NEW g \in Guards, Conflict(g) PROVE Held' = Held
  BY <1>t, <1>6, Unseen DEF Conflict, TypeOK
<1>7. ASSUME NEW g \in Guards, Locked(g) PROVE Table!Next
  <2>0. PICK own : own = KeysOf(keys[g])
    OBVIOUS
  <2>1. /\ state[g] = "locking" /\ state' = [state EXCEPT ![g] = "locked"]
        /\ UNCHANGED <<holder, keys>>
    BY <1>7 DEF Locked
  <2>2. begin[g] = 1 /\ curr[g] = Len(keys[g]) + 1
    BY <1>t, <1>7 DEF Locked, IInv, LockInv, IteratorsAgree, TypeOK
  <2>3. \A k \in own : k \in Keys /\ holder[k] = g
    BY <2>0, <2>2, WholeSpan
  <2>4. \A other \in Holders \ {g} : Held[other] \cap own = {}
    BY <2>3, HeldIsInserted
  <2>5. Held[g] = {} /\ Held'[g] = own
    BY <1>t, <1>d, <2>0, <2>1 DEF Held, TypeOK
  <2>6. \A h \in Holders \ {g} : Held'[h] = Held[h]
    BY <1>t, <2>1 DEF Held, TypeOK, Holders
  <2>7. Held' = [Held EXCEPT ![g] = @ \cup own]
    BY <1>d, <2>5, <2>6 DEF Held
  <2>8. Table!Take(g, own)
    BY <2>4, <2>7 DEF Table!Take, Held
  <2>9. g \in Holders /\ own \in SUBSET Keys
    BY <1>d, <2>3
  <2> QED
    BY <2>8, <2>9 DEF Table!Next
<1>8. ASSUME NEW g \in Guards, Erase(g) PROVE Held' = Held
  <2> DEFINE k == keys[g][begin[g]]
  <2>1. /\ begin[g] \in Span(g) /\ holder' = [holder EXCEPT ![k] = Nobody]
        /\ UNCHANGED <<state, keys>>
    BY <1>t, <1>8 DEF Erase, Span, TypeOK
  <2>2. k \in Keys /\ holder[k] = g
    BY <1>t, <2>1, SpanType DEF IInv, LockInv, SpanIsHeld
  <2>3. \A u \in Users, x \in Keys : (holder[x] = u) <=> (holder'[x] = u)
    BY <1>t, <1>d, <2>1, <2>2 DEF TypeOK, Holders
  <2> QED
    BY <2>1, <2>3, Unseen
<1>9. ASSUME NEW g \in Guards, RolledBack(g) PROVE Held' = Held
  BY <1>t, <1>9, Unseen DEF RolledBack, TypeOK
<1>10. ASSUME NEW g \in Guards, Unlocking(g) PROVE Table!Next
  <2>0. PICK own : own = KeysOf(keys[g])
    OBVIOUS
  <2>1. /\ state[g] = "locked" /\ state' = [state EXCEPT ![g] = "unlocking"]
        /\ UNCHANGED <<holder, keys>>
    BY <1>10 DEF Unlocking
  <2>2. Held[g] = own /\ Held'[g] = {}
    BY <1>t, <1>d, <2>0, <2>1 DEF Held, TypeOK
  <2>3. \A h \in Holders \ {g} : Held'[h] = Held[h]
    BY <1>t, <2>1 DEF Held, TypeOK, Holders
  <2>4. Held' = [Held EXCEPT ![g] = @ \ own]
    BY <1>d, <2>2, <2>3 DEF Held
  <2>5. Table!Give(g, own)
    BY <2>2, <2>4 DEF Table!Give, Held
  <2>6. g \in Holders /\ own \in SUBSET Keys
    BY <1>d, <2>2, HeldIsInserted
  <2> QED
    BY <2>5, <2>6 DEF Table!Next
<1>11. ASSUME NEW g \in Guards, Destruct(g) PROVE Held' = Held
  BY <1>t, <1>11, Unseen DEF Destruct, TypeOK
<1> QED
  BY <1>1, <1>2, <1>3, <1>4, <1>5, <1>6, <1>7, <1>8, <1>9, <1>10, <1>11
     DEF Next, Guard

\* MemLock implements KeyLocks: seen from outside a batch is taken in one step
\* or not at all, and never while somebody has one of its keys.
THEOREM Implementation == Spec => ImplementsKeyLocks
<1>1. Init => Table!Init
  BY LockAssumption DEF Init, Table!Init, Holders
<1>2. IInv /\ [Next]_vars => [Table!Next]_Held
  BY StepRefines
<1> QED
  BY <1>1, <1>2, Invariance, PTL DEF Spec, Table!Spec, Held, ImplementsKeyLocks

\* No key is in the hands of two: a user's and a locked guard's keys, or those
\* of two locked guards, are apart, though the map keeps no owner.
KeysAreExclusive ==
    \A h, other \in Holders : h # other => Held[h] \cap Held[other] = {}

\* lockBatch() and try_lock() exclude one another, key by key.
THEOREM MutualExclusion == Spec => []KeysAreExclusive
<1>1. IInv => KeysAreExclusive
  <2> SUFFICES ASSUME IInv, NEW h \in Holders, NEW other \in Holders,
                      NEW k \in Held[h] \cap Held[other]
               PROVE  h = other
    BY DEF KeysAreExclusive
  <2>1. holder[k] = h
    BY HeldIsInserted
  <2>2. holder[k] = other
    BY HeldIsInserted
  <2> QED
    BY <2>1, <2>2
<1> QED
  BY <1>1, Invariance, PTL

-----------------------------------------------------------------------------
(* How long try_lock of a batch takes.                                     *)

\* A bound on the rounds a guard's constructor still has to make: each key in
\* front of it is inserted and perhaps taken back, or the keys behind it are.
RoundsLeft(g) ==
    CASE state[g] = "locking"  -> 2 * Len(keys[g]) + 3 - curr[g]
      [] state[g] = "rollback" -> curr[g] - begin[g] + 1
      [] OTHER                 -> 0

Trying(g) == state[g] \in {"locking", "rollback"}

\* Where a guard is in its constructor.
Place(g) == <<state[g], keys[g], curr[g], begin[g]>>

\* A constructor begins with a number of rounds that its batch alone bounds, and
\* each round leaves it fewer; what the others do leaves it where it is.
GuardTriesOn(g) ==
    /\ ~Trying(g) /\ Trying(g)' => RoundsLeft(g)' = 2 * Len(keys'[g]) + 2
    /\ Trying(g) => IF Guard(g)
                    THEN 0 <= RoundsLeft(g)' /\ RoundsLeft(g)' < RoundsLeft(g)
                    ELSE UNCHANGED Place(g)

TriesAreBounded == [][\A g \in Guards : GuardTriesOn(g)]_vars

\* A step that is not one of this guard.
LEMMA OtherGuard ==
    ASSUME NEW g \in Guards, UNCHANGED Place(g), ~Guard(g)
    PROVE  GuardTriesOn(g)
BY DEF GuardTriesOn, Place, Trying

\* A round of this guard.
LEMMA OwnRound ==
    ASSUME IInv, NEW g \in Guards, Guard(g)
    PROVE  GuardTriesOn(g)
<1> USE DEF GuardTriesOn, Trying, RoundsLeft
<1>0. /\ Len(keys[g]) \in Nat /\ curr[g] \in Nat \ {0} /\ begin[g] \in Nat \ {0}
      /\ curr[g] <= Len(keys[g]) + 1 /\ begin[g] <= curr[g]
      /\ state[g] = "locking" => begin[g] = 1
  BY DEF IInv, TypeOK, LockInv, IteratorsAgree
<1>1. CASE Insert(g)
  <2>1. /\ state[g] = "locking" /\ state'[g] = "locking" /\ keys'[g] = keys[g]
        /\ curr[g] <= Len(keys[g]) /\ curr'[g] = curr[g] + 1
    BY <1>1 DEF Insert, IInv, TypeOK
  <2> QED
    BY <1>0, <2>1
<1>2. CASE Conflict(g)
  <2>1. /\ state[g] = "locking" /\ state'[g] = "rollback" /\ keys'[g] = keys[g]
        /\ curr[g] <= Len(keys[g]) /\ curr'[g] = curr[g] /\ begin'[g] = begin[g]
    BY <1>2 DEF Conflict, IInv, TypeOK
  <2> QED
    BY <1>0, <2>1
<1>3. CASE Locked(g)
  <2>1. state[g] = "locking" /\ state'[g] = "locked"
    BY <1>3 DEF Locked, IInv, TypeOK
  <2> QED
    BY <1>0, <2>1
<1>4. CASE Erase(g)
  <2>1. /\ state[g] \in {"rollback", "unlocking"} /\ state'[g] = state[g]
        /\ begin[g] < curr[g] /\ curr'[g] = curr[g] /\ begin'[g] = begin[g] + 1
    BY <1>4 DEF Erase, IInv, TypeOK
  <2> QED
    BY <1>0, <2>1
<1>5. CASE RolledBack(g)
  <2>1. state[g] = "rollback" /\ state'[g] = "failed" /\ begin[g] = curr[g]
    BY <1>5 DEF RolledBack, IInv, TypeOK
  <2> QED
    BY <1>0, <2>1
<1> QED
  BY <1>1, <1>2, <1>3, <1>4, <1>5 DEF Guard

\* The constructor of a guard makes at most 2n + 2 rounds over a batch of n keys,
\* however many threads insert and take back keys meanwhile: no key makes it
\* wait or begin again, which is what TryNeverBlocks needs besides fairness.
THEOREM TryIsWaitFree == Spec => TriesAreBounded
<1>1. ASSUME IInv, [Next]_vars, NEW g \in Guards PROVE GuardTriesOn(g)
  <2>1. CASE Guard(g)
    BY <1>1, <2>1, OwnRound
  <2>2. CASE Construct(g)
    <3>1. /\ state[g] = "none" /\ state'[g] = "locking"
          /\ curr[g] = 1 /\ curr'[g] = curr[g]
      BY <1>1, <2>2 DEF Construct, IInv, TypeOK, LockInv, IteratorsAgree
    <3>2. TypeOK'
      BY <1>1, TypeStep DEF IInv
    <3>3. Len(keys'[g]) \in Nat
      BY <3>2 DEF TypeOK
    <3> QED
      BY <3>1, <3>3 DEF GuardTriesOn, Trying, RoundsLeft
  <2>3. CASE Unlocking(g) \/ Destruct(g)
    <3>1. ~Trying(g) /\ ~Trying(g)'
      BY <1>1, <2>3 DEF Unlocking, Destruct, IInv, TypeOK, Trying
    <3> QED
      BY <3>1 DEF GuardTriesOn
  <2>4. ASSUME UNCHANGED guardVars, ~Guard(g) PROVE GuardTriesOn(g)
    BY <2>4, OtherGuard DEF guardVars, Place
  <2>5. CASE UNCHANGED vars
    BY <2>1, <2>4, <2>5 DEF vars
  <2>6. ASSUME NEW u \in Users, NEW k \in Keys, TryLock(u, k) \/ Unlock(u, k)
        PROVE  GuardTriesOn(g)
    BY <2>1, <2>4, <2>6 DEF TryLock, Unlock
  <2>7. ASSUME NEW h \in Guards, h # g, ~Guard(g),
               Construct(h) \/ Guard(h) \/ Unlocking(h) \/ Destruct(h)
        PROVE  GuardTriesOn(g)
    <3>1. CASE Construct(h)
      <4>1. keys'[g] = keys[g] /\ UNCHANGED <<curr, begin>> /\ state'[g] = state[g]
        BY <1>1, <2>7, <3>1 DEF Construct, IInv, TypeOK
      <4> QED
        BY <2>7, <4>1, OtherGuard DEF Place
    <3>2. CASE Guard(h) \/ Unlocking(h) \/ Destruct(h)
      <4>1. UNCHANGED Place(g)
        BY <1>1, <2>7, <3>2 DEF Guard, Insert, Conflict, Locked, Erase, RolledBack,
           Unlocking, Destruct, IInv, TypeOK, Place
      <4> QED
        BY <2>7, <4>1, OtherGuard
    <3> QED
      BY <2>7, <3>1, <3>2
  <2> QED
    BY <1>1, <2>1, <2>2, <2>3, <2>5, <2>6, <2>7 DEF Next
<1>2. IInv /\ [Next]_vars => [\A g \in Guards : GuardTriesOn(g)]_vars
  BY <1>1
<1> QED
  BY <1>2, Invariance, PTL DEF Spec, TriesAreBounded
=============================================================================
