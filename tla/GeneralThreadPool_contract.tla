--------------------- MODULE GeneralThreadPool_contract ---------------------
(***************************************************************************)
(* Proofs about GeneralThreadPool and its workers.  First the ids of the   *)
(* timers: a worker's ids do not wrap around while the pool hands out no   *)
(* more than TimerIdSpace of them (CountInv), so a pool's id names one     *)
(* timer (RouteInv).  Then the contract: what becomes of each worker of    *)
(* the pool is a behaviour of WorkerContract, and a step a worker takes by *)
(* itself, by its contract, is a step of the pool.                         *)
(***************************************************************************)
EXTENDS GeneralThreadPool_proofs, FiniteSetTheorems

\* The callers that have taken a number and not yet called their worker.
Adding == {c \in Callers : pc[c].op \in Ops}

CountInv ==
    /\ IsFiniteSet(Adding)
    /\ \A i \in Indexes : nextTimerId[i] + Cardinality(Adding) <= nextThread

\* The pool has handed out this id: the worker it leads to has used its part.
HandedOut(handle) ==
    \E i \in Indexes, id \in 0 .. TimerIdSpace - 1 :
        handle = Handle(i, id) /\ id < nextTimerId[i]

RouteInv ==
    /\ \A t \in timers : t.handle = Handle(t.at, t.id)
    /\ \A handle \in repeats \cup purged \cup delays \cup fired : HandedOut(handle)
    /\ repeats \cap delays = {}
    /\ size = 0 => timers = {}
    /\ PurgeIsRouted

\* The two parts of an id are got back from it.
LEMMA HandleParts ==
    ASSUME NEW i \in Nat, NEW id \in 0 .. TimerIdSpace - 1
    PROVE  /\ Handle(i, id) \div TimerIdSpace = i
           /\ Handle(i, id) % TimerIdSpace = id
<1>1. \A k \in Nat \ {0}, a \in Nat :
          \A b \in 0 .. k - 1 : (a * k + b) \div k = a /\ (a * k + b) % k = b
  OBVIOUS
<1> QED
  BY <1>1, PoolAssumption DEF Handle

\* Two handles of a pool are equal only for the same worker and the same id.
LEMMA HandleInjective ==
    ASSUME NEW i \in Nat, NEW id \in 0 .. TimerIdSpace - 1,
           NEW j \in Nat, NEW id2 \in 0 .. TimerIdSpace - 1,
           Handle(i, id) = Handle(j, id2)
    PROVE  i = j /\ id = id2
BY HandleParts

\* A step that moves nobody into or out of the calls that count.
LEMMA CountFrame ==
    ASSUME CountInv, UNCHANGED <<nextTimerId, nextThread>>,
           \A c \in Callers : pc'[c].op \in Ops <=> pc[c].op \in Ops
    PROVE  CountInv'
<1>1. Adding' = Adding
  BY DEF Adding
<1> QED
  BY <1>1 DEF CountInv

\* A caller that has taken a number counts until it has called its worker.
LEMMA AddingLess ==
    ASSUME TypeOK, CountInv, NEW c \in Callers, pc[c].op \in Ops, Goto(c, "idle", 0)
    PROVE  /\ IsFiniteSet(Adding')
           /\ Cardinality(Adding') = Cardinality(Adding) - 1
           /\ Cardinality(Adding) \in Nat \ {0}
<1>1. Adding' = Adding \ {c} /\ c \in Adding
  BY DEF Adding, Goto, TypeOK, Ops
<1>2. Cardinality(Adding) \in Nat /\ Cardinality(Adding) # 0
  BY <1>1, FS_CardinalityType, FS_EmptySet DEF CountInv
<1> QED
  BY <1>1, <1>2, FS_RemoveElement DEF CountInv

\* Every step keeps the count.
LEMMA CountStep ==
    ASSUME TypeOK, CallInv, CountInv, [Next]_vars
    PROVE  CountInv'
<1> USE DEF poolVars, workers, object, history, Idle
<1>1. CASE UNCHANGED vars
  BY <1>1, CountFrame DEF vars
<1>2. ASSUME NEW c \in Callers, NEW op \in Ops, Choose(c, op) PROVE CountInv'
  <2>1. Adding' = Adding \cup {c} /\ c \notin Adding
    BY <1>2 DEF Adding, Choose, MayCall, Goto, TypeOK, Ops
  <2>2. IsFiniteSet(Adding') /\ Cardinality(Adding') = Cardinality(Adding) + 1
    BY <2>1, FS_AddElement DEF CountInv
  <2>3. nextThread' = nextThread + 1 /\ nextTimerId' = nextTimerId /\ nextThread \in Nat
        /\ nextTimerId \in [Indexes -> Nat]
    BY <1>2, PoolAssumption DEF Choose, TypeOK
  <2>4. Cardinality(Adding) \in Nat
    BY FS_CardinalityType DEF CountInv
  <2> QED
    BY <2>2, <2>3, <2>4 DEF CountInv
<1>3. ASSUME NEW c \in Callers, AddTask(c) PROVE CountInv'
  <2>1. /\ IsFiniteSet(Adding')
        /\ Cardinality(Adding') = Cardinality(Adding) - 1
        /\ Cardinality(Adding) \in Nat \ {0}
    BY <1>3, AddingLess DEF AddTask, Ops
  <2>2. UNCHANGED <<nextTimerId, nextThread>> /\ nextThread \in Nat
        /\ nextTimerId \in [Indexes -> Nat]
    BY <1>3, PoolAssumption DEF AddTask, TypeOK
  <2> QED
    BY <2>1, <2>2 DEF CountInv
<1>4. ASSUME NEW c \in Callers, NEW repeat \in BOOLEAN,
             pc[c].op \in {"delay", "repeat"}, AddTimer(c, repeat)
      PROVE  CountInv'
  <2>1. /\ IsFiniteSet(Adding')
        /\ Cardinality(Adding') = Cardinality(Adding) - 1
        /\ Cardinality(Adding) \in Nat \ {0}
    BY <1>4, AddingLess DEF AddTimer, Ops
  <2>2. /\ nextThread' = nextThread /\ nextThread \in Nat
        /\ nextTimerId \in [Indexes -> Nat]
        /\ \A i \in Indexes : nextTimerId'[i] \in {nextTimerId[i], nextTimerId[i] + 1}
    BY <1>4, PoolAssumption DEF AddTimer, TypeOK
  <2> QED
    BY <2>1, <2>2 DEF CountInv
<1>5. CASE Start
  <2>1. Adding = {} /\ Adding' = {}
    BY <1>5, UnusedIsIdle DEF Start, Adding, Ops
  <2>2. nextThread' \in Nat /\ \A i \in Indexes : nextTimerId'[i] = 0
    BY <1>5, PoolAssumption DEF Start, TypeOK
  <2> QED
    BY <2>1, <2>2, FS_EmptySet DEF CountInv
<1>6. ASSUME NEW c \in Callers, pc[c].op \notin Ops, NEW op, op \notin Ops, NEW at,
             Goto(c, op, at), UNCHANGED <<nextTimerId, nextThread>>
      PROVE  CountInv'
  <2>1. \A d \in Callers : pc'[d].op \in Ops <=> pc[d].op \in Ops
    BY <1>6 DEF Goto, TypeOK
  <2> QED
    BY <1>6, <2>1, CountFrame
<1>7. ASSUME UNCHANGED <<pc, nextTimerId, nextThread>> PROVE CountInv'
  BY <1>7, CountFrame
<1>8. ASSUME NEW c \in Callers, NEW handle \in repeats, PurgeTimerTask(c, handle)
      PROVE  CountInv'
  BY <1>7, <1>8 DEF PurgeTimerTask
<1>9. ASSUME NEW c \in Callers, Stop(c) PROVE CountInv'
  BY <1>6, <1>9 DEF Stop, MayCall, Ops
<1>10. ASSUME NEW c \in Callers, StopNext(c) \/ StopStore(c) \/ StopReturn(c)
       PROVE  CountInv'
  BY <1>6, <1>10 DEF StopNext, StopStore, StopReturn, Ops
<1>11. CASE Wait \/ Destroy \/ DestroyWait
  BY <1>6, <1>11, IndexFacts DEF Wait, Destroy, DestroyWait, OwnerMayAct, Ops
<1>12. CASE Join
  <2>1. PICK k : Goto(Owner, "wait", k)
    BY <1>12 DEF Join
  <2> QED
    BY <1>6, <1>12, <2>1, IndexFacts DEF Join, Ops
<1>13. CASE Clear
  BY <1>6, <1>13, IndexFacts DEF Clear, Ops
<1>14. ASSUME NEW i \in Indexes, TakeUp(i) \/ BeginTimer(i) \/ Complete(i)
       PROVE  CountInv'
  BY <1>7, <1>14 DEF TakeUp, Begin, Close, BeginTimer, Complete, Finish, EndTimer
<1> QED
  BY <1>1, <1>2, <1>3, <1>4, <1>5, <1>8, <1>9, <1>10, <1>11, <1>12, <1>13, <1>14
     DEF Next, Call, Proceed, OwnerProceed, AddDelayTask, AddRepeatTask, TakeUp,
         Complete, Gone, Ops

\* The id a worker gives to a new timer is one it has not given before.
LEMMA NewIdIsFresh ==
    ASSUME TypeOK, CountInv, NEW c \in Callers, pc[c].op \in {"delay", "repeat"}
    PROVE  /\ pc[c].at \in Indexes /\ pc[c].at < size
           /\ nextTimerId[pc[c].at] % TimerIdSpace = nextTimerId[pc[c].at]
           /\ nextTimerId[pc[c].at] \in 0 .. TimerIdSpace - 1
<1>1. PICK i \in Indexes : i = pc[c].at /\ i < size
  BY WorkerOfCall DEF AtWorker
<1>2. c \in Adding
  BY DEF Adding, Ops
<1>3. Cardinality(Adding) \in Nat \ {0}
  BY <1>2, FS_CardinalityType, FS_EmptySet DEF CountInv
<1>4. nextTimerId[i] \in Nat /\ nextThread \in Nat /\ nextThread <= MaxSubmits
  BY PoolAssumption DEF TypeOK
<1>5. nextTimerId[i] + Cardinality(Adding) <= nextThread
  BY DEF CountInv
<1>6. nextTimerId[i] \in 0 .. TimerIdSpace - 1
  BY <1>3, <1>4, <1>5, PoolAssumption
<1>7. \A k \in Nat \ {0} : \A n \in 0 .. k - 1 : n % k = n
  OBVIOUS
<1>8. nextTimerId[i] % TimerIdSpace = nextTimerId[i]
  BY <1>6, <1>7, PoolAssumption
<1> QED
  BY <1>1, <1>6, <1>8

\* A new timer gets an id that no other timer has had.
LEMMA AddTimerStep ==
    ASSUME TypeOK, CountInv, RouteInv, NEW c \in Callers, NEW repeat \in BOOLEAN,
           pc[c].op \in {"delay", "repeat"}, AddTimer(c, repeat)
    PROVE  RouteInv'
<1>1. PICK i \in Indexes, id \in 0 .. TimerIdSpace - 1 :
          /\ i = pc[c].at
          /\ i < size
          /\ id = nextTimerId[i] % TimerIdSpace
          /\ id = nextTimerId[i]
  BY NewIdIsFresh
<1> DEFINE h == Handle(i, id)
           new == [at |-> i, id |-> id, repeat |-> repeat, handle |-> h]
<1>2. /\ timers' = timers \cup {new}
      /\ nextTimerId' = [nextTimerId EXCEPT ![i] = @ + 1]
      /\ UNCHANGED <<purged, fired, size>>
      /\ repeat => repeats' = repeats \cup {h} /\ delays' = delays
      /\ ~repeat => delays' = delays \cup {h} /\ repeats' = repeats
  BY <1>1 DEF AddTimer, poolVars
<1>3. ~HandedOut(h)
  <2> SUFFICES ASSUME NEW j \in Indexes, NEW id2 \in 0 .. TimerIdSpace - 1,
                      h = Handle(j, id2), id2 < nextTimerId[j]
               PROVE  FALSE
    BY DEF HandedOut
  <2>1. j = i /\ id2 = id
    BY HandleInjective, IndexFacts
  <2> QED
    BY <1>1, <2>1
<1>4. h \notin repeats \cup purged \cup delays \cup fired
  BY <1>3 DEF RouteInv
<1>5. \A j \in Indexes : nextTimerId[j] \in Nat /\ nextTimerId'[j] \in Nat
                         /\ nextTimerId[j] <= nextTimerId'[j]
  BY <1>2 DEF TypeOK
<1>6. \A handle : HandedOut(handle) => HandedOut(handle)'
  BY <1>5 DEF HandedOut, Handle
<1>7. HandedOut(h)'
  <2>1. id < nextTimerId'[i]
    BY <1>1, <1>2 DEF TypeOK
  <2> QED
    BY <2>1 DEF HandedOut, Handle
<1>8. new.handle = Handle(new.at, new.id) /\ new.handle = h /\ new.repeat = repeat
  OBVIOUS
<1> HIDE DEF h, new
<1>9. \A handle \in repeats' \cup purged' \cup delays' \cup fired' : HandedOut(handle)'
  BY <1>2, <1>6, <1>7 DEF RouteInv
<1>10. \A t \in timers' : t.handle = Handle(t.at, t.id)
  BY <1>2, <1>8 DEF RouteInv
<1>11. repeats' \cap delays' = {}
  BY <1>2, <1>4 DEF RouteInv
<1>12. size # 0 /\ size > 0
  BY <1>1, IndexFacts DEF TypeOK
<1>13. /\ {t.handle : t \in {u \in timers : u.repeat}} = repeats \ purged
       /\ {t.handle : t \in {u \in timers : ~u.repeat}} = delays \ fired
  BY <1>12 DEF RouteInv, PurgeIsRouted
<1>14. CASE repeat
  <2>1. /\ {u \in timers' : u.repeat} = {u \in timers : u.repeat} \cup {new}
        /\ {u \in timers' : ~u.repeat} = {u \in timers : ~u.repeat}
    BY <1>2, <1>8, <1>14
  <2>2. /\ {t.handle : t \in {u \in timers' : u.repeat}} = (repeats \ purged) \cup {h}
        /\ {t.handle : t \in {u \in timers' : ~u.repeat}} = delays \ fired
    BY <1>8, <1>13, <2>1
  <2>3. repeats' \ purged' = (repeats \ purged) \cup {h} /\ delays' \ fired' = delays \ fired
    BY <1>2, <1>4, <1>14
  <2> QED
    BY <1>2, <1>9, <1>10, <1>11, <1>12, <2>2, <2>3 DEF RouteInv, PurgeIsRouted, Handle
<1>15. CASE ~repeat
  <2>1. /\ {u \in timers' : u.repeat} = {u \in timers : u.repeat}
        /\ {u \in timers' : ~u.repeat} = {u \in timers : ~u.repeat} \cup {new}
    BY <1>2, <1>8, <1>15
  <2>2. /\ {t.handle : t \in {u \in timers' : u.repeat}} = repeats \ purged
        /\ {t.handle : t \in {u \in timers' : ~u.repeat}} = (delays \ fired) \cup {h}
    BY <1>8, <1>13, <2>1
  <2>3. delays' \ fired' = (delays \ fired) \cup {h} /\ repeats' \ purged' = repeats \ purged
    BY <1>2, <1>4, <1>15
  <2> QED
    BY <1>2, <1>9, <1>10, <1>11, <1>12, <2>2, <2>3 DEF RouteInv, PurgeIsRouted, Handle
<1> QED
  BY <1>14, <1>15

\* A purge request takes away the timer with this id and no other.
LEMMA PurgeStep ==
    ASSUME TypeOK, CallInv, RouteInv, NEW c \in Callers, NEW handle \in repeats,
           PurgeTimerTask(c, handle)
    PROVE  RouteInv'
<1>1. PICK i \in Indexes, id \in 0 .. TimerIdSpace - 1 : handle = Handle(i, id)
  BY DEF RouteInv, HandedOut
<1>2. handle \div TimerIdSpace = i /\ handle % TimerIdSpace = id
  BY <1>1, HandleParts, IndexFacts
<1>3. \A t \in timers : /\ t.at \in Nat /\ t.id \in 0 .. TimerIdSpace - 1
                        /\ t.handle = Handle(t.at, t.id)
  BY IndexFacts DEF TypeOK, TimerRecords, RouteInv
<1>4. \A t \in timers : t.at = i /\ t.id = id <=> t.handle = handle
  BY <1>1, <1>3, HandleInjective, IndexFacts
<1>5. timers' = {t \in timers : ~ (t.at = i /\ t.id = id)}
  BY <1>2 DEF PurgeTimerTask
<1>6. /\ purged' = purged \cup {handle}
      /\ UNCHANGED <<repeats, delays, fired, nextTimerId, size>>
  BY DEF PurgeTimerTask, poolVars
<1>7. timers' = {t \in timers : t.handle # handle}
  BY <1>4, <1>5
<1>8. size # 0 /\ size > 0
  BY DEF PurgeTimerTask, MayCall, CallInv, TypeOK
<1>9. /\ {t.handle : t \in {u \in timers : u.repeat}} = repeats \ purged
      /\ {t.handle : t \in {u \in timers : ~u.repeat}} = delays \ fired
      /\ handle \notin delays
  BY <1>8 DEF RouteInv, PurgeIsRouted
<1>10. {t.handle : t \in {u \in timers' : u.repeat}} = repeats' \ purged'
  <2>1. {t.handle : t \in {u \in timers' : u.repeat}} =
            {t.handle : t \in {u \in timers : u.repeat}} \ {handle}
    BY <1>7
  <2> QED
    BY <1>6, <1>9, <2>1
<1>11. {t.handle : t \in {u \in timers' : ~u.repeat}} = delays' \ fired'
  <2>1. {t.handle : t \in {u \in timers' : ~u.repeat}} =
            {t.handle : t \in {u \in timers : ~u.repeat}} \ {handle}
    BY <1>7
  <2> QED
    BY <1>6, <1>9, <2>1
<1>12. \A t \in timers' : t.handle = Handle(t.at, t.id)
  BY <1>3, <1>7
<1>13. \A a : HandedOut(a)' <=> HandedOut(a)
  BY <1>6 DEF HandedOut, Handle
<1>14. \A a \in repeats' \cup purged' \cup delays' \cup fired' : HandedOut(a)'
  BY <1>6, <1>13 DEF RouteInv
<1> QED
  BY <1>6, <1>8, <1>10, <1>11, <1>12, <1>14 DEF RouteInv, PurgeIsRouted, Handle

\* A delayed task that has run takes its own timer away.
LEMMA EndTimerStep ==
    ASSUME RouteInv, NEW i \in Indexes, EndTimer(i)
    PROVE  RouteInv'
<1>1. /\ timers' = {t \in timers : t.repeat \/ t.handle \notin firing[i]}
      /\ fired' = fired \cup (delays \cap firing[i])
      /\ UNCHANGED <<repeats, purged, delays, nextTimerId, size>>
  BY DEF EndTimer, poolVars
<1>2. size = 0 => timers' = {}
  BY <1>1 DEF RouteInv
<1>3. ASSUME size > 0
      PROVE  /\ {t.handle : t \in {u \in timers' : u.repeat}} = repeats' \ purged'
             /\ {t.handle : t \in {u \in timers' : ~u.repeat}} = delays' \ fired'
  <2>1. /\ {t.handle : t \in {u \in timers : u.repeat}} = repeats \ purged
        /\ {t.handle : t \in {u \in timers : ~u.repeat}} = delays \ fired
    BY <1>3 DEF RouteInv, PurgeIsRouted
  <2>2. {u \in timers' : u.repeat} = {u \in timers : u.repeat}
    BY <1>1
  <2>3. {t.handle : t \in {u \in timers' : ~u.repeat}} =
            {t.handle : t \in {u \in timers : ~u.repeat}} \ firing[i]
    BY <1>1
  <2>4. delays' \ fired' = (delays \ fired) \ firing[i]
    BY <1>1
  <2> QED
    BY <1>1, <2>1, <2>2, <2>3, <2>4
<1>4. \A a : HandedOut(a)' <=> HandedOut(a)
  BY <1>1 DEF HandedOut, Handle
<1>5. \A a \in repeats' \cup purged' \cup delays' \cup fired' : HandedOut(a)'
  BY <1>1, <1>4 DEF RouteInv
<1>6. \A t \in timers' : t.handle = Handle(t.at, t.id)
  BY <1>1 DEF RouteInv
<1> QED
  BY <1>1, <1>2, <1>3, <1>5, <1>6 DEF RouteInv, PurgeIsRouted, Handle

\* A step that leaves the timers alone keeps them in order.
LEMMA RouteFrame ==
    ASSUME RouteInv, UNCHANGED <<timers, repeats, purged, delays, fired, nextTimerId, size>>
    PROVE  RouteInv'
<1>1. \A a : HandedOut(a)' <=> HandedOut(a)
  BY DEF HandedOut, Handle
<1> QED
  BY <1>1 DEF RouteInv, PurgeIsRouted, Handle

\* Every step keeps the timers in order.
LEMMA RouteStep ==
    ASSUME TypeOK, CallInv, CountInv, RouteInv, [Next]_vars
    PROVE  RouteInv'
<1> USE DEF poolVars, workers, object, history, timerHistory
<1>1. ASSUME UNCHANGED <<timers, repeats, purged, delays, fired, nextTimerId, size>>
      PROVE  RouteInv'
  BY <1>1, RouteFrame
<1>2. CASE UNCHANGED vars
  BY <1>1, <1>2 DEF vars
<1>3. ASSUME NEW c \in Callers, NEW op \in Ops, Choose(c, op) PROVE RouteInv'
  BY <1>1, <1>3 DEF Choose
<1>4. ASSUME NEW c \in Callers, NEW handle \in repeats, PurgeTimerTask(c, handle)
      PROVE  RouteInv'
  BY <1>4, PurgeStep
<1>5. ASSUME NEW c \in Callers, Stop(c) \/ StopNext(c) \/ StopStore(c) \/ StopReturn(c)
      PROVE  RouteInv'
  BY <1>1, <1>5 DEF Stop, StopNext, StopStore, StopReturn
<1>6. ASSUME NEW c \in Callers, AddTask(c) PROVE RouteInv'
  BY <1>1, <1>6 DEF AddTask
<1>7. ASSUME NEW c \in Callers, NEW repeat \in BOOLEAN,
             pc[c].op \in {"delay", "repeat"}, AddTimer(c, repeat)
      PROVE  RouteInv'
  BY <1>7, AddTimerStep
<1>8. CASE Start
  <2>1. timers = {}
    BY <1>8, UnusedIsIdle DEF Start, RouteInv
  <2>2. timers' = {} /\ repeats' = {} /\ purged' = {} /\ delays' = {} /\ fired' = {}
    BY <1>8, <2>1 DEF Start
  <2> QED
    BY <2>2 DEF RouteInv, PurgeIsRouted
<1>9. CASE Wait \/ Destroy \/ Join \/ DestroyWait
  BY <1>1, <1>9 DEF Wait, Destroy, Join, DestroyWait
<1>10. CASE Clear
  <2>1. /\ timers' = {} /\ size' = 0
        /\ UNCHANGED <<repeats, purged, delays, fired, nextTimerId>>
    BY <1>10 DEF Clear
  <2>2. \A a : HandedOut(a)' <=> HandedOut(a)
    BY <2>1 DEF HandedOut, Handle
  <2> QED
    BY <2>1, <2>2 DEF RouteInv, PurgeIsRouted
<1>11. ASSUME NEW i \in Indexes, TakeUp(i) \/ BeginTimer(i) \/ Finish(i)
       PROVE  RouteInv'
  BY <1>1, <1>11 DEF TakeUp, Begin, Close, BeginTimer, Finish
<1>12. ASSUME NEW i \in Indexes, EndTimer(i) PROVE RouteInv'
  BY <1>12, EndTimerStep
<1> QED
  BY <1>2, <1>3, <1>4, <1>5, <1>6, <1>7, <1>8, <1>9, <1>10, <1>11, <1>12
     DEF Next, Call, Proceed, OwnerProceed, AddDelayTask, AddRepeatTask, TakeUp,
         Complete, Gone, Ops

\* In an unused pool there are no timers and no calls.
LEMMA InitRoute == Init => CountInv /\ RouteInv
<1> SUFFICES ASSUME Init PROVE CountInv /\ RouteInv
  OBVIOUS
<1>1. Adding = {}
  BY DEF Init, Adding, Ops, Idle
<1>2. CountInv
  BY <1>1, FS_EmptySet DEF Init, CountInv
<1>3. RouteInv
  BY DEF Init, RouteInv, PurgeIsRouted
<1> QED
  BY <1>2, <1>3

\* Purge requests reach the timer they name and no other: the timers of all
\* workers are, by their ids in the pool, those added and not purged or run.
THEOREM PurgeRouted == Spec => []PurgeIsRouted
<1>1. IInv /\ CountInv /\ RouteInv /\ [Next]_vars => (CountInv /\ RouteInv)'
  BY CountStep, RouteStep DEF IInv
<1>2. RouteInv => PurgeIsRouted
  BY DEF RouteInv
<1> QED
  BY <1>1, <1>2, InitRoute, Invariance, PTL DEF Spec

-----------------------------------------------------------------------------
(* Each worker of the pool is a WorkerContract.                            *)

\* What a worker owes it has accepted; one whose loop has returned owes nothing
\* of what it has; and a place without a worker has no tasks.
OwedInv ==
    /\ owed \subseteq 1 .. submitted
    /\ \A i \in Indexes : thread[i] # "open" => owed \cap TasksOf(waiting[i]) = {}
    /\ \A i \in Indexes : i >= size => waiting[i] = <<>>

\* Every step keeps what is owed with the workers that still run.
LEMMA OwedStep ==
    ASSUME IInv, OwedInv, [Next]_vars
    PROVE  OwedInv'
<1> USE DEF poolVars, workers, object, history, taskHistory, timerHistory
<1>0. TypeOK /\ CallInv /\ TaskInv
  BY DEF IInv
<1>1. ASSUME UNCHANGED <<owed, submitted, thread, waiting, size>> PROVE OwedInv'
  BY <1>1 DEF OwedInv
<1>2. CASE UNCHANGED vars
  BY <1>1, <1>2 DEF vars
<1>3. ASSUME NEW c \in Callers,
             \/ \E op \in Ops : Choose(c, op)
             \/ \E handle \in repeats : PurgeTimerTask(c, handle)
             \/ Stop(c) \/ StopNext(c) \/ StopReturn(c)
             \/ \E repeat \in BOOLEAN : AddTimer(c, repeat)
      PROVE  OwedInv'
  BY <1>1, <1>3 DEF Choose, PurgeTimerTask, Stop, StopNext, StopReturn, AddTimer
<1>4. ASSUME NEW c \in Callers, AddTask(c) PROVE OwedInv'
  <2>1. PICK k \in Indexes : k = pc[c].at /\ k < size
    BY <1>0, <1>4, WorkerOfCall DEF AddTask, AtWorker
  <2>2. /\ waiting' = [waiting EXCEPT ![k] = Append(@, submitted + 1)]
        /\ submitted' = submitted + 1
        /\ UNCHANGED <<owed, thread, size>>
    BY <1>4, <2>1 DEF AddTask
  <2>3. waiting \in [Indexes -> Seq(Nat)] /\ submitted \in Nat /\ size \in Nat
    BY <1>0 DEF TypeOK
  <2>4. TasksOf(waiting'[k]) = TasksOf(waiting[k]) \cup {submitted + 1}
    BY <2>2, <2>3, TasksOfAppend
  <2>5. submitted + 1 \notin owed /\ owed \subseteq 1 .. submitted'
    BY <2>2, <2>3 DEF OwedInv
  <2>6. \A i \in Indexes : i # k => waiting'[i] = waiting[i]
    BY <2>2, <2>3
  <2>7. \A i \in Indexes : thread[i] # "open" => owed \cap TasksOf(waiting'[i]) = {}
    BY <2>4, <2>5, <2>6 DEF OwedInv
  <2>8. \A i \in Indexes : i >= size => i # k
    BY <2>1, <2>3, IndexFacts
  <2> QED
    BY <2>2, <2>5, <2>6, <2>7, <2>8 DEF OwedInv
<1>5. ASSUME NEW c \in Callers, StopStore(c) PROVE OwedInv'
  <2>1. PICK k \in Indexes : k = pc[c].at
    BY <1>0, <1>5, WorkerOfCall DEF StopStore, AtWorker
  <2>2. /\ owed' = IF stopped[k] THEN owed ELSE owed \cup TasksOf(waiting[k])
        /\ UNCHANGED <<submitted, thread, waiting, size>>
    BY <1>5, <2>1 DEF StopStore
  <2>3. CASE stopped[k]
    BY <1>1, <2>2, <2>3
  <2>4. CASE ~stopped[k]
    <3>1. thread[k] = "open"
      BY <1>0, <2>4 DEF TaskInv
    <3>2. \A i \in Indexes : i # k => TasksOf(waiting[i]) \cap TasksOf(waiting[k]) = {}
      BY <1>0 DEF TaskInv
    <3>3. TasksOf(waiting[k]) \subseteq 1 .. submitted
      BY <1>0 DEF TaskInv
    <3> QED
      BY <2>2, <2>4, <3>1, <3>2, <3>3 DEF OwedInv
  <2> QED
    BY <2>3, <2>4
<1>6. CASE Start
  <2>1. \A i \in Indexes : waiting[i] = <<>>
    BY <1>0, <1>6, UnusedIsIdle, IndexFacts DEF Start, OwedInv, TypeOK
  <2>2. UNCHANGED <<waiting, owed, submitted>>
    BY <1>6 DEF Start
  <2> QED
    BY <2>1, <2>2, TasksOfEmpty DEF OwedInv
<1>7. CASE Wait \/ Destroy \/ DestroyWait
  BY <1>1, <1>7 DEF Wait, Destroy, DestroyWait
<1>8. CASE Join
  <2>1. /\ UNCHANGED <<owed, submitted, waiting, size>>
        /\ \A i \in Indexes : thread'[i] # "open" => thread[i] # "open"
    BY <1>0, <1>8 DEF Join, TypeOK
  <2> QED
    BY <2>1 DEF OwedInv
<1>9. CASE Clear
  <2>1. /\ \A i \in Indexes : waiting'[i] = <<>>
        /\ UNCHANGED <<owed, submitted>>
    BY <1>9 DEF Clear
  <2> QED
    BY <2>1, TasksOfEmpty DEF OwedInv
<1>10. ASSUME NEW k \in Indexes, Begin(k) \/ BeginTimer(k) \/ EndTimer(k)
       PROVE  OwedInv'
  BY <1>1, <1>10 DEF Begin, BeginTimer, EndTimer
<1>11. ASSUME NEW k \in Indexes, Finish(k) PROVE OwedInv'
  <2>1. /\ waiting' = [waiting EXCEPT ![k] = Tail(@)]
        /\ UNCHANGED <<owed, submitted, thread, size>>
        /\ thread[k] = "open" /\ k < size
    BY <1>0, <1>11 DEF Finish, CallInv
  <2>2. \A i \in Indexes : i # k => waiting'[i] = waiting[i]
    BY <1>0, <2>1 DEF TypeOK
  <2>3. ~(k >= size)
    BY <1>0, <2>1, IndexFacts DEF TypeOK
  <2> QED
    BY <2>1, <2>2, <2>3 DEF OwedInv
<1>12. ASSUME NEW k \in Indexes, Close(k) PROVE OwedInv'
  <2>1. /\ UNCHANGED <<owed, submitted, waiting, size>>
        /\ \A i \in Indexes : thread'[i] # "open" => thread[i] # "open" \/ i = k
        /\ TasksOf(waiting[k]) \cap owed = {}
    BY <1>0, <1>12 DEF Close, TypeOK
  <2> QED
    BY <2>1 DEF OwedInv
<1> QED
  BY <1>2, <1>3, <1>4, <1>5, <1>6, <1>7, <1>8, <1>9, <1>10, <1>11, <1>12
     DEF Next, Call, Proceed, OwnerProceed, AddDelayTask, AddRepeatTask, TakeUp,
         Complete, Gone, Ops

\* A step of worker i by its contract, or none.
Kept(i) == Worker(i)!Next \/ UNCHANGED Worker(i)!contractVars

\* What a step that leaves a worker alone leaves alone.
LEMMA WorkerFrame ==
    ASSUME NEW i \in Indexes,
           stopped'[i] = stopped[i], thread'[i] = thread[i], waiting'[i] = waiting[i],
           busy'[i] = busy[i], nextTimerId'[i] = nextTimerId[i],
           owed' \cap TasksOf(waiting[i]) = owed \cap TasksOf(waiting[i]),
           TimersAt(i)' = TimersAt(i), PurgedAt(i)' = PurgedAt(i)
    PROVE  Kept(i)
BY DEF Kept, Worker!contractVars, TasksOf

\* The timers of a worker depend on those of the pool only.
LEMMA TimersFrame ==
    ASSUME UNCHANGED <<timers, purged>>
    PROVE  \A i \in Indexes : TimersAt(i)' = TimersAt(i) /\ PurgedAt(i)' = PurgedAt(i)
BY DEF TimersAt, PurgedAt, Handle

\* The number of a task that is handed over is a new one.
LEMMA AddTaskKept ==
    ASSUME IInv, OwedInv, NEW c \in Callers, AddTask(c), NEW i \in Indexes
    PROVE  Kept(i)
<1>0. TypeOK /\ TaskInv
  BY DEF IInv
<1>1. PICK k \in Indexes : k = pc[c].at
  BY <1>0, WorkerOfCall DEF AddTask, AtWorker
<1>2. /\ waiting' = [waiting EXCEPT ![k] = Append(@, submitted + 1)]
      /\ UNCHANGED <<stopped, thread, busy, owed, nextTimerId, timers, purged>>
  BY <1>1 DEF AddTask, timerHistory
<1>3. waiting \in [Indexes -> Seq(Nat)] /\ submitted \in Nat
  BY <1>0 DEF TypeOK
<1>4. TimersAt(i)' = TimersAt(i) /\ PurgedAt(i)' = PurgedAt(i)
  BY <1>2, TimersFrame
<1>5. CASE i # k
  BY <1>2, <1>3, <1>4, <1>5, WorkerFrame
<1>6. CASE i = k
  <2>1. waiting'[i] = Append(waiting[i], submitted + 1)
    BY <1>2, <1>3, <1>6
  <2>2. TasksOf(waiting'[i]) = TasksOf(waiting[i]) \cup {submitted + 1}
    BY <1>3, <2>1, TasksOfAppend
  <2>3. submitted + 1 \notin owed /\ submitted + 1 \notin TasksOf(waiting[i])
    BY <1>0, <1>3 DEF OwedInv, TaskInv
  <2>4. (owed \cap TasksOf(waiting[i]))' = owed \cap TasksOf(waiting[i])
    BY <1>2, <2>2, <2>3 DEF TasksOf
  <2>5. submitted + 1 \in TasksOf(waiting'[i]) \ TasksOf(waiting[i])
    BY <2>2, <2>3
  <2>6. Worker(i)!Accept
    BY <1>2, <1>4, <2>1, <2>4, <2>5 DEF Worker!Accept, Worker!JobsOf, TasksOf
  <2> QED
    BY <2>6 DEF Kept, Worker!Next
<1> QED
  BY <1>5, <1>6

\* A timer is added to one worker.
LEMMA AddTimerKept ==
    ASSUME TypeOK, NEW c \in Callers, NEW repeat \in BOOLEAN,
           pc[c].op \in {"delay", "repeat"}, AddTimer(c, repeat), NEW i \in Indexes
    PROVE  Kept(i)
<1>1. PICK k \in Indexes : k = pc[c].at
  BY WorkerOfCall DEF AtWorker
<1> DEFINE id == nextTimerId[k] % TimerIdSpace
           new == [at |-> k, id |-> id, repeat |-> repeat, handle |-> Handle(k, id)]
<1>2. /\ nextTimerId' = [nextTimerId EXCEPT ![k] = @ + 1]
      /\ timers' = timers \cup {new}
      /\ UNCHANGED <<stopped, thread, waiting, busy, owed, purged>>
  BY <1>1 DEF AddTimer, taskHistory
<1>3. nextTimerId \in [Indexes -> Nat]
  BY DEF TypeOK
<1>4. new.at = k /\ new.id = id /\ new.repeat = repeat
  OBVIOUS
<1>5. PurgedAt(i)' = PurgedAt(i)
  BY <1>2 DEF PurgedAt, Handle
<1> HIDE DEF new
<1>6. CASE i # k
  <2>1. {u \in timers' : u.at = i} = {u \in timers : u.at = i}
    BY <1>2, <1>4, <1>6
  <2>2. TimersAt(i)' = TimersAt(i)
    BY <2>1 DEF TimersAt
  <2> QED
    BY <1>2, <1>3, <1>5, <1>6, <2>2, WorkerFrame
<1>7. CASE i = k
  <2>1. {u \in timers' : u.at = i} = {u \in timers : u.at = i} \cup {new}
    BY <1>2, <1>4, <1>7
  <2>2. TimersAt(i)' = TimersAt(i) \cup {[id |-> id, repeat |-> repeat]}
    BY <1>4, <2>1 DEF TimersAt
  <2>3. nextTimerId'[i] = nextTimerId[i] + 1
    BY <1>2, <1>3, <1>7
  <2>4. Worker(i)!AddTimer(repeat)
    BY <1>2, <1>5, <1>7, <2>2, <2>3 DEF Worker!AddTimer, TasksOf
  <2> QED
    BY <2>4 DEF Kept, Worker!Next
<1> QED
  BY <1>6, <1>7

\* A purge request is made to one worker, of an id that is its own.
LEMMA PurgeKept ==
    ASSUME TypeOK, RouteInv, NEW c \in Callers, NEW handle \in repeats,
           PurgeTimerTask(c, handle), NEW i \in Indexes
    PROVE  Kept(i)
<1>1. PICK k \in Indexes, id \in 0 .. TimerIdSpace - 1 : handle = Handle(k, id)
  BY DEF RouteInv, HandedOut
<1>2. handle \div TimerIdSpace = k /\ handle % TimerIdSpace = id
  BY <1>1, HandleParts, IndexFacts
<1>3. /\ timers' = {t \in timers : ~ (t.at = k /\ t.id = id)}
      /\ purged' = purged \cup {handle}
      /\ UNCHANGED <<stopped, thread, waiting, busy, owed, nextTimerId>>
  BY <1>2 DEF PurgeTimerTask, taskHistory
<1>4. \A n \in 0 .. TimerIdSpace - 1 :
          Handle(i, n) = handle <=> i = k /\ n = id
  BY <1>1, HandleInjective, IndexFacts
<1>5. CASE i # k
  <2>1. {u \in timers' : u.at = i} = {u \in timers : u.at = i}
    BY <1>3, <1>5
  <2>2. TimersAt(i)' = TimersAt(i)
    BY <2>1 DEF TimersAt
  <2>3. PurgedAt(i)' = PurgedAt(i)
    BY <1>3, <1>4, <1>5 DEF PurgedAt, Handle
  <2> QED
    BY <1>3, <2>2, <2>3, WorkerFrame
<1>6. CASE i = k
  <2>1. {u \in timers' : u.at = i} = {u \in {v \in timers : v.at = i} : u.id # id}
    BY <1>3, <1>6
  <2>2. TimersAt(i)' = {t \in TimersAt(i) : t.id # id}
    BY <2>1 DEF TimersAt
  <2>3. PurgedAt(i)' = PurgedAt(i) \cup {id}
    BY <1>3, <1>4, <1>6 DEF PurgedAt, Handle
  <2>4. Worker(i)!Purge(id)
    BY <1>3, <2>2, <2>3 DEF Worker!Purge, TasksOf
  <2> QED
    BY <2>4 DEF Kept, Worker!Next
<1> QED
  BY <1>5, <1>6

\* A stop request makes owed what the worker it is made to has accepted, and
\* nothing that another one has.
LEMMA StopStoreKept ==
    ASSUME IInv, NEW c \in Callers, StopStore(c), NEW i \in Indexes
    PROVE  Kept(i)
<1>0. TypeOK /\ TaskInv
  BY DEF IInv
<1>1. PICK k \in Indexes : k = pc[c].at
  BY <1>0, WorkerOfCall DEF StopStore, AtWorker
<1>2. /\ stopped' = [stopped EXCEPT ![k] = TRUE]
      /\ owed' = IF stopped[k] THEN owed ELSE owed \cup TasksOf(waiting[k])
      /\ UNCHANGED <<thread, waiting, busy, nextTimerId, timers, purged>>
  BY <1>1 DEF StopStore, timerHistory
<1>3. stopped \in [Indexes -> BOOLEAN]
  BY <1>0 DEF TypeOK
<1>4. TimersAt(i)' = TimersAt(i) /\ PurgedAt(i)' = PurgedAt(i)
  BY <1>2, TimersFrame
<1>5. CASE i # k
  <2>1. stopped'[i] = stopped[i]
    BY <1>2, <1>3, <1>5
  <2>2. TasksOf(waiting[i]) \cap TasksOf(waiting[k]) = {}
    BY <1>0, <1>5 DEF TaskInv
  <2>3. owed' \cap TasksOf(waiting[i]) = owed \cap TasksOf(waiting[i])
    BY <1>2, <2>2
  <2> QED
    BY <1>2, <1>4, <2>1, <2>3, WorkerFrame
<1>6. CASE stopped[k]
  <2>1. stopped'[i] = stopped[i] /\ owed' = owed
    BY <1>2, <1>3, <1>6
  <2> QED
    BY <1>2, <1>4, <2>1, WorkerFrame
<1>7. CASE i = k /\ ~stopped[k]
  <2>1. stopped'[i] = TRUE
    BY <1>2, <1>3, <1>7
  <2>2. (owed \cap TasksOf(waiting[i]))' = TasksOf(waiting[i])
    BY <1>2, <1>7 DEF TasksOf
  <2>3. Worker(i)!StopRequest
    BY <1>2, <1>4, <1>7, <2>1, <2>2 DEF Worker!StopRequest, Worker!JobsOf, TasksOf
  <2> QED
    BY <2>3 DEF Kept, Worker!Next
<1> QED
  BY <1>5, <1>6, <1>7

\* start() puts new workers into the vector; of those it does not start, the
\* last may be new as well.
LEMMA StartKept ==
    ASSUME IInv, OwedInv, RouteInv, Start, NEW i \in Indexes
    PROVE  Kept(i)
<1>0. TypeOK /\ CallInv /\ TaskInv
  BY DEF IInv
<1>1. size = 0 /\ thread[i] = "none"
  BY <1>0, UnusedIsIdle DEF Start
<1>2. waiting[i] = <<>> /\ timers = {} /\ stopped[i] = TRUE
  BY <1>0, <1>1, IndexFacts DEF OwedInv, RouteInv, TaskInv, TypeOK
<1>3. TimersAt(i) = {} /\ TimersAt(i)' = {} /\ PurgedAt(i)' = {}
  BY <1>2 DEF TimersAt, PurgedAt, Start
<1>4. /\ nextTimerId'[i] = 0
      /\ UNCHANGED <<waiting, busy, owed>>
  BY DEF Start, taskHistory
<1>5. \/ thread'[i] = "open" /\ stopped'[i] = FALSE
      \/ thread'[i] = "none" /\ stopped'[i] = TRUE
  <2>1. PICK n \in ThreadCounts, ok \in BOOLEAN :
            /\ size' \in IF ok THEN {n} ELSE 1 .. n
            /\ LET up == IF ok THEN size' ELSE size' - 1
               IN  /\ thread' = [j \in Indexes |-> IF j < up THEN "open" ELSE "none"]
                   /\ stopped' = [j \in Indexes |-> j >= up]
    BY DEF Start
  <2> DEFINE up == IF ok THEN size' ELSE size' - 1
  <2>2. /\ thread'[i] = IF i < up THEN "open" ELSE "none"
        /\ stopped'[i] = (i >= up)
    BY <2>1
  <2>3. up \in Int /\ i \in Int
    BY <2>1, IndexFacts
  <2> HIDE DEF up
  <2>4. CASE i < up
    <3>1. (i >= up) = FALSE
      BY <2>3, <2>4
    <3> QED
      BY <2>2, <2>4, <3>1
  <2>5. CASE ~(i < up)
    <3>1. i >= up
      BY <2>3, <2>5
    <3> QED
      BY <2>2, <2>5, <3>1
  <2> QED
    BY <2>4, <2>5
<1>6. CASE thread'[i] = "open" /\ stopped'[i] = FALSE
  <2>1. Worker(i)!Start
    BY <1>1, <1>2, <1>3, <1>4, <1>6 DEF Worker!Start, Worker!Unused, TasksOf
  <2> QED
    BY <2>1 DEF Kept, Worker!Next
<1>7. CASE thread'[i] = "none" /\ stopped'[i] = TRUE
  <2>1. Worker(i)!Replace
    BY <1>1, <1>2, <1>3, <1>4, <1>7 DEF Worker!Replace, Worker!Unused, TasksOf
  <2> QED
    BY <2>1 DEF Kept, Worker!Next
<1> QED
  BY <1>5, <1>6, <1>7

\* wait() joins a worker whose loop has returned, or finds nothing to join.
LEMMA JoinKept ==
    ASSUME TypeOK, Join, NEW i \in Indexes
    PROVE  Kept(i)
<1>1. PICK k \in Indexes : k = pc[Owner].at
  <2>1. pc[Owner].at \in Nat /\ pc[Owner].at < size
    BY IndexFacts DEF Join, TypeOK
  <2> QED
    BY <2>1, VectorIndexes
<1>2. /\ thread[k] # "open"
      /\ thread' = [thread EXCEPT ![k] = "none"]
      /\ UNCHANGED <<stopped, waiting, busy, owed, nextTimerId, timers, purged>>
  BY <1>1 DEF Join, history, taskHistory, timerHistory
<1>3. thread \in [Indexes -> {"none", "open", "closed"}]
  BY DEF TypeOK
<1>4. TimersAt(i)' = TimersAt(i) /\ PurgedAt(i)' = PurgedAt(i)
  BY <1>2, TimersFrame
<1>5. CASE thread'[i] = thread[i]
  BY <1>2, <1>4, <1>5, WorkerFrame
<1>6. CASE thread'[i] # thread[i]
  <2>1. thread[i] = "closed" /\ thread'[i] = "none"
    BY <1>2, <1>3, <1>6
  <2>2. Worker(i)!Join
    BY <1>2, <1>4, <2>1 DEF Worker!Join, TasksOf
  <2> QED
    BY <2>2 DEF Kept, Worker!Next
<1> QED
  BY <1>5, <1>6

\* The end of wait() destroys the workers, which owe nothing.
LEMMA ClearKept ==
    ASSUME IInv, OwedInv, Clear, NEW i \in Indexes
    PROVE  Kept(i)
<1>1. thread[i] = "none"
  BY ClearedIsJoined DEF Clear, IInv
<1>2. /\ waiting'[i] = <<>> /\ timers' = {}
      /\ UNCHANGED <<stopped, thread, busy, owed, nextTimerId, purged>>
  BY DEF Clear, timerHistory
<1>3. TimersAt(i)' = {} /\ PurgedAt(i)' = PurgedAt(i)
  BY <1>2 DEF TimersAt, PurgedAt, Handle
<1>4. owed \cap TasksOf(waiting[i]) = {} /\ owed' \cap TasksOf(waiting'[i]) = {}
  BY <1>1, <1>2, TasksOfEmpty DEF OwedInv
<1>5. (owed \cap TasksOf(waiting[i]))' = {}
  BY <1>4 DEF TasksOf
<1>6. Worker(i)!Discard
  BY <1>1, <1>2, <1>3, <1>4, <1>5 DEF Worker!Discard
<1> QED
  BY <1>6 DEF Kept, Worker!Next

\* A worker's own steps are those of its contract.
LEMMA RunKept ==
    ASSUME IInv, NEW k \in Indexes, Begin(k) \/ Finish(k) \/ Close(k), NEW i \in Indexes
    PROVE  Kept(i)
<1>0. TypeOK /\ CallInv
  BY DEF IInv
<1>1. /\ UNCHANGED <<stopped, owed, nextTimerId, timers, purged>>
      /\ busy' = [busy EXCEPT ![k] = busy'[k]]
      /\ waiting' = [waiting EXCEPT ![k] = waiting'[k]]
      /\ thread' = [thread EXCEPT ![k] = thread'[k]]
  BY <1>0 DEF Begin, Finish, Close, TypeOK, history, taskHistory, timerHistory
<1>2. TimersAt(i)' = TimersAt(i) /\ PurgedAt(i)' = PurgedAt(i)
  BY <1>1, TimersFrame
<1>3. CASE i # k
  <2>1. busy'[i] = busy[i] /\ waiting'[i] = waiting[i] /\ thread'[i] = thread[i]
    BY <1>0, <1>1, <1>3 DEF TypeOK
  <2> QED
    BY <1>1, <1>2, <2>1, WorkerFrame
<1>4. CASE i = k /\ Begin(k)
  <2>1. busy'[i] = TRUE
    BY <1>0, <1>4 DEF Begin, TypeOK
  <2>2. Worker(i)!Begin
    BY <1>1, <1>2, <1>4, <2>1 DEF Worker!Begin, Begin, Resting, TasksOf
  <2> QED
    BY <2>2 DEF Kept, Worker!Next
<1>5. CASE i = k /\ Finish(k)
  <2>1. busy'[i] = FALSE /\ waiting'[i] = Tail(waiting[i]) /\ thread'[i] = thread[i]
    BY <1>0, <1>5 DEF Finish, TypeOK
  <2>2. thread[i] = "open" /\ busy[i] /\ waiting[i] # <<>>
    BY <1>0, <1>5 DEF Finish, CallInv
  <2>3. TasksOf(Tail(waiting[i])) \subseteq TasksOf(waiting[i])
    BY <1>0, <2>2, TasksOfTail DEF TypeOK
  <2>4. (owed \cap TasksOf(waiting[i]))'
            = (owed \cap TasksOf(waiting[i])) \cap TasksOf(Tail(waiting[i]))
    BY <1>1, <2>1, <2>3 DEF TasksOf
  <2>5. Worker(i)!Finish
    BY <1>1, <1>2, <2>1, <2>2, <2>4 DEF Worker!Finish, Worker!JobsOf, TasksOf
  <2> QED
    BY <2>5 DEF Kept, Worker!Next
<1>6. CASE i = k /\ Close(k)
  <2>1. thread'[i] = "closed"
    BY <1>0, <1>6 DEF Close, TypeOK
  <2>2. UNCHANGED <<waiting, busy>> /\ owed \cap TasksOf(waiting[i]) = {}
    BY <1>6 DEF Close
  <2>3. Worker(i)!Close
    BY <1>1, <1>2, <1>6, <2>1, <2>2 DEF Worker!Close, Close, Resting, TasksOf
  <2> QED
    BY <2>3 DEF Kept, Worker!Next
<1> QED
  BY <1>3, <1>4, <1>5, <1>6

\* Two timers of one worker differ in their ids; so the record that its
\* contract keeps of a timer goes when the timer does.
LEMMA TimerOverKept ==
    ASSUME TypeOK, RouteInv, NEW k \in Indexes, thread[k] = "open", ~busy[k],
           NEW t \in timers, t.at = k, ~t.repeat, timers' = timers \ {t},
           UNCHANGED <<stopped, thread, waiting, busy, owed, nextTimerId, purged>>,
           NEW i \in Indexes
    PROVE  Kept(i)
<1>1. PurgedAt(i)' = PurgedAt(i)
  BY DEF PurgedAt, Handle
<1>2. CASE i # k
  <2>1. {u \in timers' : u.at = i} = {u \in timers : u.at = i}
    BY <1>2
  <2>2. TimersAt(i)' = TimersAt(i)
    BY <2>1 DEF TimersAt
  <2> QED
    BY <1>1, <2>2, WorkerFrame
<1>3. CASE i = k
  <2> DEFINE R(u) == [id |-> u.id, repeat |-> u.repeat]
  <2>1. ASSUME NEW u \in timers, u.at = i, R(u) = R(t) PROVE u = t
    <3>1. u.id = t.id /\ u.repeat = t.repeat
      BY <2>1
    <3>2. u.handle = t.handle
      BY <1>3, <2>1, <3>1 DEF RouteInv, Handle
    <3>3. u \in TimerRecords /\ t \in TimerRecords /\ u.at = t.at
      BY <1>3, <2>1 DEF TypeOK
    <3> QED
      BY <3>1, <3>2, <3>3 DEF TimerRecords
  <2>2. {u \in timers' : u.at = i} = {u \in timers : u.at = i} \ {t}
    OBVIOUS
  <2>3. TimersAt(i) = {R(u) : u \in {v \in timers : v.at = i}}
    BY DEF TimersAt
  <2>4. TimersAt(i)' = {R(u) : u \in {v \in timers' : v.at = i}}
    BY DEF TimersAt
  <2>5. R(t) \in TimersAt(i) /\ ~R(t).repeat
    BY <1>3, <2>3
  <2> HIDE DEF R
  <2>6. TimersAt(i)' = TimersAt(i) \ {R(t)}
    BY <2>1, <2>2, <2>3, <2>4
  <2>7. Worker(i)!Fire
    BY <1>1, <1>3, <2>5, <2>6 DEF Worker!Fire, TasksOf
  <2> QED
    BY <2>7 DEF Kept, Worker!Next
<1> QED
  BY <1>2, <1>3

\* A worker runs the callback of one timer at a time, and that is its own.
FiringInv ==
    \A i \in Indexes : \A a, b \in firing[i] : a = b /\ a \div TimerIdSpace = i

\* Every step keeps that.
LEMMA FiringStep ==
    ASSUME TypeOK, FiringInv, [Next]_vars
    PROVE  FiringInv'
<1> USE DEF poolVars, workers, object, history, timerHistory
<1>1. ASSUME NEW k \in Indexes, BeginTimer(k) PROVE FiringInv'
  <2>1. PICK handle : handle \div TimerIdSpace = k /\ firing' = [firing EXCEPT ![k] = {handle}]
    BY <1>1 DEF BeginTimer
  <2> QED
    BY <2>1 DEF FiringInv, TypeOK
<1>2. ASSUME NEW k \in Indexes, EndTimer(k) PROVE FiringInv'
  BY <1>2 DEF EndTimer, FiringInv, TypeOK
<1>3. CASE UNCHANGED firing
  BY <1>3 DEF FiringInv
<1> QED
  BY <1>1, <1>2, <1>3
     DEF Next, Call, Proceed, OwnerProceed, AddDelayTask, AddRepeatTask, TakeUp,
         Complete, Gone, vars, Choose, PurgeTimerTask, Stop, AddTask, AddTimer,
         StopNext, StopStore, StopReturn, Start, Wait, Destroy, Join, Clear,
         DestroyWait, Begin, Close, Finish

\* The end of a callback takes one timer away, or none.
LEMMA EndTimerKept ==
    ASSUME IInv, RouteInv, FiringInv, NEW k \in Indexes, EndTimer(k), NEW i \in Indexes
    PROVE  Kept(i)
<1>1. /\ thread[k] = "open" /\ ~busy[k] /\ TypeOK
      /\ timers' = {t \in timers : t.repeat \/ t.handle \notin firing[k]}
      /\ UNCHANGED <<stopped, thread, waiting, busy, owed, nextTimerId, purged>>
  BY DEF EndTimer, IInv, CallInv, taskHistory
<1>2. CASE timers' = timers
  <2>1. TimersAt(i)' = TimersAt(i) /\ PurgedAt(i)' = PurgedAt(i)
    BY <1>1, <1>2, TimersFrame
  <2> QED
    BY <1>1, <2>1, WorkerFrame
<1>3. CASE timers' # timers
  <2>1. PICK t \in timers : ~t.repeat /\ t.handle \in firing[k]
    BY <1>1, <1>3
  <2>2. \A u \in timers : u.handle = Handle(u.at, u.id) /\ u \in TimerRecords
    BY <1>1 DEF RouteInv, TypeOK
  <2>3. t.at = k
    <3>1. t.at \in Nat /\ t.id \in 0 .. TimerIdSpace - 1
      BY <2>2, IndexFacts DEF TimerRecords
    <3>2. t.handle \div TimerIdSpace = t.at
      BY <2>2, <3>1, HandleParts
    <3> QED
      BY <2>1, <3>2 DEF FiringInv
  <2>4. ASSUME NEW u \in timers, ~u.repeat, u.handle \in firing[k] PROVE u = t
    <3>1. u.handle = t.handle
      BY <2>1, <2>4 DEF FiringInv
    <3>2. u \in TimerRecords /\ t \in TimerRecords /\ u.repeat = t.repeat
      BY <2>1, <2>2, <2>4 DEF TimerRecords
    <3>3. u.at \in Nat /\ u.id \in 0 .. TimerIdSpace - 1
          /\ t.at \in Nat /\ t.id \in 0 .. TimerIdSpace - 1
      BY <3>2, IndexFacts DEF TimerRecords
    <3>4. /\ u.at = u.handle \div TimerIdSpace /\ u.id = u.handle % TimerIdSpace
          /\ t.at = t.handle \div TimerIdSpace /\ t.id = t.handle % TimerIdSpace
      BY <2>2, <3>3, HandleParts
    <3> QED
      BY <3>1, <3>2, <3>4 DEF TimerRecords
  <2>5. timers' = timers \ {t}
    BY <1>1, <2>1, <2>4
  <2> QED
    BY <1>1, <2>1, <2>3, <2>5, TimerOverKept
<1> QED
  BY <1>2, <1>3

\* Every step of the pool is a step of each worker by its contract, or none.
LEMMA ContractStep ==
    ASSUME IInv, CountInv, RouteInv, FiringInv, OwedInv, [Next]_vars
    PROVE  \A i \in Indexes : Kept(i)
<1> SUFFICES ASSUME NEW i \in Indexes PROVE Kept(i)
  OBVIOUS
<1> USE DEF poolVars, workers, object, history, taskHistory, timerHistory
<1>0. TypeOK /\ CallInv
  BY DEF IInv
<1>1. ASSUME UNCHANGED <<stopped, thread, waiting, busy, owed, nextTimerId, timers, purged>>
      PROVE  Kept(i)
  BY <1>1, TimersFrame, WorkerFrame
<1>2. CASE UNCHANGED vars
  BY <1>1, <1>2 DEF vars
<1>3. ASSUME NEW c \in Callers,
             \/ \E op \in Ops : Choose(c, op)
             \/ Stop(c) \/ StopNext(c) \/ StopReturn(c)
      PROVE  Kept(i)
  BY <1>1, <1>3 DEF Choose, Stop, StopNext, StopReturn
<1>4. ASSUME NEW c \in Callers, AddTask(c) PROVE Kept(i)
  BY <1>4, AddTaskKept
<1>5. ASSUME NEW c \in Callers, NEW repeat \in BOOLEAN,
             pc[c].op \in {"delay", "repeat"}, AddTimer(c, repeat)
      PROVE  Kept(i)
  BY <1>0, <1>5, AddTimerKept
<1>6. ASSUME NEW c \in Callers, NEW handle \in repeats, PurgeTimerTask(c, handle)
      PROVE  Kept(i)
  BY <1>0, <1>6, PurgeKept
<1>7. ASSUME NEW c \in Callers, StopStore(c) PROVE Kept(i)
  BY <1>7, StopStoreKept
<1>8. CASE Start
  BY <1>8, StartKept
<1>9. CASE Wait \/ Destroy \/ DestroyWait
  BY <1>1, <1>9 DEF Wait, Destroy, DestroyWait
<1>10. CASE Join
  BY <1>0, <1>10, JoinKept
<1>11. CASE Clear
  BY <1>11, ClearKept
<1>12. ASSUME NEW k \in Indexes, Begin(k) \/ Finish(k) \/ Close(k) PROVE Kept(i)
  BY <1>12, RunKept
<1>13. ASSUME NEW k \in Indexes, EndTimer(k) PROVE Kept(i)
  BY <1>13, EndTimerKept
<1>14. ASSUME NEW k \in Indexes, BeginTimer(k) PROVE Kept(i)
  BY <1>1, <1>14 DEF BeginTimer
<1> QED
  BY <1>2, <1>3, <1>4, <1>5, <1>6, <1>7, <1>8, <1>9, <1>10, <1>11, <1>12, <1>13, <1>14
     DEF Next, Call, Proceed, OwnerProceed, AddDelayTask, AddRepeatTask, TakeUp,
         Complete, Gone, Ops

\* In an unused pool nobody owes anything, and every worker is a new one.
LEMMA InitContract == Init => OwedInv /\ FiringInv /\ \A i \in Indexes : Worker(i)!Init
<1> SUFFICES ASSUME Init PROVE OwedInv /\ FiringInv /\ \A i \in Indexes : Worker(i)!Init
  OBVIOUS
<1>1. OwedInv /\ FiringInv
  BY DEF Init, OwedInv, FiringInv
<1>2. ASSUME NEW i \in Indexes PROVE Worker(i)!Init
  <2>1. TimersAt(i) = {} /\ PurgedAt(i) = {} /\ owed \cap TasksOf(waiting[i]) = {}
    BY DEF Init, TimersAt, PurgedAt
  <2> QED
    BY <2>1 DEF Init, Worker!Init
<1> QED
  BY <1>1, <1>2

\* The pool asks nothing of a worker that its contract, which GeneralWorker
\* implements, does not allow: it starts it only while it is unused, hands it
\* tasks and timers under numbers of their own, sends it the purge requests
\* for its own ids, joins it when its loop has returned, and destroys it when
\* it owes nothing.
THEOREM WorkersAreContracts == Spec => WorkersKeepContract
<1> DEFINE I == IInv /\ CountInv /\ RouteInv /\ FiringInv /\ OwedInv
<1>1. Init => I
  BY InitInv, InitRoute, InitContract
<1>2. I /\ [Next]_vars => I'
  BY TypeStep, CallStep, StopStep, TaskStep, CountStep, RouteStep, FiringStep,
     OwedStep DEF IInv
<1>3. Spec => []I
  BY <1>1, <1>2, PTL DEF Spec
<1> SUFFICES ASSUME NEW i \in Indexes PROVE Spec => Worker(i)!Spec
  BY DEF WorkersKeepContract
<1>4. Init => Worker(i)!Init
  BY InitContract
<1>5. I /\ [Next]_vars => [Worker(i)!Next]_(Worker(i)!contractVars)
  BY ContractStep DEF Kept
<1> HIDE DEF I
<1> QED
  BY <1>3, <1>4, <1>5, PTL DEF Spec, Worker!Spec

=============================================================================
