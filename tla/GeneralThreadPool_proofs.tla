---------------------- MODULE GeneralThreadPool_proofs ----------------------
(***************************************************************************)
(* Proofs about GeneralThreadPool, for any number of clients, workers,     *)
(* submissions and starts.                                                 *)
(*                                                                         *)
(* The invariant has three parts besides the types: which workers have a   *)
(* thread and who may be inside a call (CallInv), how far the stop() calls *)
(* have come (StopInv), and what becomes of the tasks a stop() has to      *)
(* spare (TaskInv).                                                        *)
(***************************************************************************)
EXTENDS GeneralThreadPool, SequenceLemmas, TLAPS

Ops == {"task", "delay", "repeat"}

Stopping(c) == pc[c].op \in {"stop", "store"}

\* The part of TypeOK about the calls.
PcType ==
    /\ pc \in [Callers -> [op : AtWorker \cup {"idle", "stop", "wait"}, at : Nat]]
    /\ \A c \in Callers :
          /\ pc[c].at <= size
          /\ pc[c].op \in AtWorker => pc[c].at < size

\* Only the last worker may be without a thread, and only behind a start()
\* that failed, until wait() has joined those in front of it.
CallInv ==
    /\ \A i \in Indexes : busy[i] => thread[i] = "open" /\ waiting[i] # <<>>
    /\ \A i \in Indexes : firing[i] # {} => thread[i] = "open" /\ ~busy[i]
    /\ \A i \in Indexes : pc[i] # Idle => busy[i] \/ firing[i] # {}
    /\ \A i \in Indexes : thread[i] # "none" => i < size
    /\ \A i \in Indexes :
          i < size - 1 /\ (pc[Owner].op = "wait" => i >= pc[Owner].at)
              => thread[i] # "none"
    /\ pc[Owner].op = "wait" =>
          \A i \in Indexes : i < pc[Owner].at => thread[i] = "none"
    /\ \A c \in Callers : pc[c].op = "wait" => c = Owner
    /\ pc[Owner].op = "wait" \/ life # "alive" =>
          \A c \in Clients \ {Owner} : pc[c] = Idle
    /\ ready => size = nrThreads /\ nrThreads # 0

\* Behind the worker a stop() has reached every worker is stopped; a worker
\* that is not, behind one that is, has a stop() on its way to it.
StopInv ==
    /\ \A c \in Callers : Stopping(c) =>
          \A i \in Indexes : i < pc[c].at => stopped[i]
    /\ \A i, j \in Indexes : i < j /\ j < size /\ stopped[i] /\ ~stopped[j] =>
          \E c \in Callers : Stopping(c) /\ i < pc[c].at /\ pc[c].at <= j
    /\ stopCalled /\ size # 0 => stopped[0]

\* Tasks are numbered once.  A task a stop() has to spare is with a worker
\* that is not stopped, or is owed by the one it is with.
TaskInv ==
    /\ \A i \in Indexes : TasksOf(waiting[i]) \subseteq 1 .. submitted
    /\ \A i, j \in Indexes : i # j => TasksOf(waiting[i]) \cap TasksOf(waiting[j]) = {}
    /\ \A i \in Indexes : broken \cap TasksOf(waiting[i]) = {}
    /\ early \cup broken \subseteq 1 .. submitted
    /\ \A i \in Indexes : stopped[i] => early \cap TasksOf(waiting[i]) \subseteq owed
    /\ \A i \in Indexes : thread[i] # "open" =>
          stopped[i] /\ early \cap TasksOf(waiting[i]) = {}
    /\ StopDrainsPool

IInv == TypeOK /\ CallInv /\ StopInv /\ TaskInv

\* The workers of the vector are numbered like those of a larger one.
LEMMA IndexFacts ==
    /\ Indexes \subseteq Nat
    /\ \A n \in ThreadCounts : n \in Nat \ {0} /\ 0 .. n - 1 \subseteq Indexes
    /\ Owner \in Callers
    /\ Owner \in Clients
    /\ Callers = Clients \cup Indexes
    /\ Clients \cap Indexes = {}
BY PoolAssumption DEF Indexes, Callers

\* A remainder is a worker's number.
LEMMA Modulo ==
    ASSUME NEW n \in Nat, NEW k \in Nat \ {0}
    PROVE  n % k \in 0 .. k - 1
OBVIOUS

\* A queue to which something is appended is not empty.
LEMMA AppendIsNotEmpty ==
    ASSUME NEW q \in Seq(Nat), NEW task \in Nat
    PROVE  Append(q, task) # <<>>
<1>1. Len(Append(q, task)) = Len(q) + 1 /\ Len(q) \in Nat
  OBVIOUS
<1>2. Len(<<>>) = 0
  OBVIOUS
<1> QED
  BY <1>1, <1>2

\* A pool's id is a natural number.
LEMMA HandleType ==
    ASSUME NEW i \in Nat, NEW id \in Nat, TimerIdSpace \in Nat
    PROVE  Handle(i, id) \in Nat
<1>1. \A a, b \in Nat : a * b \in Nat
  OBVIOUS
<1> QED
  BY <1>1 DEF Handle

\* Tasks are natural numbers, in one queue and in several.
LEMMA TasksType ==
    ASSUME waiting \in [Indexes -> Seq(Nat)]
    PROVE  /\ \A i \in Indexes : TasksOf(waiting[i]) \subseteq Nat
           /\ Accepted(Indexes) \subseteq Nat
           /\ Accepted(Unstopped) \subseteq Nat
BY DEF Accepted, TasksOf, Unstopped

\* A caller may go wherever there is a worker.
LEMMA GotoType ==
    ASSUME PcType, size \in Nat, size' = size, NEW c \in Callers,
           NEW op \in AtWorker \cup {"idle", "stop", "wait"}, NEW at \in 0 .. size,
           op \in AtWorker => at < size, Goto(c, op, at)
    PROVE  PcType'
BY DEF Goto, PcType

\* A call that has chosen a worker finds it in the vector.
LEMMA WorkerOfCall ==
    ASSUME TypeOK, NEW c \in Callers, pc[c].op \in AtWorker
    PROVE  pc[c].at \in Indexes /\ pc[c].at < size
<1>1. pc[c].at \in 0 .. nrThreads - 1 /\ nrThreads \in ThreadCounts /\ pc[c].at < size
  BY IndexFacts DEF TypeOK
<1> QED
  BY <1>1, IndexFacts

\* Every place in the vector is a worker's number.
LEMMA VectorIndexes ==
    ASSUME TypeOK, NEW k \in Nat, k < size
    PROVE  k \in Indexes
<1>1. nrThreads \in ThreadCounts \cup {0} /\ size \in 0 .. nrThreads
  BY DEF TypeOK
<1>2. nrThreads # 0
  BY <1>1, IndexFacts
<1>3. nrThreads \in Nat /\ k \in 0 .. nrThreads - 1
  BY <1>1, <1>2, IndexFacts
<1> QED
  BY <1>1, <1>2, <1>3, IndexFacts

\* A pool that start() finds unused has no thread, and nobody is in a call.
LEMMA UnusedIsIdle ==
    ASSUME TypeOK, CallInv, OwnerMayAct, nrThreads = 0
    PROVE  /\ size = 0
           /\ \A i \in Indexes : thread[i] = "none" /\ ~busy[i] /\ firing[i] = {}
           /\ \A c \in Callers : pc[c] = Idle
<1>1. size = 0
  BY DEF TypeOK
<1>2. \A i \in Indexes : thread[i] = "none" /\ ~busy[i] /\ firing[i] = {}
  BY <1>1, IndexFacts DEF CallInv
<1>3. \A i \in Indexes : pc[i] = Idle
  BY <1>2 DEF CallInv
<1> QED
  BY <1>1, <1>2, <1>3, IndexFacts DEF OwnerMayAct

\* Once wait() has come to the end, every worker is joined.
LEMMA ClearedIsJoined ==
    ASSUME TypeOK, CallInv, pc[Owner].op = "wait", pc[Owner].at >= size
    PROVE  /\ \A i \in Indexes : thread[i] = "none" /\ ~busy[i] /\ firing[i] = {}
           /\ \A c \in Callers \ {Owner} : pc[c] = Idle
<1>1. size \in Int /\ pc[Owner].at \in Int
  BY IndexFacts DEF TypeOK
<1>2. \A i \in Indexes : thread[i] = "none"
  BY <1>1, IndexFacts DEF CallInv
<1>3. \A i \in Indexes : ~busy[i] /\ firing[i] = {} /\ pc[i] = Idle
  BY <1>2 DEF CallInv
<1> QED
  BY <1>2, <1>3, IndexFacts DEF CallInv

\* Every step keeps the types.
LEMMA TypeStep ==
    ASSUME TypeOK, CallInv, [Next]_vars
    PROVE  TypeOK'
<1> USE IndexFacts, PoolAssumption
    DEF TypeOK, AtWorker, poolVars, workers, object, history, taskHistory,
          timerHistory, Idle
<1>0. PcType /\ size \in Nat
  BY DEF PcType
<1>1. CASE UNCHANGED vars
  BY <1>1 DEF vars
<1>2. ASSUME NEW c \in Callers, NEW op \in Ops, Choose(c, op) PROVE TypeOK'
  <2>1. nextThread \in Nat /\ nrThreads \in Nat \ {0} /\ size = nrThreads
    BY <1>2 DEF Choose, MayCall, CallInv
  <2>2. nextThread % nrThreads \in 0 .. size - 1
    BY <2>1, Modulo
  <2>3. PICK k \in 0 .. size - 1 : Goto(c, op, k)
    BY <1>2, <2>1, <2>2 DEF Choose
  <2>4. PcType'
    BY <1>0, <1>2, <2>3, GotoType DEF Choose, Ops
  <2>5. nextThread' \in 0 .. MaxSubmits
    BY <1>2 DEF Choose
  <2> QED
    BY <1>2, <2>4, <2>5 DEF Choose, PcType
<1>3. ASSUME NEW c \in Callers, NEW handle \in repeats, PurgeTimerTask(c, handle)
      PROVE  TypeOK'
  BY <1>3 DEF PurgeTimerTask, MayCall
<1>4. ASSUME NEW c \in Callers, Stop(c) PROVE TypeOK'
  <2>1. early' \subseteq Nat
    BY <1>4, TasksType DEF Stop
  <2> QED
    BY <1>4, <2>1 DEF Stop, Goto
<1>5. ASSUME NEW c \in Callers, AddTask(c) PROVE TypeOK'
  <2>1. submitted' \in Nat /\ waiting' \in [Indexes -> Seq(Nat)]
    BY <1>5 DEF AddTask
  <2>2. PcType'
    BY <1>0, <1>5, GotoType DEF AddTask
  <2> QED
    BY <1>5, <2>1, <2>2 DEF AddTask, PcType
<1>6. ASSUME NEW c \in Callers, NEW repeat \in BOOLEAN,
             pc[c].op \in {"delay", "repeat"}, AddTimer(c, repeat)
      PROVE  TypeOK'
  <2>1. PICK i \in Indexes : i = pc[c].at /\ i < size
    BY <1>6, WorkerOfCall
  <2>2. PICK id \in 0 .. TimerIdSpace - 1 : id = nextTimerId[i] % TimerIdSpace
    BY Modulo
  <2>3. Handle(i, id) \in Nat
    <3>1. i \in Nat /\ id \in Nat /\ TimerIdSpace \in Nat
      OBVIOUS
    <3> QED
      BY <3>1, HandleType
  <2>4. timers' \subseteq TimerRecords /\ repeats' \cup delays' \subseteq Nat
    <3>1. [at |-> i, id |-> id, repeat |-> repeat, handle |-> Handle(i, id)] \in TimerRecords
      BY <2>3 DEF TimerRecords
    <3>2. /\ timers' = timers \cup
                 {[at |-> i, id |-> id, repeat |-> repeat, handle |-> Handle(i, id)]}
          /\ repeats' \subseteq repeats \cup {Handle(i, id)}
          /\ delays' \subseteq delays \cup {Handle(i, id)}
      BY <1>6, <2>1, <2>2 DEF AddTimer
    <3> QED
      BY <2>3, <3>1, <3>2
  <2>5. nextTimerId' \in [Indexes -> Nat]
    BY <1>6, <2>1 DEF AddTimer
  <2>6. PcType'
    BY <1>0, <1>6, GotoType DEF AddTimer
  <2> QED
    BY <1>6, <2>4, <2>5, <2>6 DEF AddTimer, PcType
<1>7. ASSUME NEW c \in Callers, StopNext(c) PROVE TypeOK'
  BY <1>7 DEF StopNext, Goto
<1>8. ASSUME NEW c \in Callers, StopStore(c) PROVE TypeOK'
  <2>1. PICK i \in Indexes : i = pc[c].at /\ i < size
    BY <1>8, WorkerOfCall DEF StopStore
  <2>2. owed' \subseteq Nat
    BY <1>8, <2>1, TasksType DEF StopStore
  <2>3. stopped' \in [Indexes -> BOOLEAN]
    BY <1>8, <2>1 DEF StopStore
  <2>4. PcType'
    <3>1. i + 1 \in 0 .. size /\ Goto(c, "stop", i + 1)
      BY <1>8, <2>1 DEF StopStore
    <3> QED
      BY <1>0, <1>8, <3>1, GotoType DEF StopStore
  <2> QED
    BY <1>8, <2>2, <2>3, <2>4 DEF StopStore, PcType
<1>9. ASSUME NEW c \in Callers, StopReturn(c) PROVE TypeOK'
  BY <1>9 DEF StopReturn, Goto
<1>10. CASE Start
  <2>1. PICK n \in ThreadCounts, up \in Int :
            /\ nrThreads' = n
            /\ size' \in 0 .. n
            /\ thread' = [i \in Indexes |-> IF i < up THEN "open" ELSE "none"]
            /\ stopped' = [i \in Indexes |-> i >= up]
            /\ ready' \in BOOLEAN
    <3>1. PICK n \in ThreadCounts, ok \in BOOLEAN :
              /\ nrThreads' = n
              /\ size' \in IF ok THEN {n} ELSE 1 .. n
              /\ LET up == IF ok THEN size' ELSE size' - 1
                 IN  /\ thread' = [i \in Indexes |-> IF i < up THEN "open" ELSE "none"]
                     /\ stopped' = [i \in Indexes |-> i >= up]
              /\ ready' = ok
      BY <1>10 DEF Start
    <3>2. size' \in 0 .. n /\ (IF ok THEN size' ELSE size' - 1) \in Int
      BY <3>1
    <3> HIDE DEF TypeOK
    <3> QED
      BY <3>1, <3>2
  <2>2. \A c \in Callers : pc'[c] = Idle
    BY <1>10, UnusedIsIdle DEF Start
  <2>3. PcType'
    BY <1>10, <2>1, <2>2 DEF Start, PcType
  <2>4. thread' \in [Indexes -> {"none", "open", "closed"}]
        /\ stopped' \in [Indexes -> BOOLEAN]
        /\ nextTimerId' \in [Indexes -> Nat]
    BY <1>10, <2>1 DEF Start
  <2>5. nrThreads' \in ThreadCounts /\ size' \in 0 .. nrThreads' /\ ready' \in BOOLEAN
        /\ starts' \in 0 .. MaxStarts
    BY <1>10, <2>1 DEF Start
  <2> QED
    BY <1>10, <2>3, <2>4, <2>5 DEF Start, PcType
<1>11. CASE Wait
  BY <1>11 DEF Wait, OwnerMayAct, Goto
<1>12. CASE Destroy
  <2>1. early' \subseteq Nat
    BY <1>12, TasksType DEF Destroy
  <2> QED
    BY <1>12, <2>1 DEF Destroy, Goto
<1>13. CASE Join
  <2>1. pc[Owner].at + 1 \in 0 .. size /\ size \in Nat
    BY <1>13 DEF Join
  <2>2. PcType'
    <3>1. PICK k \in 0 .. size : Goto(Owner, "wait", k)
      BY <1>13, <2>1 DEF Join
    <3> QED
      BY <1>0, <1>13, <3>1, GotoType DEF Join
  <2>3. thread' \in [Indexes -> {"none", "open", "closed"}]
    BY <1>13 DEF Join
  <2> QED
    BY <1>13, <2>2, <2>3 DEF Join, PcType
<1>14. CASE Clear
  <2>1. \A c \in Callers : pc'[c] = Idle
    BY <1>14, ClearedIsJoined DEF Clear, Goto
  <2>2. PcType'
    BY <1>14, <2>1 DEF Clear, Goto, PcType
  <2>3. broken' \subseteq Nat
    BY <1>14, TasksType DEF Clear
  <2>4. waiting' \in [Indexes -> Seq(Nat)]
    BY <1>14 DEF Clear
  <2>5. life' \in {"alive", "destroying", "destroyed"} /\ ready' \in BOOLEAN
    BY <1>14 DEF Clear
  <2>6. UNCHANGED <<done, owed, early, repeats, purged, delays, fired>>
    BY <1>14 DEF Clear
  <2>7. UNCHANGED <<nextThread, stopped, thread, busy, firing, nextTimerId, starts,
                    submitted, stopCalled>>
    BY <1>14 DEF Clear
  <2>8. nrThreads' \in ThreadCounts \cup {0} /\ size' \in 0 .. nrThreads'
        /\ timers' \subseteq TimerRecords
    <3>1. nrThreads' = 0 /\ size' = 0 /\ timers' = {}
      BY <1>14 DEF Clear
    <3> HIDE DEF TypeOK
    <3> QED
      BY <3>1
  <2>9. done' \cup broken' \cup owed' \cup early' \subseteq Nat
        /\ repeats' \cup purged' \cup delays' \cup fired' \subseteq Nat
    BY <2>3, <2>6
  <2> QED
    BY <2>2, <2>4, <2>5, <2>7, <2>8, <2>9 DEF PcType
<1>15. CASE DestroyWait
  BY <1>15 DEF DestroyWait, Goto
<1>16. ASSUME NEW i \in Indexes, Begin(i) PROVE TypeOK'
  BY <1>16 DEF Begin
<1>17. ASSUME NEW i \in Indexes, Finish(i) PROVE TypeOK'
  <2>1. Head(waiting[i]) \in Nat /\ Tail(waiting[i]) \in Seq(Nat)
    <3>1. waiting[i] \in Seq(Nat) /\ waiting[i] # <<>>
      BY <1>17 DEF Finish, CallInv
    <3> QED
      BY <3>1, HeadTail
  <2>2. waiting' \in [Indexes -> Seq(Nat)] /\ busy' \in [Indexes -> BOOLEAN]
    BY <1>17, <2>1 DEF Finish
  <2>3. done' \subseteq Nat
    BY <1>17, <2>1 DEF Finish
  <2> QED
    BY <1>17, <2>2, <2>3 DEF Finish
<1>18. ASSUME NEW i \in Indexes, EndTimer(i) PROVE TypeOK'
  <2>1. /\ timers' \subseteq TimerRecords /\ fired' \subseteq Nat
        /\ firing' \in [Indexes -> SUBSET Nat]
    BY <1>18 DEF EndTimer
  <2> QED
    BY <1>18, <2>1 DEF EndTimer
<1>19. ASSUME NEW i \in Indexes, Close(i) PROVE TypeOK'
  BY <1>19 DEF Close
<1>20. ASSUME NEW i \in Indexes, BeginTimer(i) PROVE TypeOK'
  <2>1. firing' \in [Indexes -> SUBSET Nat]
    BY <1>20 DEF BeginTimer
  <2> QED
    BY <1>20, <2>1 DEF BeginTimer
<1> HIDE DEF TypeOK
<1> QED
  BY <1>1, <1>2, <1>3, <1>4, <1>5, <1>6, <1>7, <1>8, <1>9, <1>10, <1>11, <1>12,
     <1>13, <1>14, <1>15, <1>16, <1>17, <1>18, <1>19, <1>20
     DEF Next, Call, Proceed, OwnerProceed, AddDelayTask, AddRepeatTask, TakeUp,
         Complete, Gone, Ops

\* A caller that goes on inside a call still has something to run in.
LEMMA InsideStays ==
    ASSUME PcType, CallInv, NEW c \in Callers, pc[c] # Idle,
           \E op, at : Goto(c, op, at), UNCHANGED <<busy, firing>>
    PROVE  \A i \in Indexes : pc'[i] # Idle => busy'[i] \/ firing'[i] # {}
<1>1. \A i \in Callers \ {c} : pc'[i] = pc[i]
  BY DEF Goto, PcType
<1> QED
  BY <1>1, IndexFacts DEF CallInv

\* Every step keeps the threads and the calls in order.
LEMMA CallStep ==
    ASSUME TypeOK, CallInv, [Next]_vars
    PROVE  CallInv'
<1> USE IndexFacts
    DEF TypeOK, CallInv, AtWorker, poolVars, workers, object, history, taskHistory,
          timerHistory, Idle
<1>0. PcType
  BY DEF PcType
<1>1. CASE UNCHANGED vars
  BY <1>1 DEF vars
<1>2. ASSUME NEW c \in Callers, NEW op \in Ops, Choose(c, op) PROVE CallInv'
  <2>1. PICK at : pc' = [pc EXCEPT ![c] = [op |-> op, at |-> at]]
    BY <1>2 DEF Choose, Goto
  <2>2. /\ UNCHANGED <<busy, firing, thread, waiting, size, nrThreads, life, ready>>
        /\ pc[c] = Idle /\ op # "wait"
    BY <1>2 DEF Choose, MayCall, Ops
  <2>3. c \in Clients => life = "alive" /\ pc[Owner].op # "wait"
    BY <1>2 DEF Choose, MayCall
  <2>4. c \in Indexes => busy[c] \/ firing[c] # {}
    BY <1>2 DEF Choose, MayCall
  <2>5. \A i \in Indexes : pc'[i] # Idle => busy'[i] \/ firing'[i] # {}
    BY <2>1, <2>2, <2>4
  <2> QED
    BY <2>1, <2>2, <2>3, <2>5
<1>3. ASSUME NEW c \in Callers, NEW handle \in repeats, PurgeTimerTask(c, handle)
      PROVE  CallInv'
  BY <1>3 DEF PurgeTimerTask, MayCall
<1>4. ASSUME NEW c \in Callers, Stop(c) PROVE CallInv'
  BY <1>4 DEF Stop, MayCall, Goto
<1>5. ASSUME NEW c \in Callers, AddTask(c) PROVE CallInv'
  <2>1. Append(waiting[pc[c].at], submitted + 1) # <<>>
    <3>1. waiting[pc[c].at] \in Seq(Nat) /\ submitted + 1 \in Nat
      BY <1>5, WorkerOfCall DEF AddTask
    <3> QED
      BY <3>1, AppendIsNotEmpty
  <2> QED
    BY <1>5, <2>1 DEF AddTask, Goto
<1>6. ASSUME NEW c \in Callers, NEW repeat \in BOOLEAN,
             pc[c].op \in {"delay", "repeat"}, AddTimer(c, repeat)
      PROVE  CallInv'
  BY <1>6 DEF AddTimer, Goto
<1>7. ASSUME NEW c \in Callers, StopNext(c) PROVE CallInv'
  <2>1. \A i \in Indexes : pc'[i] # Idle => busy'[i] \/ firing'[i] # {}
    <3>1. pc[c] # Idle /\ UNCHANGED <<busy, firing>> /\ \E op, at : Goto(c, op, at)
      BY <1>7 DEF StopNext
    <3> HIDE DEF TypeOK, CallInv, Idle
    <3> QED
      BY <1>0, <3>1, InsideStays
  <2>2. UNCHANGED firing
    BY <1>7 DEF StopNext
  <2> QED
    BY <1>7, <2>1, <2>2, SMTT(30) DEF StopNext, Goto
<1>8. ASSUME NEW c \in Callers, StopStore(c) PROVE CallInv'
  <2>1. \A i \in Indexes : pc'[i] # Idle => busy'[i] \/ firing'[i] # {}
    <3>1. pc[c] # Idle /\ UNCHANGED <<busy, firing>> /\ \E op, at : Goto(c, op, at)
      BY <1>8 DEF StopStore
    <3> HIDE DEF TypeOK, CallInv, Idle
    <3> QED
      BY <1>0, <3>1, InsideStays
  <2>2. UNCHANGED firing
    BY <1>8 DEF StopStore
  <2> QED
    BY <1>8, <2>1, <2>2, SMTT(30) DEF StopStore, Goto
<1>9. ASSUME NEW c \in Callers, StopReturn(c) PROVE CallInv'
  BY <1>9 DEF StopReturn, Goto
<1>10. CASE Start
  <2>1. PICK n \in ThreadCounts, ok \in BOOLEAN :
            /\ nrThreads' = n
            /\ size' \in IF ok THEN {n} ELSE 1 .. n
            /\ LET up == IF ok THEN size' ELSE size' - 1
               IN  thread' = [i \in Indexes |-> IF i < up THEN "open" ELSE "none"]
            /\ ready' = ok
    <3> HIDE DEF TypeOK, CallInv
    <3> QED
      BY <1>10 DEF Start
  <2>2. \A c \in Callers : pc'[c] = Idle
    BY <1>10, UnusedIsIdle DEF Start
  <2>3. \A i \in Indexes : ~busy'[i] /\ firing'[i] = {}
    BY <1>10, UnusedIsIdle DEF Start
  <2>4. life' = "alive"
    BY <1>10 DEF Start, OwnerMayAct
  <2>5. \A i \in Indexes : /\ thread'[i] # "none" => i < size'
                          /\ i < size' - 1 => thread'[i] # "none"
    BY <2>1
  <2> QED
    BY <2>1, <2>2, <2>3, <2>4, <2>5, SMTT(30)
<1>11. CASE Wait
  BY <1>11 DEF Wait, OwnerMayAct, Goto
<1>12. CASE Destroy
  BY <1>12 DEF Destroy, OwnerMayAct, Goto
<1>13. CASE Join
  <2> DEFINE k == pc[Owner].at
  <2>1. size \in Nat /\ k \in Nat /\ k < size /\ pc[Owner].op = "wait"
        /\ thread[k] # "open" /\ thread' = [thread EXCEPT ![k] = "none"]
    BY <1>13 DEF Join
  <2>2. /\ \A c \in Callers \ {Owner} : pc'[c] = pc[c]
        /\ pc'[Owner].op = "wait"
        /\ pc'[Owner].at = IF thread[k] = "none" THEN size ELSE k + 1
    BY <1>13 DEF Join, Goto
  <2>3. \A i \in Indexes : i < pc'[Owner].at => thread'[i] = "none"
    <3>1. \A i \in Indexes : i < k => thread[i] = "none"
      BY <2>1
    <3>2. \A i \in Indexes : k < i /\ i < size - 1 => thread[i] # "none"
      BY <2>1
    <3>3. thread[k] = "none" => k >= size - 1
      BY <2>1, IndexFacts
    <3>4. \A i \in Indexes : i < pc'[Owner].at => i <= k
      BY <2>1, <2>2, <3>3
    <3>5. \A i \in Indexes : thread'[i] = IF i = k THEN "none" ELSE thread[i]
      BY <2>1
    <3> SUFFICES ASSUME NEW i \in Indexes, i < pc'[Owner].at PROVE thread'[i] = "none"
      OBVIOUS
    <3>6. i = k \/ i < k
      BY <2>1, <3>4
    <3> HIDE DEF TypeOK, CallInv, k
    <3> QED
      BY <3>1, <3>5, <3>6
  <2>4. \A i \in Indexes : i < size - 1 /\ i >= pc'[Owner].at => thread'[i] # "none"
    BY <2>1, <2>2
  <2>5. UNCHANGED <<size, nrThreads, busy, firing, waiting, ready, life>>
    BY <1>13 DEF Join
  <2>6. \A i \in Indexes : /\ thread'[i] # "none" => thread[i] # "none"
                          /\ thread[i] = "open" => thread'[i] = "open"
    BY <2>1
  <2>7. /\ \A i \in Indexes : busy'[i] => thread'[i] = "open" /\ waiting'[i] # <<>>
        /\ \A i \in Indexes : firing'[i] # {} => thread'[i] = "open" /\ ~busy'[i]
        /\ \A i \in Indexes : thread'[i] # "none" => i < size'
    <3>1. ASSUME NEW i \in Indexes, busy'[i]
          PROVE  thread'[i] = "open" /\ waiting'[i] # <<>>
      BY <2>1, <2>5, <3>1
    <3>2. ASSUME NEW i \in Indexes, thread'[i] # "none" PROVE i < size'
      BY <2>1, <2>5, <3>2
    <3>3. ASSUME NEW i \in Indexes, firing'[i] # {}
          PROVE  thread'[i] = "open" /\ ~busy'[i]
      BY <2>1, <2>5, <3>3
    <3> QED
      BY <3>1, <3>2, <3>3
  <2>8. /\ \A i \in Indexes : pc'[i] # Idle => busy'[i] \/ firing'[i] # {}
        /\ \A c \in Callers : pc'[c].op = "wait" => c = Owner
        /\ \A c \in Clients \ {Owner} : pc'[c] = Idle
    <3>1. /\ \A i \in Indexes : pc[i] # Idle => busy[i] \/ firing[i] # {}
          /\ \A c \in Callers : pc[c].op = "wait" => c = Owner
          /\ \A c \in Clients \ {Owner} : pc[c] = Idle
      BY <2>1
    <3> HIDE DEF TypeOK, CallInv, Idle, k
    <3> QED
      BY <2>2, <2>5, <3>1
  <2> QED
    BY <2>2, <2>3, <2>4, <2>5, <2>7, <2>8
<1>14. CASE Clear
  <2>1. /\ \A i \in Indexes : thread'[i] = "none" /\ ~busy'[i] /\ firing'[i] = {}
        /\ \A c \in Callers : pc'[c] = Idle
    BY <1>14, ClearedIsJoined DEF Clear, Goto
  <2>2. ~ready' /\ size' = 0 /\ size' = nrThreads'
    BY <1>14 DEF Clear
  <2> HIDE DEF TypeOK
  <2> QED
    BY <2>1, <2>2
<1>15. CASE DestroyWait
  <2>1. \A i \in Indexes : pc'[i] # Idle => busy'[i] \/ firing'[i] # {}
    BY <1>15 DEF DestroyWait, Goto
  <2>2. UNCHANGED firing
    BY <1>15 DEF DestroyWait
  <2> QED
    BY <1>15, <2>1, <2>2 DEF DestroyWait, Goto
<1>16. ASSUME NEW i \in Indexes, Begin(i) PROVE CallInv'
  BY <1>16 DEF Begin, Resting
<1>17. ASSUME NEW i \in Indexes, Finish(i) PROVE CallInv'
  BY <1>17 DEF Finish
<1>18. ASSUME NEW i \in Indexes, EndTimer(i) PROVE CallInv'
  BY <1>18 DEF EndTimer
<1>19. ASSUME NEW i \in Indexes, Close(i) PROVE CallInv'
  BY <1>19 DEF Close, Resting
<1>20. ASSUME NEW i \in Indexes, BeginTimer(i) PROVE CallInv'
  BY <1>20 DEF BeginTimer, Resting
<1> HIDE DEF TypeOK, CallInv
<1> QED
  BY <1>1, <1>2, <1>3, <1>4, <1>5, <1>6, <1>7, <1>8, <1>9, <1>10, <1>11, <1>12,
     <1>13, <1>14, <1>15, <1>16, <1>17, <1>18, <1>19, <1>20
     DEF Next, Call, Proceed, OwnerProceed, AddDelayTask, AddRepeatTask, TakeUp,
         Complete, Gone, Ops

\* A step that leaves the workers' flags alone, and the calls of stop() but for
\* new ones, keeps the calls in order.
LEMMA StopFrame ==
    ASSUME StopInv, TypeOK, UNCHANGED <<stopped, size, stopCalled>>,
           \A c \in Callers : Stopping(c) => Stopping(c)' /\ pc'[c].at = pc[c].at,
           \A c \in Callers : Stopping(c)' =>
               pc'[c].at = 0 \/ (Stopping(c) /\ pc'[c].at = pc[c].at)
    PROVE  StopInv'
<1>1. \A c \in Callers : Stopping(c)' => \A i \in Indexes : i < pc'[c].at => stopped[i]
  BY IndexFacts DEF StopInv
<1>2. ASSUME NEW i \in Indexes, NEW j \in Indexes, i < j, j < size, stopped[i], ~stopped[j]
      PROVE  \E c \in Callers : Stopping(c)' /\ i < pc'[c].at /\ pc'[c].at <= j
  <2>1. PICK c \in Callers : Stopping(c) /\ i < pc[c].at /\ pc[c].at <= j
    BY <1>2 DEF StopInv
  <2> QED
    BY <2>1
<1> QED
  BY <1>1, <1>2 DEF StopInv

\* Such a step is one that takes a caller, not inside stop(), to a place that is
\* the start of stop() or outside.
LEMMA StopFrameGoto ==
    ASSUME StopInv, TypeOK, UNCHANGED <<stopped, size, stopCalled>>,
           NEW c \in Callers, ~Stopping(c), NEW op, NEW at,
           op \in {"stop", "store"} => at = 0, Goto(c, op, at)
    PROVE  StopInv'
<1>1. pc'[c] = [op |-> op, at |-> at] /\ \A d \in Callers \ {c} : pc'[d] = pc[d]
  BY DEF Goto, TypeOK
<1>2. \A d \in Callers : Stopping(d) => Stopping(d)' /\ pc'[d].at = pc[d].at
  BY <1>1 DEF Stopping
<1>3. \A d \in Callers : Stopping(d)' =>
          pc'[d].at = 0 \/ (Stopping(d) /\ pc'[d].at = pc[d].at)
  BY <1>1 DEF Stopping
<1> QED
  BY <1>2, <1>3, StopFrame

\* A stop() that finds a stopped worker may return: another one is on its way to
\* the workers behind that are not.
LEMMA StopReturnStep ==
    ASSUME TypeOK, StopInv, NEW c \in Callers, StopReturn(c)
    PROVE  StopInv'
<1> DEFINE k == pc[c].at
<1>1. k \in Nat /\ size \in Nat /\ k <= size /\ Stopping(c) /\ (k < size => stopped[k])
  BY DEF TypeOK, StopReturn, Stopping
<1>2. size # 0 => 0 \in Indexes
  BY <1>1, VectorIndexes
<1>3. k < size => k \in Indexes
  BY <1>1, VectorIndexes
<1>4. /\ stopped' = stopped /\ size' = size
      /\ \A d \in Callers \ {c} : pc'[d] = pc[d] /\ (Stopping(d)' <=> Stopping(d))
      /\ ~Stopping(c)'
  BY DEF StopReturn, Goto, TypeOK, Stopping, poolVars, workers
<1>5. size # 0 => stopped[0]
  <2>1. CASE k = 0
    BY <1>1, <2>1
  <2>2. CASE k # 0
    BY <1>1, <1>2, <2>2 DEF StopInv
  <2> QED
    BY <2>1, <2>2
<1>6. ASSUME NEW i \in Indexes, NEW j \in Indexes, i < j, j < size, stopped[i], ~stopped[j]
      PROVE  \E d \in Callers : Stopping(d)' /\ i < pc'[d].at /\ pc'[d].at <= j
  <2>1. PICK d \in Callers : Stopping(d) /\ i < pc[d].at /\ pc[d].at <= j
    BY <1>6 DEF StopInv
  <2>2. CASE d # c
    BY <1>4, <2>1, <2>2
  <2>3. CASE d = c
    <3>1. k \in Indexes /\ i < k /\ k < j /\ stopped[k]
      BY <1>1, <1>3, <1>6, <2>1, <2>3, IndexFacts
    <3>2. PICK e \in Callers : Stopping(e) /\ k < pc[e].at /\ pc[e].at <= j
      BY <1>6, <3>1 DEF StopInv
    <3>3. e # c /\ i < pc[e].at
      <4>1. pc[e].at \in Nat /\ i \in Nat
        BY IndexFacts DEF TypeOK
      <4> QED
        BY <1>1, <3>1, <3>2, <4>1
    <3> QED
      BY <1>4, <3>2, <3>3
  <2> QED
    BY <2>2, <2>3
<1>7. \A d \in Callers : Stopping(d)' => \A i \in Indexes : i < pc'[d].at => stopped'[i]
  BY <1>4 DEF StopInv
<1> HIDE DEF k
<1> QED
  BY <1>4, <1>5, <1>6, <1>7 DEF StopInv

\* A stop() that stops a worker goes on to the next one.
LEMMA StopStoreStep ==
    ASSUME TypeOK, StopInv, NEW c \in Callers, StopStore(c)
    PROVE  StopInv'
<1>1. PICK k \in Indexes : k = pc[c].at /\ k < size /\ k \in Nat
  BY WorkerOfCall, IndexFacts DEF StopStore, AtWorker
<1>2. /\ size' = size /\ stopCalled' = stopCalled
      /\ \A d \in Callers \ {c} : pc'[d] = pc[d] /\ (Stopping(d)' <=> Stopping(d))
      /\ Stopping(c) /\ Stopping(c)' /\ pc'[c].at = k + 1
  BY <1>1 DEF StopStore, Goto, TypeOK, Stopping, poolVars
<1>3. /\ stopped'[k]
      /\ \A i \in Indexes : stopped[i] => stopped'[i]
      /\ \A i \in Indexes : stopped'[i] => stopped[i] \/ i = k
  BY <1>1 DEF StopStore, TypeOK
<1>4. ASSUME NEW i \in Indexes, NEW j \in Indexes, i < j, j < size, stopped'[i], ~stopped'[j]
      PROVE  \E d \in Callers : Stopping(d)' /\ i < pc'[d].at /\ pc'[d].at <= j
  <2>1. i \in Nat /\ j \in Nat /\ j # k
    BY <1>3, <1>4, IndexFacts
  <2>2. CASE i = k
    BY <1>2, <1>4, <2>1, <2>2
  <2>3. CASE stopped[i]
    <3>1. PICK d \in Callers : Stopping(d) /\ i < pc[d].at /\ pc[d].at <= j
      BY <1>3, <1>4, <2>3 DEF StopInv
    <3>2. CASE d # c
      BY <1>2, <3>1, <3>2
    <3>3. CASE d = c
      <4>1. i < k + 1 /\ k + 1 <= j
        BY <1>1, <2>1, <3>1, <3>3
      <4> QED
        BY <1>2, <4>1
    <3> QED
      BY <3>2, <3>3
  <2> QED
    BY <1>3, <1>4, <2>2, <2>3
<1>5. ASSUME NEW d \in Callers, Stopping(d)', NEW i \in Indexes, i < pc'[d].at
      PROVE  stopped'[i]
  <2>1. CASE d # c
    BY <1>2, <1>3, <1>5, <2>1 DEF StopInv
  <2>2. CASE d = c
    <3>1. i = k \/ i < k
      BY <1>1, <1>2, <1>5, <2>2, IndexFacts
    <3>2. i < k => stopped[i]
      BY <1>1, <1>2 DEF StopInv
    <3> QED
      BY <1>3, <3>1, <3>2
  <2> QED
    BY <2>1, <2>2
<1>6. stopCalled' /\ size' # 0 => stopped'[0]
  <2>1. 0 \in Indexes
    <3>1. 0 < size
      BY <1>1 DEF TypeOK
    <3> QED
      BY <3>1, VectorIndexes
  <2> QED
    BY <1>2, <1>3, <2>1 DEF StopInv
<1> QED
  BY <1>2, <1>4, <1>5, <1>6 DEF StopInv

\* Every step keeps the stop() calls in order.
LEMMA StopStep ==
    ASSUME TypeOK, CallInv, StopInv, [Next]_vars
    PROVE  StopInv'
<1> USE IndexFacts
    DEF poolVars, workers, object, history, taskHistory, timerHistory, Idle
<1>1. CASE UNCHANGED vars
  BY <1>1 DEF vars, StopInv, Stopping
<1>2. ASSUME NEW c \in Callers, NEW op \in Ops, Choose(c, op) PROVE StopInv'
  BY <1>2, StopFrameGoto DEF Choose, MayCall, Stopping, Ops
<1>3. ASSUME NEW c \in Callers, NEW handle \in repeats, PurgeTimerTask(c, handle)
      PROVE  StopInv'
  BY <1>3 DEF PurgeTimerTask, StopInv, Stopping
<1>4. ASSUME NEW c \in Callers, Stop(c) PROVE StopInv'
  BY <1>4, StopFrameGoto DEF Stop, MayCall, Stopping
<1>5. ASSUME NEW c \in Callers, AddTask(c) PROVE StopInv'
  BY <1>5, StopFrameGoto DEF AddTask, Stopping
<1>6. ASSUME NEW c \in Callers, NEW repeat \in BOOLEAN,
             pc[c].op \in {"delay", "repeat"}, AddTimer(c, repeat)
      PROVE  StopInv'
  BY <1>6, StopFrameGoto DEF AddTimer, Stopping
<1>7. ASSUME NEW c \in Callers, StopNext(c) PROVE StopInv'
  <2>1. /\ pc'[c] = [op |-> "store", at |-> pc[c].at]
        /\ \A d \in Callers \ {c} : pc'[d] = pc[d]
        /\ Stopping(c)
    BY <1>7 DEF StopNext, Goto, TypeOK, Stopping
  <2>2. \A d \in Callers : (Stopping(d)' <=> Stopping(d)) /\ pc'[d].at = pc[d].at
    BY <2>1 DEF Stopping
  <2> QED
    BY <1>7, <2>2, StopFrame DEF StopNext
<1>8. ASSUME NEW c \in Callers, StopStore(c) PROVE StopInv'
  BY <1>8, StopStoreStep
<1>9. ASSUME NEW c \in Callers, StopReturn(c) PROVE StopInv'
  BY <1>9, StopReturnStep
<1>10. CASE Start
  <2>1. \A c \in Callers : ~Stopping(c)'
    BY <1>10, UnusedIsIdle DEF Start, Stopping
  <2>2. PICK up \in Int : stopped' = [i \in Indexes |-> i >= up]
    <3>1. PICK n \in ThreadCounts, ok \in BOOLEAN :
              /\ size' \in IF ok THEN {n} ELSE 1 .. n
              /\ stopped' = [i \in Indexes |-> i >= IF ok THEN size' ELSE size' - 1]
      BY <1>10 DEF Start
    <3>2. (IF ok THEN size' ELSE size' - 1) \in Int
      BY <3>1
    <3> QED
      BY <3>1, <3>2
  <2>3. ASSUME NEW i \in Indexes, NEW j \in Indexes, i < j, stopped'[i]
        PROVE  stopped'[j]
    <3>1. i \in Nat /\ j \in Nat /\ i >= up
      BY <2>2, <2>3
    <3>2. j >= up
      BY <2>3, <3>1
    <3> QED
      BY <2>2, <3>2
  <2>4. ~stopCalled'
    BY <1>10 DEF Start
  <2> QED
    BY <2>1, <2>3, <2>4 DEF StopInv
<1>11. CASE Wait
  BY <1>11, StopFrameGoto DEF Wait, OwnerMayAct, Stopping
<1>12. CASE Destroy
  BY <1>12, StopFrameGoto DEF Destroy, OwnerMayAct, Stopping
<1>13. CASE Join
  <2>1. PICK k : Goto(Owner, "wait", k)
    BY <1>13 DEF Join
  <2> QED
    BY <1>13, <2>1, StopFrameGoto DEF Join, Stopping
<1>14. CASE Clear
  <2>1. \A c \in Callers : ~Stopping(c)'
    BY <1>14, ClearedIsJoined DEF Clear, Goto, TypeOK, Stopping
  <2>2. size' = 0
    BY <1>14 DEF Clear
  <2> QED
    BY <2>1, <2>2 DEF StopInv
<1>15. CASE DestroyWait
  BY <1>15, StopFrameGoto DEF DestroyWait, Stopping
<1>16. ASSUME NEW i \in Indexes, TakeUp(i) \/ BeginTimer(i) \/ Complete(i)
       PROVE  StopInv'
  <2>1. UNCHANGED <<stopped, size, stopCalled, pc>>
    BY <1>16 DEF TakeUp, Begin, Close, BeginTimer, Complete, Finish,
      EndTimer
  <2> QED
    BY <2>1 DEF StopInv, Stopping
<1> QED
  BY <1>1, <1>2, <1>3, <1>4, <1>5, <1>6, <1>7, <1>8, <1>9, <1>10, <1>11, <1>12,
     <1>13, <1>14, <1>15, <1>16
     DEF Next, Call, Proceed, OwnerProceed, AddDelayTask, AddRepeatTask, TakeUp,
         Complete, Gone, Ops

\* What the two ends of a queue do to the tasks in it.
LEMMA TasksOfAppend ==
    ASSUME NEW q \in Seq(Nat), NEW task \in Nat
    PROVE  TasksOf(Append(q, task)) = TasksOf(q) \cup {task}
<1>1. /\ Append(q, task) \in Seq(Nat)
      /\ DOMAIN Append(q, task) = 1 .. Len(q) + 1
      /\ DOMAIN q = 1 .. Len(q)
      /\ Len(q) \in Nat
      /\ \A n \in 1 .. Len(q) : Append(q, task)[n] = q[n]
      /\ Append(q, task)[Len(q) + 1] = task
  OBVIOUS
<1>2. \A n \in 1 .. Len(q) + 1 : n \in 1 .. Len(q) \/ n = Len(q) + 1
  BY <1>1
<1>3. Len(q) + 1 \in 1 .. Len(q) + 1 /\ \A n \in 1 .. Len(q) : n \in 1 .. Len(q) + 1
  BY <1>1
<1> QED
  BY <1>1, <1>2, <1>3 DEF TasksOf

\* Removing the head of a queue adds no task.
LEMMA TasksOfTail ==
    ASSUME NEW q \in Seq(Nat), q # <<>>
    PROVE  TasksOf(Tail(q)) \subseteq TasksOf(q)
<1>1. /\ DOMAIN Tail(q) = 1 .. Len(q) - 1
      /\ DOMAIN q = 1 .. Len(q)
      /\ Len(q) \in Nat
      /\ \A n \in 1 .. Len(q) - 1 : Tail(q)[n] = q[n + 1] /\ n + 1 \in 1 .. Len(q)
  OBVIOUS
<1> QED
  BY <1>1 DEF TasksOf

\* An empty queue has no task.
LEMMA TasksOfEmpty == TasksOf(<<>>) = {}
<1>1. DOMAIN <<>> = {}
  OBVIOUS
<1> QED
  BY <1>1 DEF TasksOf

\* A step that adds no task to a queue and none to a stop()'s account keeps
\* what becomes of the tasks in order, if a worker it leaves without a loop is
\* stopped and spares nothing.
LEMMA TaskFrame ==
    ASSUME TypeOK, TaskInv,
           UNCHANGED <<early, broken, owed, stopped, submitted>>,
           \A i \in Indexes : TasksOf(waiting'[i]) \subseteq TasksOf(waiting[i]),
           \A i \in Indexes : thread'[i] # "open" =>
               thread[i] # "open" \/ (stopped[i] /\ owed \cap TasksOf(waiting[i]) = {})
    PROVE  TaskInv'
<1>1. /\ \A i \in Indexes : TasksOf(waiting'[i]) \subseteq 1 .. submitted
      /\ \A i, j \in Indexes : i # j => TasksOf(waiting'[i]) \cap TasksOf(waiting'[j]) = {}
      /\ \A i \in Indexes : broken \cap TasksOf(waiting'[i]) = {}
      /\ \A i \in Indexes : stopped[i] => early \cap TasksOf(waiting'[i]) \subseteq owed
  BY DEF TaskInv
<1>2. ASSUME NEW i \in Indexes, thread'[i] # "open"
      PROVE  stopped[i] /\ early \cap TasksOf(waiting'[i]) = {}
  BY <1>2 DEF TaskInv
<1> QED
  BY <1>1, <1>2 DEF TaskInv, StopDrainsPool

\* What a stop() finds with workers not yet stopped is not broken, and not with
\* a worker that is.
LEMMA EarlyStep ==
    ASSUME TypeOK, TaskInv, early' = early \cup Accepted(Unstopped),
           UNCHANGED <<waiting, broken, owed, stopped, submitted, thread>>
    PROVE  TaskInv'
<1> DEFINE new == Accepted(Unstopped)
<1>1. \A task \in new : \E j \in Indexes : ~stopped[j] /\ task \in TasksOf(waiting[j])
  BY DEF Accepted, Unstopped
<1>2. new \subseteq 1 .. submitted /\ new \cap broken = {}
  BY <1>1 DEF TaskInv
<1>3. ASSUME NEW i \in Indexes, stopped[i] PROVE new \cap TasksOf(waiting[i]) = {}
  BY <1>1, <1>3 DEF TaskInv
<1>4. early' = early \cup new
  OBVIOUS
<1> HIDE DEF new
<1>5. early' \cup broken' \subseteq 1 .. submitted /\ early' \cap broken' = {}
  BY <1>2, <1>4 DEF TaskInv, StopDrainsPool
<1>6. \A i \in Indexes : stopped[i] => early' \cap TasksOf(waiting[i]) \subseteq owed
  BY <1>3, <1>4 DEF TaskInv
<1>7. ASSUME NEW i \in Indexes, thread[i] # "open"
      PROVE  stopped[i] /\ early' \cap TasksOf(waiting[i]) = {}
  BY <1>3, <1>4, <1>7 DEF TaskInv
<1> QED
  BY <1>5, <1>6, <1>7 DEF TaskInv, StopDrainsPool

\* A task a worker accepts has a new number.
LEMMA AddTaskStep ==
    ASSUME TypeOK, TaskInv, NEW c \in Callers, AddTask(c)
    PROVE  TaskInv'
<1>1. PICK k \in Indexes : k = pc[c].at
  BY WorkerOfCall DEF AddTask, AtWorker
<1> DEFINE new == submitted + 1
<1>2. new \in Nat /\ submitted \in Nat /\ new \notin 1 .. submitted
      /\ 1 .. submitted \subseteq 1 .. new /\ new \in 1 .. new
  BY DEF TypeOK
<1>3. /\ submitted' = new
      /\ UNCHANGED <<early, broken, owed, stopped, thread>>
      /\ \A i \in Indexes \ {k} : waiting'[i] = waiting[i]
      /\ waiting'[k] = Append(waiting[k], new)
  BY <1>1 DEF AddTask, TypeOK
<1> HIDE DEF new
<1>4. /\ TasksOf(waiting'[k]) = TasksOf(waiting[k]) \cup {new}
      /\ \A i \in Indexes \ {k} : TasksOf(waiting'[i]) = TasksOf(waiting[i])
  BY <1>2, <1>3, TasksOfAppend DEF TypeOK
<1>5. /\ \A i \in Indexes : new \notin TasksOf(waiting[i])
      /\ new \notin early \cup broken
  <2>1. /\ \A i \in Indexes : TasksOf(waiting[i]) \subseteq 1 .. submitted
        /\ early \cup broken \subseteq 1 .. submitted
    BY DEF TaskInv
  <2> QED
    BY <1>2, <2>1
<1>6. \A i \in Indexes : TasksOf(waiting'[i]) \subseteq 1 .. submitted'
  <2>1. \A i \in Indexes : TasksOf(waiting[i]) \subseteq 1 .. new
    BY <1>2 DEF TaskInv
  <2>2. \A i \in Indexes : TasksOf(waiting'[i]) \subseteq 1 .. new
    BY <1>2, <1>4, <2>1
  <2> QED
    BY <1>3, <2>2
<1>7. \A i, j \in Indexes : i # j => TasksOf(waiting'[i]) \cap TasksOf(waiting'[j]) = {}
  BY <1>4, <1>5 DEF TaskInv
<1>8. \A i \in Indexes : /\ early \cap TasksOf(waiting'[i]) = early \cap TasksOf(waiting[i])
                         /\ broken \cap TasksOf(waiting'[i]) = {}
  BY <1>4, <1>5 DEF TaskInv
<1>9. early \cup broken \subseteq 1 .. submitted'
  BY <1>2, <1>3 DEF TaskInv
<1> QED
  BY <1>3, <1>6, <1>7, <1>8, <1>9 DEF TaskInv, StopDrainsPool

\* A worker that is stopped owes what it has accepted.
LEMMA OweStep ==
    ASSUME TypeOK, TaskInv, NEW c \in Callers, StopStore(c)
    PROVE  TaskInv'
<1>1. PICK k \in Indexes : k = pc[c].at
  BY WorkerOfCall DEF StopStore, AtWorker
<1>2. /\ UNCHANGED <<early, broken, waiting, submitted, thread>>
      /\ \A i \in Indexes : stopped[i] => stopped'[i]
      /\ \A i \in Indexes : stopped'[i] => stopped[i] \/ i = k
      /\ owed \subseteq owed'
      /\ ~stopped[k] => TasksOf(waiting[k]) \subseteq owed'
  BY <1>1 DEF StopStore, TypeOK
<1>3. \A i \in Indexes : stopped'[i] => early \cap TasksOf(waiting[i]) \subseteq owed'
  BY <1>2 DEF TaskInv
<1>4. \A i \in Indexes : thread[i] # "open" =>
          stopped'[i] /\ early \cap TasksOf(waiting[i]) = {}
  BY <1>2 DEF TaskInv
<1> QED
  BY <1>2, <1>3, <1>4 DEF TaskInv, StopDrainsPool

\* When the workers are destroyed none has a task left that a stop() has to
\* spare.
LEMMA ClearStep ==
    ASSUME TypeOK, CallInv, TaskInv, Clear
    PROVE  TaskInv'
<1>1. \A i \in Indexes : stopped[i] /\ early \cap TasksOf(waiting[i]) = {}
  BY ClearedIsJoined DEF Clear, TaskInv
<1>2. /\ UNCHANGED <<early, owed, stopped, submitted, thread>>
      /\ broken' = broken \cup Accepted(Indexes)
      /\ \A i \in Indexes : waiting'[i] = <<>>
  BY DEF Clear
<1>3. \A i \in Indexes : TasksOf(waiting'[i]) = {}
  BY <1>2, TasksOfEmpty
<1>4. early \cap Accepted(Indexes) = {} /\ Accepted(Indexes) \subseteq 1 .. submitted
  BY <1>1 DEF Accepted, TaskInv
<1>5. early' \cap broken' = {} /\ early' \cup broken' \subseteq 1 .. submitted
  BY <1>2, <1>4 DEF TaskInv, StopDrainsPool
<1> QED
  BY <1>1, <1>2, <1>3, <1>5 DEF TaskInv, StopDrainsPool

\* Every step keeps what becomes of the tasks in order.
LEMMA TaskStep ==
    ASSUME TypeOK, CallInv, TaskInv, [Next]_vars
    PROVE  TaskInv'
<1> USE DEF poolVars, workers, object, history, taskHistory, timerHistory
<1>1. ASSUME UNCHANGED <<early, broken, owed, stopped, submitted, waiting, thread>>
      PROVE  TaskInv'
  BY <1>1, TaskFrame
<1>2. CASE UNCHANGED vars
  BY <1>1, <1>2 DEF vars
<1>3. ASSUME NEW c \in Callers, NEW op \in Ops, Choose(c, op) PROVE TaskInv'
  BY <1>1, <1>3 DEF Choose
<1>4. ASSUME NEW c \in Callers, NEW handle \in repeats, PurgeTimerTask(c, handle)
      PROVE  TaskInv'
  BY <1>1, <1>4 DEF PurgeTimerTask
<1>5. ASSUME NEW c \in Callers, Stop(c) PROVE TaskInv'
  BY <1>5, EarlyStep DEF Stop
<1>6. ASSUME NEW c \in Callers, AddTask(c) PROVE TaskInv'
  BY <1>6, AddTaskStep
<1>7. ASSUME NEW c \in Callers, NEW repeat \in BOOLEAN, AddTimer(c, repeat)
      PROVE  TaskInv'
  BY <1>1, <1>7 DEF AddTimer
<1>8. ASSUME NEW c \in Callers, StopNext(c) \/ StopReturn(c) PROVE TaskInv'
  BY <1>1, <1>8 DEF StopNext, StopReturn
<1>9. ASSUME NEW c \in Callers, StopStore(c) PROVE TaskInv'
  BY <1>9, OweStep
<1>10. CASE Start
  <2>1. \A i \in Indexes : stopped[i] /\ early \cap TasksOf(waiting[i]) = {}
    BY <1>10, UnusedIsIdle DEF Start, TaskInv
  <2>2. UNCHANGED <<early, broken, owed, submitted, waiting>>
    BY <1>10 DEF Start
  <2>3. \A i \in Indexes : thread'[i] # "open" => stopped'[i]
    <3>1. PICK up : /\ thread' = [i \in Indexes |-> IF i < up THEN "open" ELSE "none"]
                    /\ stopped' = [i \in Indexes |-> i >= up]
                    /\ up \in Int
      <4>1. PICK n \in ThreadCounts, ok \in BOOLEAN :
                /\ size' \in IF ok THEN {n} ELSE 1 .. n
                /\ LET up == IF ok THEN size' ELSE size' - 1
                   IN  /\ thread' = [i \in Indexes |-> IF i < up THEN "open" ELSE "none"]
                       /\ stopped' = [i \in Indexes |-> i >= up]
        BY <1>10 DEF Start
      <4>2. (IF ok THEN size' ELSE size' - 1) \in Int
        BY <4>1, IndexFacts
      <4> QED
        BY <4>1, <4>2
    <3>2. ASSUME NEW i \in Indexes, thread'[i] # "open" PROVE stopped'[i]
      <4>1. i \in Nat /\ ~ (i < up)
        BY <3>1, <3>2, IndexFacts
      <4>2. i >= up
        BY <3>1, <4>1
      <4> QED
        BY <3>1, <4>2
    <3> QED
      BY <3>2
  <2> QED
    BY <2>1, <2>2, <2>3 DEF TaskInv, StopDrainsPool
<1>11. CASE Wait
  BY <1>1, <1>11 DEF Wait
<1>12. CASE Destroy
  BY <1>12, EarlyStep DEF Destroy
<1>13. CASE Join
  <2>1. \A i \in Indexes : thread'[i] # "open" => thread[i] # "open"
    BY <1>13 DEF Join, TypeOK
  <2> QED
    BY <1>13, <2>1, TaskFrame DEF Join
<1>14. CASE Clear
  BY <1>14, ClearStep
<1>15. CASE DestroyWait
  BY <1>1, <1>15 DEF DestroyWait
<1>16. ASSUME NEW i \in Indexes, Begin(i) PROVE TaskInv'
  BY <1>1, <1>16 DEF Begin
<1>17. ASSUME NEW i \in Indexes, Finish(i) PROVE TaskInv'
  <2>1. TasksOf(Tail(waiting[i])) \subseteq TasksOf(waiting[i])
    BY <1>17, TasksOfTail DEF Finish, CallInv, TypeOK
  <2>2. \A j \in Indexes : TasksOf(waiting'[j]) \subseteq TasksOf(waiting[j])
    BY <1>17, <2>1 DEF Finish, TypeOK
  <2> QED
    BY <1>17, <2>2, TaskFrame DEF Finish
<1>18. ASSUME NEW i \in Indexes, BeginTimer(i) \/ EndTimer(i) PROVE TaskInv'
  BY <1>1, <1>18 DEF BeginTimer, EndTimer
<1>19. ASSUME NEW i \in Indexes, Close(i) PROVE TaskInv'
  <2>1. \A j \in Indexes : thread'[j] # "open" =>
            thread[j] # "open" \/ (stopped[j] /\ owed \cap TasksOf(waiting[j]) = {})
    BY <1>19 DEF Close, TypeOK
  <2> QED
    BY <1>19, <2>1, TaskFrame DEF Close
<1> QED
  BY <1>2, <1>3, <1>4, <1>5, <1>6, <1>7, <1>8, <1>9, <1>10, <1>11, <1>12, <1>13,
     <1>14, <1>15, <1>16, <1>17, <1>18, <1>19
     DEF Next, Call, Proceed, OwnerProceed, AddDelayTask, AddRepeatTask, TakeUp,
         Complete, Gone, Ops

\* The invariant holds in an unused pool.
LEMMA InitInv == Init => IInv
<1> SUFFICES ASSUME Init PROVE IInv
  OBVIOUS
<1>1. TypeOK
  <2>1. firing \in [Indexes -> SUBSET Nat] /\ stopped \in [Indexes -> BOOLEAN]
        /\ thread \in [Indexes -> {"none", "open", "closed"}]
        /\ waiting \in [Indexes -> Seq(Nat)] /\ busy \in [Indexes -> BOOLEAN]
        /\ nextTimerId \in [Indexes -> Nat]
    BY DEF Init
  <2>2. PcType
    BY DEF Init, PcType, Idle, AtWorker
  <2>3. /\ nrThreads = 0 /\ size = 0 /\ nextThread \in 0 .. MaxSubmits
        /\ starts \in 0 .. MaxStarts /\ submitted \in Nat /\ timers = {}
    BY PoolAssumption DEF Init
  <2>4. /\ ready \in BOOLEAN /\ life \in {"alive", "destroying", "destroyed"}
        /\ stopCalled \in BOOLEAN
        /\ done \cup broken \cup owed \cup early \subseteq Nat
        /\ repeats \cup purged \cup delays \cup fired \subseteq Nat
    BY DEF Init
  <2>5. size \in 0 .. nrThreads /\ nrThreads \in ThreadCounts \cup {0}
        /\ timers \subseteq TimerRecords
    BY <2>3
  <2> QED
    BY <2>1, <2>2, <2>3, <2>4, <2>5 DEF TypeOK, PcType
<1>2. CallInv
  BY IndexFacts DEF Init, CallInv, Idle
<1>3. StopInv
  BY DEF Init, StopInv, Stopping, Idle
<1>4. TaskInv
  <2>1. \A i \in Indexes : TasksOf(waiting[i]) = {}
    BY TasksOfEmpty DEF Init
  <2> QED
    BY <2>1 DEF Init, TaskInv, StopDrainsPool
<1> QED
  BY <1>1, <1>2, <1>3, <1>4 DEF IInv

\* The invariant of the pool.
THEOREM Invariance == Spec => []IInv
<1>1. IInv /\ [Next]_vars => IInv'
  BY TypeStep, CallStep, StopStep, TaskStep DEF IInv
<1> QED
  BY <1>1, InitInv, PTL DEF Spec

\* Every variable keeps its type: in particular a call that has chosen a worker
\* finds it in m_pool, whatever stop() and wait() do in the meantime.
THEOREM TypeCorrect == Spec => []TypeOK
<1>1. IInv => TypeOK
  BY DEF IInv
<1> QED
  BY <1>1, Invariance, PTL

\* While a worker has a thread the pool has that worker in its vector and counts
\* its threads: a task may call the pool even while wait() is under way.
THEOREM PoolOutlives == Spec => []PoolOutlivesItsTasks
<1>1. IInv => PoolOutlivesItsTasks
  <2> SUFFICES ASSUME IInv, NEW i \in Indexes, thread[i] # "none"
               PROVE  nrThreads # 0 /\ i < size
    BY DEF PoolOutlivesItsTasks
  <2>1. i < size /\ i \in Nat
    BY IndexFacts DEF IInv, CallInv
  <2>2. size \in 0 .. nrThreads
    BY DEF IInv, TypeOK
  <2> QED
    BY <2>1, <2>2
<1> QED
  BY <1>1, Invariance, PTL

\* The calls of stop() together stop every worker, however they overtake each
\* other: none returns before the workers behind it are stopped or another call
\* is on its way to them.
THEOREM StopReaches == Spec => []StopReachesEveryWorker
<1>1. IInv => StopReachesEveryWorker
  <2> SUFFICES ASSUME IInv, stopCalled, \A c \in Callers : ~Stopping(c),
                      NEW i \in Indexes, i < size
               PROVE  stopped[i]
    BY DEF StopReachesEveryWorker, Stopping
  <2>1. i \in Nat /\ size \in Nat /\ size # 0
    BY IndexFacts DEF IInv, TypeOK
  <2>2. stopped[0] /\ 0 \in Indexes
    BY <2>1, VectorIndexes DEF IInv, StopInv
  <2>3. CASE i = 0
    BY <2>2, <2>3
  <2>4. CASE 0 < i
    BY <2>2, <2>4 DEF IInv, StopInv
  <2> QED
    BY <2>1, <2>3, <2>4
<1> QED
  BY <1>1, Invariance, PTL

\* stop() and wait() drain the pool: no task that was with a worker not yet
\* stopped when somebody called stop() is destroyed unrun.
THEOREM StopDrains == Spec => []StopDrainsPool
<1>1. IInv => StopDrainsPool
  BY DEF IInv, TaskInv
<1> QED
  BY <1>1, Invariance, PTL

-----------------------------------------------------------------------------
(* What wait() waits for.                                                  *)

\* The owner is in wait(), or a destructor is that has left stop(), only after
\* a stop() that returned, if there is a worker at all.
WaitInv ==
    pc[Owner].op = "wait" \/ (life # "alive" /\ ~Stopping(Owner))
        => stopCalled \/ size = 0

\* Every step keeps it: wait() begins after stop() only, the destructor after its own.
LEMMA WaitStep ==
    ASSUME TypeOK, CallInv, WaitInv, [Next]_vars
    PROVE  WaitInv'
<1> USE IndexFacts
    DEF poolVars, workers, object, history, taskHistory, timerHistory, Idle
<1>1. ASSUME UNCHANGED <<pc, life, stopCalled, size>> PROVE WaitInv'
  BY <1>1 DEF WaitInv, Stopping
<1>2. ASSUME NEW c \in Callers, NEW op, NEW at, Goto(c, op, at),
             UNCHANGED <<life, stopCalled, size>>,
             c = Owner => /\ op = "wait" => pc[c].op = "wait"
                          /\ op \notin {"stop", "store"} => ~Stopping(c) \/ op = "wait"
      PROVE  WaitInv'
  <2>1. /\ pc'[c] = [op |-> op, at |-> at]
        /\ \A d \in Callers \ {c} : pc'[d] = pc[d]
    BY <1>2 DEF Goto, TypeOK
  <2> QED
    BY <1>2, <2>1 DEF WaitInv, Stopping
<1>3. CASE UNCHANGED vars
  BY <1>1, <1>3 DEF vars
<1>4. ASSUME NEW c \in Callers,
             \/ \E op \in Ops : Choose(c, op)
             \/ AddTask(c)
             \/ \E repeat \in BOOLEAN : pc[c].op \in Ops /\ AddTimer(c, repeat)
      PROVE  WaitInv'
  <2>1. PICK op, at :
            /\ op \in Ops \cup {"idle"}
            /\ Goto(c, op, at)
            /\ UNCHANGED <<life, stopCalled, size>>
            /\ ~Stopping(c)
    BY <1>4 DEF Choose, MayCall, AddTask, AddTimer, Ops, Stopping
  <2> QED
    BY <1>2, <2>1 DEF Ops
<1>5. ASSUME NEW c \in Callers, NEW handle \in repeats, PurgeTimerTask(c, handle)
      PROVE  WaitInv'
  BY <1>1, <1>5 DEF PurgeTimerTask
<1>6. ASSUME NEW c \in Callers, Stop(c) \/ StopNext(c) \/ StopStore(c) PROVE WaitInv'
  <2>1. PICK op, at :
            /\ op \in {"stop", "store"}
            /\ Goto(c, op, at) /\ UNCHANGED <<life, stopCalled, size>>
    BY <1>6 DEF Stop, StopNext, StopStore
  <2> QED
    BY <1>2, <2>1
<1>7. ASSUME NEW c \in Callers, StopReturn(c) PROVE WaitInv'
  BY <1>7 DEF StopReturn, WaitInv
<1>8. CASE Start
  <2>1. pc'[Owner] = Idle /\ life' = "alive"
    BY <1>8 DEF Start, OwnerMayAct
  <2> QED
    BY <2>1 DEF WaitInv
<1>9. CASE Wait
  BY <1>9 DEF Wait, WaitInv
<1>10. CASE Destroy
  <2>1. pc'[Owner].op = "stop"
    BY <1>10 DEF Destroy, Goto, TypeOK
  <2> QED
    BY <2>1 DEF WaitInv, Stopping
<1>11. CASE DestroyWait
  <2>1. stopCalled \/ size = 0
    BY <1>11 DEF DestroyWait, WaitInv, Stopping
  <2> QED
    BY <1>11, <2>1 DEF DestroyWait, WaitInv
<1>12. CASE Join
  <2>1. stopCalled \/ size = 0
    BY <1>12 DEF Join, WaitInv
  <2> QED
    BY <1>12, <2>1 DEF Join, WaitInv
<1>13. CASE Clear
  BY <1>13 DEF Clear, WaitInv
<1>14. ASSUME NEW i \in Indexes, TakeUp(i) \/ BeginTimer(i) \/ Complete(i)
       PROVE  WaitInv'
  BY <1>1, <1>14 DEF TakeUp, Begin, Close, BeginTimer, Complete, Finish,
      EndTimer
<1> QED
  BY <1>3, <1>4, <1>5, <1>6, <1>7, <1>8, <1>9, <1>10, <1>11, <1>12, <1>13, <1>14
     DEF Next, Call, Proceed, OwnerProceed, AddDelayTask, AddRepeatTask, TakeUp,
         Complete, Gone, Ops

\* wait() joins only loops that will return: a worker whose loop has not, while
\* the owner waits, is stopped, or a stop() is on its way to it.
WaitMeetsStopped ==
    pc[Owner].op = "wait" =>
        \A i \in Indexes : thread[i] = "open" =>
            \/ stopped[i]
            \/ \E c \in Callers : Stopping(c) /\ pc[c].at <= i

\* wait(), whether a client calls it or the destructor, never waits for a loop
\* that nobody has told or is about to tell to return: which is what WaitReturns
\* and DestructionFinishes need besides fairness.
THEOREM WaitFindsStopped == Spec => []WaitMeetsStopped
<1>1. IInv /\ WaitInv => WaitMeetsStopped
  <2> SUFFICES ASSUME IInv, WaitInv, pc[Owner].op = "wait",
                      NEW i \in Indexes, thread[i] = "open", ~stopped[i]
               PROVE  \E c \in Callers : Stopping(c) /\ pc[c].at <= i
    BY DEF WaitMeetsStopped
  <2>1. i < size /\ i \in Nat /\ size \in Nat
    BY IndexFacts DEF IInv, CallInv, TypeOK
  <2>2. stopped[0] /\ 0 \in Indexes
    BY <2>1, VectorIndexes DEF IInv, StopInv, WaitInv
  <2>3. 0 < i
    BY <2>1, <2>2
  <2> QED
    BY <2>1, <2>2, <2>3 DEF IInv, StopInv
<1>2. Init => WaitInv
  BY DEF Init, WaitInv
<1>3. IInv /\ WaitInv /\ [Next]_vars => WaitInv'
  BY WaitStep DEF IInv
<1> QED
  BY <1>1, <1>2, <1>3, Invariance, PTL DEF Spec

=============================================================================
