------------------------ MODULE GeneralWorker_proofs ------------------------
(***************************************************************************)
(* Proofs about GeneralWorker, for any number of callers, tasks, timers    *)
(* and restarts.                                                           *)
(*                                                                         *)
(* None of the properties is inductive.  The inductive invariant has four  *)
(* parts: where the two sides of start(), wait() and the destructor stand  *)
(* relative to each other (ThreadInv), what the queues of tasks hold       *)
(* (TaskInv), what the sets of timers hold (TimerInv), and what keeps the  *)
(* loop awake (WakeInv).                                                   *)
(***************************************************************************)
EXTENDS GeneralWorker, SequenceLemmas, FiniteSetTheorems, TLAPS

InCallback == loop \in {"inTask", "inTimer"}

\* The object and its thread.  The window of start() between the launch of
\* the thread and the store to m_stopped is harmless: nothing can wake the
\* new loop before start() has returned.
ThreadInv ==
    /\ thread = "none" <=> loop = "off"
    /\ loop # "off" => base # 0
    /\ loop \in {"off", "exited"} => stopped
    /\ loop = "exited" => exit
    /\ exit => stopped /\ loop \notin {"poll", "read", "check"}
    /\ life \in {"baseFreed", "destroyed"} => loop = "off"
    /\ life \in {"baseFreed", "destroyed"} => \A c \in Callers : pc[c] = "idle"
    /\ life = "destroying" => \A c \in Clients \ {Owner} : pc[c] = "idle"
    /\ ~InCallback => pc[Loop] = "idle"
    /\ \A c \in Callers : pc[c] = "publish" => c = Owner
    /\ pc[Owner] = "publish" =>
          /\ loop = "poll"
          /\ life = "alive"
          /\ ~evfd
          /\ ~ready
          /\ ~exit
          /\ \A c \in Clients \ {Owner} : pc[c] = "idle"
          /\ \A t \in active : t.base # base
    /\ \A t \in active : t.base <= base

\* The tasks.  The queue is drained after m_stopped was seen, so from then on
\* what is owed is in the batch, and after the batch it has run.
TaskInv ==
    /\ Fifo
    /\ loop = "inTask" => batch # <<>>
    /\ loop \notin {"run", "inTask"} => batch = <<>>
    /\ life # "destroyed" => broken = <<>>
    /\ owed <= submitted
    /\ exit /\ loop \notin {"tasks", "off"} => Len(executed) + Len(batch) >= owed
    /\ loop = "off" => Len(executed) >= owed

\* The timers.  No id is handed out twice, so a timer is queued or installed
\* but not both, and one that is gone does not come back under its id.
TimerInv ==
    /\ \A id \in Ids(pendingTimers) \cup Ids(active) \cup finished \cup purging
                 \cup purged \cup kept \cup repeats : id < nextTimerId
    /\ Ids(pendingTimers) \cap Ids(active) = {}
    /\ loop \in {"off", "exited", "poll"} => due = {}
    /\ loop = "inTimer" => current \notin due
    /\ loop = "purge" => kept \cap Ids(pendingTimers) = {}
    /\ purging \subseteq purged
    /\ DueTimersAreInstalled
    /\ OneShotFiresOnce
    /\ PurgeIsFinal

\* addRepeatTask() hands back ids of timers it has queued.
IdsHandedOut == \A c \in Callers : \A id \in adding[c] \cup returned : id < nextTimerId

\* Whoever queues work wakes the loop, unless the loop has yet to look.
Awake == evfd \/ leftover \/ \E c \in Callers : pc[c] = "notify"

WakeInv ==
    /\ pendingTasks # <<>> =>
          Awake \/ loop \in {"off", "exited", "read", "check", "tasks"}
    /\ pendingTimers # {} =>
          Awake \/ loop \in {"off", "exited", "read", "check", "tasks", "run",
                             "inTask", "timers"}
    /\ purging # {} =>
          Awake \/ loop \in {"off", "exited", "read", "check", "tasks", "run",
                             "inTask", "timers", "purge"}

\* No timer that is repeated takes itself for a one-shot timer.
RepeatInv ==
    /\ RepeatStaysRegistered
    /\ \A t \in pendingTimers \cup active : t.id \in repeats => t.interval # 0
\* How Ids distributes over the sets of timers the actions build.
LEMMA IdsUnion ==
    ASSUME NEW S, NEW T
    PROVE  Ids(S \cup T) = Ids(S) \cup Ids(T)
BY DEF Ids

\* A queued timer contributes its own id.
LEMMA IdsNewTimer ==
    ASSUME NEW id, NEW ms
    PROVE  Ids({[id |-> id, interval |-> ms]}) = {id}
BY DEF Ids

\* Installing timers adds an event to each and keeps its id.
LEMMA IdsInstalled ==
    ASSUME NEW S, NEW b
    PROVE  Ids({[id |-> p.id, interval |-> p.interval, base |-> b] : p \in S})
               = Ids(S)
<1> DEFINE R(p) == [id |-> p.id, interval |-> p.interval, base |-> b]
<1>1. \A p : R(p).id = p.id
  OBVIOUS
<1>2. Ids({R(p) : p \in S}) = Ids(S)
  <2> HIDE DEF R
  <2> QED
    BY <1>1 DEF Ids
<1> QED
  BY <1>2

\* Below MaxTimers the mask changes nothing: ids are handed out once.
LEMMA NewTimerId ==
    ASSUME nextTimerId \in Nat, nextTimerId < MaxTimers
    PROVE  NextTimerId = nextTimerId /\ NextTimerId \in TimerIds
BY WorkerAssumption DEF NextTimerId, TimerIds

\* Every step keeps the types; installing a timer relies on there being a base,
\* and the end of a task on the task being in the batch.
LEMMA TypeStep ==
    ASSUME TypeOK, ThreadInv, TaskInv, [Next]_vars
    PROVE  TypeOK'
<1> USE WorkerAssumption DEF TypeOK, shared, private, object, history, timerHistory,
           Callers, TimerIds, Intervals, Pending, Active, LoopStates, Ids
<1>1. CASE UNCHANGED vars
  BY <1>1 DEF vars
<1>2. ASSUME NEW c \in Callers, AddTask(c) PROVE TypeOK'
  BY <1>2, SMTT(30) DEF AddTask, MayCall, Goto
<1>3. ASSUME NEW c \in Callers, AddDelayTask(c) PROVE TypeOK'
  BY <1>3, NewTimerId DEF AddDelayTask, AddTimerTask, MayCall, Goto
<1>4. ASSUME NEW c \in Callers, AddRepeatTask(c) PROVE TypeOK'
  <2>1. PICK ms \in RepeatIntervals :
            /\ AddTimerTask(c, ms)
            /\ repeats' = IF ms = 0 THEN repeats ELSE repeats \cup {NextTimerId}
            /\ adding' = [adding EXCEPT ![c] = {NextTimerId}]
    BY <1>4 DEF AddRepeatTask
  <2>2. NextTimerId \in TimerIds
    BY <2>1, NewTimerId DEF AddTimerTask
  <2>3. repeats' \subseteq TimerIds
    <3>1. repeats' \subseteq repeats \cup {NextTimerId}
      BY <2>1
    <3>2. repeats \subseteq TimerIds
      OBVIOUS
    <3> QED
      BY <3>1, <3>2, <2>2, Zenon
  <2>4. adding' \in [Callers -> SUBSET TimerIds]
    <3>1. adding \in [Callers -> SUBSET TimerIds] /\ {NextTimerId} \in SUBSET TimerIds
      BY <2>2
    <3> HIDE DEF TypeOK, TimerIds, Callers
    <3> QED
      BY <2>1, <3>1
  <2> QED
    BY <2>1, <2>2, <2>3, <2>4 DEF AddTimerTask, MayCall, Goto
<1>5. ASSUME NEW c \in Callers, NEW id \in TimerIds, PurgeTimerTask(c, id) PROVE TypeOK'
  BY <1>5 DEF PurgeTimerTask, MayCall, Goto
<1>6. ASSUME NEW c \in Callers, StopLoad(c) PROVE TypeOK'
  BY <1>6 DEF StopLoad, MayCall, Goto
<1>7. ASSUME NEW c \in Callers, StopStore(c) PROVE TypeOK'
  BY <1>7 DEF StopStore, Goto
<1>8. ASSUME NEW c \in Callers, Notify(c) PROVE TypeOK'
  <2>1. pc' \in [Callers -> {"idle", "notify", "store", "publish"}]
    BY <1>8 DEF Notify, Goto
  <2>2. evfd' \in BOOLEAN /\ leftover' \in BOOLEAN
    BY <1>8 DEF Notify
  <2>3. adding' \in [Callers -> SUBSET TimerIds] /\ returned' \subseteq TimerIds
    <3>1. /\ returned' = returned \cup adding[c]
          /\ adding' = [adding EXCEPT ![c] = {}]
      BY <1>8 DEF Notify, HandBack
    <3>2. adding \in [Callers -> SUBSET TimerIds] /\ returned \subseteq TimerIds
      OBVIOUS
    <3> HIDE DEF TypeOK, TimerIds, Callers
    <3> QED
      BY <3>1, <3>2
  <2> QED
    BY <1>8, <2>1, <2>2, <2>3, Zenon DEF Notify
<1>9. CASE StartLaunch
  <2>1. base' \in 0 .. MaxStarts /\ loop' \in LoopStates /\ due' \subseteq TimerIds
    BY <1>9 DEF StartLaunch
  <2>2. pc' \in [Callers -> {"idle", "notify", "store", "publish"}]
    BY <1>9 DEF StartLaunch, Goto
  <2>3. leftover' \in BOOLEAN
    BY <1>9 DEF StartLaunch, Work
  <2> QED
    BY <1>9, <2>1, <2>2, <2>3, Zenon DEF StartLaunch
<1>10. CASE StartFail
  <2>1. base' \in 0 .. MaxStarts
    BY <1>10 DEF StartFail
  <2> QED
    BY <1>10, <2>1, Zenon DEF StartFail
<1>11. CASE StartPublish
  <2>1. pc' \in [Callers -> {"idle", "notify", "store", "publish"}]
    BY <1>11 DEF StartPublish, Goto
  <2>2. stopped' \in BOOLEAN /\ ready' \in BOOLEAN
    BY <1>11 DEF StartPublish
  <2> QED
    BY <1>11, <2>1, <2>2, ZenonT(30) DEF StartPublish
<1>12. CASE Wait
  BY <1>12 DEF Wait
<1>13. CASE Destroy
  <2>1. pc' \in [Callers -> {"idle", "notify", "store", "publish"}]
    BY <1>13 DEF Destroy, Goto
  <2> QED
    BY <1>13, <2>1 DEF Destroy
<1>14. CASE FreeBase
  BY <1>14 DEF FreeBase
<1>15. CASE DestroyMembers
  BY <1>15 DEF DestroyMembers
<1>16. CASE Poll
  <2>1. due' \subseteq TimerIds /\ loop' \in LoopStates
    BY <1>16 DEF Poll, Armed
  <2> QED
    BY <1>16, <2>1 DEF Poll
<1>17. CASE ReadEventfd
  BY <1>17 DEF ReadEventfd
<1>18. CASE CheckStopped
  BY <1>18 DEF CheckStopped
<1>19. CASE TakeTasks
  BY <1>19 DEF TakeTasks
<1>20. CASE BeginTask
  BY <1>20 DEF BeginTask
<1>21. CASE EndTask
  <2>1. batch # <<>>
    BY <1>21 DEF EndTask, TaskInv
  <2>2. batch' \in Seq(1 .. MaxTasks)
    BY <1>21, <2>1 DEF EndTask
  <2>3. executed' \in Seq(1 .. MaxTasks) /\ loop' \in LoopStates
    BY <1>21, <2>1 DEF EndTask
  <2> QED
    BY <1>21, <2>2, <2>3 DEF EndTask
<1>22. CASE TasksDone
  BY <1>22 DEF TasksDone
<1>23. CASE InstallTimers
  <2>1. base \in 1 .. MaxStarts
    BY <1>23 DEF InstallTimers, ThreadInv
  <2>2. active' \subseteq Active
    BY <1>23, <2>1 DEF InstallTimers
  <2>3. due' \subseteq TimerIds
    BY <1>23 DEF InstallTimers
  <2> QED
    BY <1>23, <2>2, <2>3, Zenon DEF InstallTimers
<1>24. CASE PurgeTimers
  BY <1>24 DEF PurgeTimers
<1>25. CASE BeginTimer
  BY <1>25 DEF BeginTimer
<1>26. CASE EndTimer
  BY <1>26 DEF EndTimer, OneShot
<1>27. CASE EndIteration
  BY <1>27 DEF EndIteration
<1> QED
  BY <1>1, <1>2, <1>3, <1>4, <1>5, <1>6, <1>7, <1>8, <1>9, <1>10, <1>11,
     <1>12, <1>13, <1>14, <1>15, <1>16, <1>17, <1>18, <1>19, <1>20, <1>21,
     <1>22, <1>23, <1>24, <1>25, <1>26, <1>27
     DEF Next, Call, Return, OwnerCall, Destructor, LoopThread, Gone

\* Every step keeps the object, its thread and its callers in step.
LEMMA ThreadStep ==
    ASSUME TypeOK, ThreadInv, [Next]_vars
    PROVE  ThreadInv'
<1> USE WorkerAssumption DEF TypeOK, ThreadInv, InCallback,
           shared, private, object, history, timerHistory, Callers, LoopStates
<1>1. CASE UNCHANGED vars
  BY <1>1 DEF vars
<1>2. ASSUME NEW c \in Callers, AddTask(c) PROVE ThreadInv'
  BY <1>2 DEF AddTask, MayCall, Goto
<1>3. ASSUME NEW c \in Callers, AddDelayTask(c) PROVE ThreadInv'
  BY <1>3 DEF AddDelayTask, AddTimerTask, MayCall, Goto
<1>4. ASSUME NEW c \in Callers, AddRepeatTask(c) PROVE ThreadInv'
  BY <1>4 DEF AddRepeatTask, AddTimerTask, MayCall, Goto
<1>5. ASSUME NEW c \in Callers, NEW id \in TimerIds, PurgeTimerTask(c, id) PROVE ThreadInv'
  BY <1>5 DEF PurgeTimerTask, MayCall, Goto
<1>6. ASSUME NEW c \in Callers, StopLoad(c) PROVE ThreadInv'
  BY <1>6 DEF StopLoad, MayCall, Goto
<1>7. ASSUME NEW c \in Callers, StopStore(c) PROVE ThreadInv'
  BY <1>7 DEF StopStore, Goto
<1>8. ASSUME NEW c \in Callers, Notify(c) PROVE ThreadInv'
  BY <1>8 DEF Notify, Goto
<1>9. CASE StartLaunch
  <2>1. \A t \in active' : t.base <= base' /\ t.base # base'
    BY <1>9 DEF StartLaunch, Active
  <2>2. pc[Loop] = "idle" /\ life = "alive"
    BY <1>9 DEF StartLaunch, OwnerMayAct
  <2>3. pc'[Owner] = "publish" /\ \A c \in Callers \ {Owner} : pc'[c] = "idle"
    BY <1>9, <2>2 DEF StartLaunch, OwnerMayAct, Goto
  <2>4. /\ base' # 0
        /\ loop' = "poll"
        /\ thread' = "joinable"
        /\ life' = "alive"
        /\ ~evfd' /\ ~ready' /\ ~exit'
    BY <1>9, <2>2 DEF StartLaunch
  <2> QED
    BY <2>1, <2>3, <2>4
<1>10. CASE StartFail
  <2>1. \A t \in active' : t.base <= base'
    BY <1>10 DEF StartFail, Active
  <2>2. loop = "off" /\ pc[Owner] # "publish"
    BY <1>10 DEF StartFail, OwnerMayAct
  <2> QED
    BY <1>10, <2>1, <2>2 DEF StartFail
<1>11. CASE StartPublish
  BY <1>11 DEF StartPublish, Goto
<1>12. CASE Wait
  BY <1>12 DEF Wait
<1>13. CASE Destroy
  BY <1>13 DEF Destroy, OwnerMayAct, Goto
<1>14. CASE FreeBase
  BY <1>14 DEF FreeBase
<1>15. CASE DestroyMembers
  BY <1>15 DEF DestroyMembers
<1>16. CASE Poll
  <2>1. pc[Owner] # "publish"
    <3>1. evfd \/ Armed # {}
      BY <1>16 DEF Poll
    <3>2. pc[Owner] = "publish" => ~evfd /\ Armed = {}
      BY DEF Armed, Ids
    <3> QED
      BY <3>1, <3>2
  <2> QED
    BY <1>16, <2>1 DEF Poll
<1>17. CASE ReadEventfd
  BY <1>17 DEF ReadEventfd
<1>18. CASE CheckStopped
  BY <1>18 DEF CheckStopped
<1>19. CASE TakeTasks
  BY <1>19 DEF TakeTasks
<1>20. CASE BeginTask
  BY <1>20 DEF BeginTask
<1>21. CASE EndTask
  BY <1>21 DEF EndTask
<1>22. CASE TasksDone
  BY <1>22 DEF TasksDone
<1>23. CASE InstallTimers
  BY <1>23 DEF InstallTimers
<1>24. CASE PurgeTimers
  BY <1>24 DEF PurgeTimers
<1>25. CASE BeginTimer
  BY <1>25 DEF BeginTimer
<1>26. CASE EndTimer
  BY <1>26 DEF EndTimer, OneShot
<1>27. CASE EndIteration
  BY <1>27 DEF EndIteration
<1> QED
  BY <1>1, <1>2, <1>3, <1>4, <1>5, <1>6, <1>7, <1>8, <1>9, <1>10, <1>11,
     <1>12, <1>13, <1>14, <1>15, <1>16, <1>17, <1>18, <1>19, <1>20, <1>21,
     <1>22, <1>23, <1>24, <1>25, <1>26, <1>27
     DEF Next, Call, Return, OwnerCall, Destructor, LoopThread, Gone

\* Every step keeps the tasks in order and accounted for.
LEMMA TaskStep ==
    ASSUME TypeOK, ThreadInv, TaskInv, [Next]_vars
    PROVE  TaskInv'
<1> USE WorkerAssumption DEF TypeOK, ThreadInv, TaskInv, Fifo,
           InCallback, shared, private, object, history, timerHistory, Callers, LoopStates
<1>1. CASE UNCHANGED vars
  BY <1>1 DEF vars
<1>2. ASSUME NEW c \in Callers, AddTask(c) PROVE TaskInv'
  <2>1. broken = <<>> /\ life # "destroyed"
    BY <1>2 DEF AddTask, MayCall
  <2>2. /\ pendingTasks' = Append(pendingTasks, submitted + 1)
        /\ submitted' = submitted + 1
        /\ executed' = executed /\ batch' = batch /\ broken' = broken
        /\ owed' = owed /\ loop' = loop /\ exit' = exit /\ life' = life
    BY <1>2 DEF AddTask
  <2>3. /\ Len(pendingTasks') = Len(pendingTasks) + 1
        /\ \A i \in 1 .. Len(pendingTasks) : pendingTasks'[i] = pendingTasks[i]
        /\ pendingTasks'[Len(pendingTasks) + 1] = submitted + 1
    <3>1. pendingTasks \in Seq(Nat) /\ submitted + 1 \in Nat
      OBVIOUS
    <3> QED
      BY <2>2, <3>1, AppendEnds
  <2>4. submitted = Len(executed) + Len(batch) + Len(pendingTasks)
    BY <2>1
  <2>5. \A i \in 1 .. Len(pendingTasks') :
            pendingTasks'[i] = Len(executed) + Len(batch) + i
    <3> SUFFICES ASSUME NEW i \in 1 .. Len(pendingTasks) + 1
                 PROVE  pendingTasks'[i] = Len(executed) + Len(batch) + i
      BY <2>3
    <3>1. CASE i \in 1 .. Len(pendingTasks)
      BY <2>3, <3>1
    <3>2. CASE i = Len(pendingTasks) + 1
      BY <2>3, <2>4, <3>2
    <3> QED
      BY <3>1, <3>2
  <2> QED
    BY <2>1, <2>2, <2>3, <2>4, <2>5
<1>3. ASSUME NEW c \in Callers, AddDelayTask(c) PROVE TaskInv'
  BY <1>3 DEF AddDelayTask, AddTimerTask, MayCall, Goto
<1>4. ASSUME NEW c \in Callers, AddRepeatTask(c) PROVE TaskInv'
  BY <1>4 DEF AddRepeatTask, AddTimerTask, MayCall, Goto
<1>5. ASSUME NEW c \in Callers, NEW id \in TimerIds, PurgeTimerTask(c, id) PROVE TaskInv'
  BY <1>5 DEF PurgeTimerTask, MayCall, Goto
<1>6. ASSUME NEW c \in Callers, StopLoad(c) PROVE TaskInv'
  BY <1>6 DEF StopLoad, MayCall, Goto
<1>7. ASSUME NEW c \in Callers, StopStore(c) PROVE TaskInv'
  BY <1>7 DEF StopStore, Goto
<1>8. ASSUME NEW c \in Callers, Notify(c) PROVE TaskInv'
  BY <1>8 DEF Notify, Goto
<1>9. CASE StartLaunch
  BY <1>9 DEF StartLaunch, OwnerMayAct, Work, Goto
<1>10. CASE StartFail
  BY <1>10 DEF StartFail, OwnerMayAct
<1>11. CASE StartPublish
  BY <1>11 DEF StartPublish, Goto
<1>12. CASE Wait
  BY <1>12 DEF Wait
<1>13. CASE Destroy
  BY <1>13 DEF Destroy, OwnerMayAct, Goto
<1>14. CASE FreeBase
  BY <1>14 DEF FreeBase
<1>15. CASE DestroyMembers
  BY <1>15 DEF DestroyMembers
<1>16. CASE Poll
  BY <1>16 DEF Poll, Armed
<1>17. CASE ReadEventfd
  BY <1>17 DEF ReadEventfd
<1>18. CASE CheckStopped
  BY <1>18 DEF CheckStopped
<1>19. CASE TakeTasks
  BY <1>19 DEF TakeTasks
<1>20. CASE BeginTask
  BY <1>20 DEF BeginTask
<1>21. CASE EndTask
  <2>1. batch # <<>> /\ batch \in Seq(Nat) /\ executed \in Seq(Nat)
    <3>1. batch \in Seq(Nat) /\ executed \in Seq(Nat)
      OBVIOUS
    <3>2. loop = "inTask"
      BY <1>21 DEF EndTask
    <3>3. batch # <<>>
      BY <3>2
    <3> QED
      BY <3>1, <3>3
  <2>2. /\ executed' = Append(executed, Head(batch)) /\ batch' = Tail(batch)
        /\ loop = "inTask" /\ loop' = "run" /\ exit' = exit /\ life' = life
        /\ owed' = owed /\ pendingTasks' = pendingTasks /\ broken' = broken
        /\ submitted' = submitted
    BY <1>21 DEF EndTask
  <2>3. Head(batch) = Len(executed) + 1
    BY <2>1, HeadTail
  <2>4. /\ Len(executed') = Len(executed) + 1
        /\ \A i \in 1 .. Len(executed') : executed'[i] = i
    <3>1. /\ Len(executed') = Len(executed) + 1
          /\ \A i \in 1 .. Len(executed) : executed'[i] = executed[i]
          /\ executed'[Len(executed) + 1] = Len(executed) + 1
      <4>1. Head(batch) \in Nat
        BY <2>1, HeadTail
      <4> QED
        BY <2>1, <2>2, <2>3, <4>1, AppendEnds
    <3> SUFFICES ASSUME NEW i \in 1 .. Len(executed) + 1
                 PROVE  executed'[i] = i
      BY <3>1
    <3>2. CASE i \in 1 .. Len(executed)
      BY <3>1, <3>2
    <3>3. CASE i = Len(executed) + 1
      BY <3>1, <3>3
    <3> QED
      BY <3>2, <3>3
  <2>5. /\ Len(batch') = Len(batch) - 1
        /\ \A i \in 1 .. Len(batch') : batch'[i] = Len(executed') + i
    BY <2>1, <2>2, <2>4, HeadTail
  <2>6. broken = <<>>
    BY <2>2
  <2>7. Fifo'
    <3>1. Len(executed') + Len(batch') = Len(executed) + Len(batch)
      BY <2>1, <2>4, <2>5
    <3>2. /\ \A i \in 1 .. Len(pendingTasks) :
                pendingTasks[i] = Len(executed) + Len(batch) + i
          /\ Len(executed) + Len(batch) + Len(pendingTasks) + Len(broken) = submitted
      OBVIOUS
    <3> HIDE DEF TypeOK, TaskInv, ThreadInv, EndTask
    <3>3. \A i \in 1 .. Len(pendingTasks') :
              pendingTasks'[i] = Len(executed') + Len(batch') + i
      BY <2>2, <3>1, <3>2
    <3>4. \A i \in 1 .. Len(broken') : broken'[i] = Len(executed') + i
      BY <2>2, <2>6
    <3>5. Len(executed') + Len(batch') + Len(pendingTasks') + Len(broken') = submitted'
      BY <2>2, <3>1, <3>2
    <3> QED
      BY <2>4, <2>5, <3>3, <3>4, <3>5, Zenon DEF Fifo
  <2> QED
    BY <2>2, <2>4, <2>5, <2>6, <2>7, SMTT(30)
<1>22. CASE TasksDone
  BY <1>22 DEF TasksDone
<1>23. CASE InstallTimers
  BY <1>23 DEF InstallTimers
<1>24. CASE PurgeTimers
  BY <1>24 DEF PurgeTimers
<1>25. CASE BeginTimer
  BY <1>25 DEF BeginTimer
<1>26. CASE EndTimer
  BY <1>26 DEF EndTimer, OneShot
<1>27. CASE EndIteration
  BY <1>27 DEF EndIteration
<1> QED
  BY <1>1, <1>2, <1>3, <1>4, <1>5, <1>6, <1>7, <1>8, <1>9, <1>10, <1>11,
     <1>12, <1>13, <1>14, <1>15, <1>16, <1>17, <1>18, <1>19, <1>20, <1>21,
     <1>22, <1>23, <1>24, <1>25, <1>26, <1>27
     DEF Next, Call, Return, OwnerCall, Destructor, LoopThread, Gone

\* A new timer gets an id that no timer, request or history ever had.
LEMMA AddTimerIds ==
    ASSUME TypeOK, TimerInv, NEW c \in Callers, NEW ms \in Intervals,
           AddTimerTask(c, ms)
    PROVE  /\ NextTimerId = nextTimerId /\ nextTimerId \in Nat
           /\ pendingTimers' = pendingTimers \cup {[id |-> nextTimerId, interval |-> ms]}
           /\ Ids(pendingTimers') = Ids(pendingTimers) \cup {nextTimerId}
           /\ \A id \in Ids(pendingTimers) \cup Ids(active) \cup finished \cup purging
                       \cup purged \cup kept \cup repeats \cup due :
                  id \in Nat /\ id < nextTimerId
<1>1. NextTimerId = nextTimerId /\ nextTimerId \in Nat
  <2>1. nextTimerId \in Nat /\ nextTimerId < MaxTimers
    BY WorkerAssumption DEF AddTimerTask, TypeOK
  <2> QED
    BY <2>1, NewTimerId
<1>2. pendingTimers' = pendingTimers \cup {[id |-> nextTimerId, interval |-> ms]}
  BY <1>1 DEF AddTimerTask
<1>3. Ids(pendingTimers \cup {[id |-> nextTimerId, interval |-> ms]})
          = Ids(pendingTimers) \cup {nextTimerId}
  <2>1. Ids({[id |-> nextTimerId, interval |-> ms]}) = {nextTimerId}
    BY IdsNewTimer, Zenon
  <2> QED
    BY <2>1, IdsUnion, Zenon
<1>4. \A id \in Ids(pendingTimers) \cup Ids(active) \cup finished \cup purging
                \cup purged \cup kept \cup repeats \cup due :
           id \in Nat /\ id < nextTimerId
  <2>1. /\ due \subseteq Ids(active)
        /\ Ids(pendingTimers) \subseteq TimerIds /\ Ids(active) \subseteq TimerIds
    BY DEF TypeOK, TimerInv, DueTimersAreInstalled, Ids, Pending, Active
  <2>2. TimerIds \subseteq Nat
    BY WorkerAssumption DEF TimerIds
  <2> QED
    BY <2>1, <2>2 DEF TypeOK, TimerInv
<1> QED
  BY <1>1, <1>2, <1>3, <1>4

\* Queueing a timer keeps the timers apart.
LEMMA AddTimerStep ==
    ASSUME TypeOK, TimerInv, NEW c \in Callers, NEW ms \in Intervals,
           AddTimerTask(c, ms), repeats' \subseteq repeats \cup {nextTimerId}
    PROVE  TimerInv'
<1>1. /\ nextTimerId' = nextTimerId + 1
      /\ active' = active /\ loop' = loop /\ due' = due /\ current' = current
      /\ purging' = purging /\ purged' = purged /\ kept' = kept
      /\ finished' = finished
  BY AddTimerIds DEF AddTimerTask, private
<1>2. nextTimerId \notin Ids(active) \cup finished \cup kept
  BY AddTimerIds
<1>3. Ids(active') = Ids(active)
  BY <1>1
<1> QED
  BY <1>1, <1>2, <1>3, AddTimerIds
     DEF TimerInv, DueTimersAreInstalled, OneShotFiresOnce, PurgeIsFinal

\* onNotify() moves the ids of the queued timers to m_activeTimers.
LEMMA InstallIds ==
    ASSUME InstallTimers
    PROVE  Ids(active') = Ids(active) \cup Ids(pendingTimers) /\ Ids(pendingTimers') = {}
<1> DEFINE old == {t \in active : t.id \notin Ids(pendingTimers)}
           new == {[id |-> p.id, interval |-> p.interval, base |-> base] :
                       p \in pendingTimers}
<1>1. active' = old \cup new /\ pendingTimers' = {}
  BY DEF InstallTimers
<1>2. Ids(old) = Ids(active) \ Ids(pendingTimers)
  BY DEF Ids
<1>3. Ids(new) = Ids(pendingTimers)
  BY IdsInstalled
<1>4. Ids(old \cup new) = Ids(old) \cup Ids(new)
  BY IdsUnion
<1>5. Ids({}) = {}
  BY DEF Ids
<1> QED
  BY <1>1, <1>2, <1>3, <1>4, <1>5

\* Only addRepeatTask() and its end touch the ids that callers get.
LEMMA HandedOutStep ==
    ASSUME TypeOK, IdsHandedOut, [Next]_vars
    PROVE  IdsHandedOut'
<1> USE DEF shared, private, object, history, timerHistory
<1>1. CASE UNCHANGED <<adding, returned, nextTimerId>>
  BY <1>1 DEF IdsHandedOut
<1>2. ASSUME NEW c \in Callers, NEW ms \in Intervals, AddTimerTask(c, ms),
             adding' \in {adding, [adding EXCEPT ![c] = {NextTimerId}]}
      PROVE  IdsHandedOut'
  <2>1. NextTimerId = nextTimerId /\ nextTimerId \in Nat
    <3>1. nextTimerId \in Nat /\ nextTimerId < MaxTimers
      BY <1>2, WorkerAssumption DEF AddTimerTask, TypeOK
    <3> QED
      BY <3>1, NewTimerId
  <2>2. nextTimerId' = nextTimerId + 1 /\ returned' = returned
    BY <1>2 DEF AddTimerTask
  <2>3. ASSUME NEW d \in Callers, NEW id \in adding'[d] \cup returned'
        PROVE  id < nextTimerId'
    <3>1. id \in adding[d] \cup returned \/ id = nextTimerId
      <4>1. CASE adding' = adding
        BY <2>2, <2>3, <4>1
      <4>2. CASE adding' = [adding EXCEPT ![c] = {nextTimerId}]
        <5>1. adding \in [Callers -> SUBSET TimerIds]
          BY DEF TypeOK
        <5>2. adding'[d] \subseteq adding[d] \cup {nextTimerId}
          BY <4>2, <5>1
        <5> QED
          BY <2>2, <2>3, <5>2
      <4>3. adding' = adding \/ adding' = [adding EXCEPT ![c] = {nextTimerId}]
        BY <1>2, <2>1, Zenon
      <4> QED
        BY <4>1, <4>2, <4>3
    <3>2. adding[d] \cup returned \subseteq Nat
      <4>1. adding[d] \subseteq TimerIds /\ returned \subseteq TimerIds
        BY DEF TypeOK
      <4>2. TimerIds \subseteq Nat
        BY WorkerAssumption DEF TimerIds
      <4> QED
        BY <4>1, <4>2
    <3> QED
      BY <2>1, <2>2, <3>1, <3>2 DEF IdsHandedOut
  <2> QED
    BY <2>3 DEF IdsHandedOut
<1>3. ASSUME NEW c \in Callers, AddRepeatTask(c) PROVE IdsHandedOut'
  <2>1. PICK ms \in RepeatIntervals :
            AddTimerTask(c, ms) /\ adding' = [adding EXCEPT ![c] = {NextTimerId}]
    BY <1>3 DEF AddRepeatTask
  <2> QED
    BY <1>2, <2>1 DEF Intervals
<1>4. ASSUME NEW c \in Callers, AddDelayTask(c) PROVE IdsHandedOut'
  BY <1>2, <1>4 DEF AddDelayTask, Intervals
<1>5. ASSUME NEW c \in Callers, Notify(c) PROVE IdsHandedOut'
  <2>1. /\ returned' = returned \cup adding[c]
        /\ adding' = [adding EXCEPT ![c] = {}]
        /\ nextTimerId' = nextTimerId
    BY <1>5 DEF Notify, HandBack
  <2> QED
    BY <2>1 DEF IdsHandedOut, TypeOK
<1>6. ASSUME NEW c \in Callers, Call(c) \/ Return(c) PROVE IdsHandedOut'
  <2>1. CASE AddTask(c) \/ StopLoad(c) \/ StopStore(c) \/ \E id \in TimerIds : PurgeTimerTask(c, id)
    BY <1>1, <2>1 DEF AddTask, StopLoad, StopStore, PurgeTimerTask
  <2> QED
    BY <1>3, <1>4, <1>5, <1>6, <2>1 DEF Call, Return
<1>7. CASE OwnerCall \/ Destructor
  BY <1>1, <1>7 DEF OwnerCall, Destructor, StartLaunch, StartFail, StartPublish, Wait,
     Destroy, FreeBase, DestroyMembers
<1>8. CASE LoopThread
  BY <1>1, <1>8 DEF LoopThread, Poll, ReadEventfd, CheckStopped, TakeTasks, BeginTask,
     EndTask, TasksDone, InstallTimers, PurgeTimers, BeginTimer, EndTimer, EndIteration
<1>9. CASE UNCHANGED vars
  BY <1>1, <1>9 DEF vars
<1> QED
  BY <1>6, <1>7, <1>8, <1>9 DEF Next, Gone

\* Every step keeps the timers apart and their purges final.
LEMMA TimerStep ==
    ASSUME TypeOK, ThreadInv, IdsHandedOut, TimerInv, [Next]_vars
    PROVE  TimerInv'
<1> USE WorkerAssumption DEF TypeOK, TimerInv, DueTimersAreInstalled,
           OneShotFiresOnce, PurgeIsFinal, shared, private, object, history, timerHistory,
           TimerIds, LoopStates
<1>1. CASE UNCHANGED vars
  BY <1>1 DEF vars
<1>2. ASSUME NEW c \in Callers, AddTask(c) PROVE TimerInv'
  BY <1>2 DEF AddTask, MayCall, Goto
<1>3. ASSUME NEW c \in Callers, AddDelayTask(c) PROVE TimerInv'
  BY <1>3, AddTimerStep DEF AddDelayTask, Intervals
<1>4. ASSUME NEW c \in Callers, AddRepeatTask(c) PROVE TimerInv'
  <2>1. PICK ms \in RepeatIntervals :
            /\ AddTimerTask(c, ms)
            /\ repeats' = IF ms = 0 THEN repeats ELSE repeats \cup {NextTimerId}
    BY <1>4 DEF AddRepeatTask
  <2>2. NextTimerId = nextTimerId
    BY <2>1, NewTimerId DEF AddTimerTask
  <2>3. repeats' \subseteq repeats \cup {nextTimerId} /\ ms \in Intervals
    BY <2>1, <2>2 DEF Intervals
  <2> QED
    BY <2>1, <2>3, AddTimerStep
<1>5. ASSUME NEW c \in Callers, NEW id \in TimerIds, PurgeTimerTask(c, id) PROVE TimerInv'
  <2>1. /\ purging' = purging \cup {id} /\ purged' = purged \cup {id}
        /\ kept' = IF InPurgeWindow(id) THEN kept ELSE kept \cup {id}
        /\ id < nextTimerId
    BY <1>5 DEF PurgeTimerTask, IdsHandedOut
  <2>2. /\ pendingTimers' = pendingTimers /\ active' = active /\ loop' = loop
        /\ due' = due /\ current' = current /\ nextTimerId' = nextTimerId
        /\ finished' = finished /\ repeats' = repeats
    BY <1>5 DEF PurgeTimerTask
  <2>3. loop = "purge" /\ id \in kept' => id \in kept \/ id \in Ids(active)
    BY <2>1 DEF InPurgeWindow
  <2> QED
    BY <2>1, <2>2, <2>3
<1>6. ASSUME NEW c \in Callers, StopLoad(c) PROVE TimerInv'
  BY <1>6 DEF StopLoad, MayCall, Goto
<1>7. ASSUME NEW c \in Callers, StopStore(c) PROVE TimerInv'
  BY <1>7 DEF StopStore, Goto
<1>8. ASSUME NEW c \in Callers, Notify(c) PROVE TimerInv'
  BY <1>8 DEF Notify, Goto
<1>9. CASE StartLaunch
  BY <1>9 DEF StartLaunch, OwnerMayAct, Work, Goto
<1>10. CASE StartFail
  BY <1>10 DEF StartFail, OwnerMayAct
<1>11. CASE StartPublish
  BY <1>11 DEF StartPublish, Goto
<1>12. CASE Wait
  BY <1>12 DEF Wait
<1>13. CASE Destroy
  BY <1>13 DEF Destroy, OwnerMayAct, Goto
<1>14. CASE FreeBase
  BY <1>14, Zenon DEF FreeBase
<1>15. CASE DestroyMembers
  <2>1. loop = "off"
    BY <1>15 DEF DestroyMembers, ThreadInv
  <2>2. Ids(active') = {} /\ Ids(pendingTimers') = {} /\ purging' = {} /\ due' = {}
    BY <1>15, <2>1 DEF DestroyMembers, Ids
  <2>3. /\ nextTimerId' = nextTimerId /\ loop' = loop /\ finished' = finished
        /\ repeats' = repeats /\ purged' = purged /\ kept' = kept
    BY <1>15 DEF DestroyMembers
  <2> QED
    BY <2>1, <2>2, <2>3
<1>16. CASE Poll
  <2>1. due' \subseteq Ids(active)
    BY <1>16 DEF Poll, Armed, Ids
  <2>2. loop' \in {"read", "due"}
    BY <1>16 DEF Poll
  <2>3. /\ pendingTimers' = pendingTimers /\ active' = active
        /\ nextTimerId' = nextTimerId /\ purging' = purging /\ finished' = finished
        /\ repeats' = repeats /\ purged' = purged /\ kept' = kept
    BY <1>16 DEF Poll
  <2> QED
    BY <2>1, <2>2, <2>3
<1>17. CASE ReadEventfd
  BY <1>17 DEF ReadEventfd
<1>18. CASE CheckStopped
  BY <1>18 DEF CheckStopped
<1>19. CASE TakeTasks
  BY <1>19 DEF TakeTasks
<1>20. CASE BeginTask
  BY <1>20 DEF BeginTask
<1>21. CASE EndTask
  BY <1>21 DEF EndTask
<1>22. CASE TasksDone
  BY <1>22 DEF TasksDone
<1>23. CASE InstallTimers
  <2>1. Ids(active') = Ids(active) \cup Ids(pendingTimers) /\ Ids(pendingTimers') = {}
    BY <1>23, InstallIds
  <2>2. due' = due \ Ids(pendingTimers) /\ loop' = "purge" /\ purging' = purging
    BY <1>23 DEF InstallTimers
  <2>3. /\ nextTimerId' = nextTimerId /\ finished' = finished
        /\ repeats' = repeats /\ purged' = purged /\ kept' = kept
    BY <1>23 DEF InstallTimers
  <2> QED
    BY <2>1, <2>2, <2>3
<1>24. CASE PurgeTimers
  <2>1. Ids(active') = Ids(active) \ purging
    BY <1>24 DEF PurgeTimers, Ids
  <2>2. /\ due' = due \ purging /\ purging' = {} /\ pendingTimers' = pendingTimers
        /\ loop = "purge" /\ loop' = "due"
    BY <1>24 DEF PurgeTimers
  <2>3. /\ nextTimerId' = nextTimerId /\ finished' = finished
        /\ repeats' = repeats /\ purged' = purged /\ kept' = kept
    BY <1>24 DEF PurgeTimers
  <2> QED
    BY <2>1, <2>2, <2>3
<1>25. CASE BeginTimer
  BY <1>25 DEF BeginTimer
<1>26. CASE EndTimer
  <2>1. /\ loop = "inTimer" /\ loop' = "due" /\ due' = due /\ purging' = purging
        /\ pendingTimers' = pendingTimers /\ nextTimerId' = nextTimerId
        /\ repeats' = repeats /\ purged' = purged /\ kept' = kept
    BY <1>26 DEF EndTimer
  <2>2. CASE OneShot(current)
    <3>1. Ids(active') = Ids(active) \ {current} /\ finished' = finished \cup {current}
      BY <1>26, <2>2 DEF EndTimer, Ids
    <3> QED
      BY <2>1, <3>1
  <2>3. CASE ~OneShot(current)
    <3>1. active' = active /\ finished' = finished
      BY <1>26, <2>3 DEF EndTimer
    <3> QED
      BY <2>1, <3>1
  <2> QED
    BY <2>2, <2>3
<1>27. CASE EndIteration
  BY <1>27 DEF EndIteration
<1> QED
  BY <1>1, <1>2, <1>3, <1>4, <1>5, <1>6, <1>7, <1>8, <1>9, <1>10, <1>11,
     <1>12, <1>13, <1>14, <1>15, <1>16, <1>17, <1>18, <1>19, <1>20, <1>21,
     <1>22, <1>23, <1>24, <1>25, <1>26, <1>27
     DEF Next, Call, Return, OwnerCall, Destructor, LoopThread, Gone

\* Every step leaves the loop awake, or about to look, while work is queued.
LEMMA WakeStep ==
    ASSUME TypeOK, ThreadInv, WakeInv, [Next]_vars
    PROVE  WakeInv'
<1> USE WorkerAssumption DEF TypeOK, WakeInv, Awake,
           shared, private, object, history, timerHistory, Callers, LoopStates
<1>1. CASE UNCHANGED vars
  BY <1>1 DEF vars
<1>2. ASSUME NEW c \in Callers, AddTask(c) PROVE WakeInv'
  BY <1>2 DEF AddTask, MayCall, Goto
<1>3. ASSUME NEW c \in Callers, AddDelayTask(c) PROVE WakeInv'
  BY <1>3 DEF AddDelayTask, AddTimerTask, MayCall, Goto
<1>4. ASSUME NEW c \in Callers, AddRepeatTask(c) PROVE WakeInv'
  BY <1>4 DEF AddRepeatTask, AddTimerTask, MayCall, Goto
<1>5. ASSUME NEW c \in Callers, NEW id \in TimerIds, PurgeTimerTask(c, id) PROVE WakeInv'
  BY <1>5 DEF PurgeTimerTask, MayCall, Goto
<1>6. ASSUME NEW c \in Callers, StopLoad(c) PROVE WakeInv'
  BY <1>6 DEF StopLoad, MayCall, Goto
<1>7. ASSUME NEW c \in Callers, StopStore(c) PROVE WakeInv'
  BY <1>7 DEF StopStore, Goto
<1>8. ASSUME NEW c \in Callers, Notify(c) PROVE WakeInv'
  BY <1>8 DEF Notify, Goto
<1>9. CASE StartLaunch
  BY <1>9 DEF StartLaunch, OwnerMayAct, Work, Goto
<1>10. CASE StartFail
  BY <1>10 DEF StartFail, OwnerMayAct, ThreadInv
<1>11. CASE StartPublish
  BY <1>11 DEF StartPublish, Goto
<1>12. CASE Wait
  BY <1>12 DEF Wait
<1>13. CASE Destroy
  BY <1>13 DEF Destroy, OwnerMayAct, Goto
<1>14. CASE FreeBase
  BY <1>14 DEF FreeBase, ThreadInv
<1>15. CASE DestroyMembers
  BY <1>15 DEF DestroyMembers
<1>16. CASE Poll
  BY <1>16 DEF Poll, Armed
<1>17. CASE ReadEventfd
  BY <1>17 DEF ReadEventfd
<1>18. CASE CheckStopped
  BY <1>18 DEF CheckStopped
<1>19. CASE TakeTasks
  BY <1>19 DEF TakeTasks
<1>20. CASE BeginTask
  BY <1>20 DEF BeginTask
<1>21. CASE EndTask
  BY <1>21 DEF EndTask
<1>22. CASE TasksDone
  BY <1>22 DEF TasksDone
<1>23. CASE InstallTimers
  BY <1>23 DEF InstallTimers
<1>24. CASE PurgeTimers
  BY <1>24 DEF PurgeTimers
<1>25. CASE BeginTimer
  BY <1>25 DEF BeginTimer
<1>26. CASE EndTimer
  BY <1>26 DEF EndTimer, OneShot
<1>27. CASE EndIteration
  BY <1>27 DEF EndIteration
<1> QED
  BY <1>1, <1>2, <1>3, <1>4, <1>5, <1>6, <1>7, <1>8, <1>9, <1>10, <1>11,
     <1>12, <1>13, <1>14, <1>15, <1>16, <1>17, <1>18, <1>19, <1>20, <1>21,
     <1>22, <1>23, <1>24, <1>25, <1>26, <1>27
     DEF Next, Call, Return, OwnerCall, Destructor, LoopThread, Gone
-----------------------------------------------------------------------------
\* The conjunction that every step preserves.
IInv ==
    /\ TypeOK
    /\ ThreadInv
    /\ TaskInv
    /\ IdsHandedOut
    /\ TimerInv
    /\ WakeInv

\* A new object satisfies the invariant.
LEMMA InitInv == ASSUME Init PROVE IInv
<1> USE WorkerAssumption DEF Init
<1>1. TypeOK
  <2>1. 0 \in TimerIds /\ 0 \in 0 .. MaxTimers /\ 0 \in 0 .. MaxStarts /\ 0 \in 0 .. MaxTasks
    BY DEF TimerIds
  <2>2. <<>> \in Seq(1 .. MaxTasks)
    OBVIOUS
  <2>3. pc \in [Callers -> {"idle", "notify", "store", "publish"}]
    OBVIOUS
  <2> QED
    BY <2>1, <2>2, <2>3, Zenon DEF TypeOK, LoopStates
<1>2. ThreadInv
  BY DEF ThreadInv, InCallback, Callers
<1>3. TaskInv
  BY DEF TaskInv, Fifo
<1>4. TimerInv
  BY DEF TimerInv, DueTimersAreInstalled, OneShotFiresOnce, PurgeIsFinal, Ids
<1>5. WakeInv
  BY DEF WakeInv
<1>6. IdsHandedOut
  BY DEF IdsHandedOut
<1> QED
  BY <1>1, <1>2, <1>3, <1>4, <1>5, <1>6 DEF IInv

\* The inductive invariant holds in every state the worker reaches.
THEOREM Invariance == Spec => []IInv
<1>1. Init => IInv
  BY InitInv
<1>2. IInv /\ [Next]_vars => IInv'
  BY TypeStep, ThreadStep, TaskStep, HandedOutStep, TimerStep, WakeStep DEF IInv
<1> QED
  BY <1>1, <1>2, PTL DEF Spec

\* Type correctness of GeneralWorker.
THEOREM TypeCorrect == Spec => []TypeOK
<1>1. IInv => TypeOK
  BY DEF IInv
<1> QED
  BY <1>1, Invariance, PTL

\* Tasks run in the order of submission, none lost, none twice, for any number
\* of submitting threads and any number of restarts.
THEOREM TasksAreFifo == Spec => []Fifo
<1>1. IInv => Fifo
  BY DEF IInv, TaskInv
<1> QED
  BY <1>1, Invariance, PTL

\* A loop that has returned has run every task queued before stop() took effect.
THEOREM GracefulStop == Spec => []StopIsGraceful
<1>1. IInv => StopIsGraceful
  <2> SUFFICES ASSUME IInv, loop \in {"exited", "off"} PROVE Len(executed) >= owed
    BY DEF StopIsGraceful
  <2>1. CASE loop = "off"
    BY <2>1 DEF IInv, TaskInv
  <2>2. CASE loop = "exited"
    <3>1. batch = <<>> /\ exit
      BY <2>2 DEF IInv, TaskInv, ThreadInv
    <3> QED
      BY <2>2, <3>1 DEF IInv, TypeOK, TaskInv
  <2> QED
    BY <2>1, <2>2
<1> QED
  BY <1>1, Invariance, PTL

\* The loop never sleeps over work that somebody has notified it of.
THEOREM WakeupIsNotLost == Spec => []NoLostWakeup
<1>1. IInv => NoLostWakeup
  BY DEF IInv, WakeInv, Awake, NoLostWakeup, Work
<1> QED
  BY <1>1, Invariance, PTL

\* A timer purged outside the purge window of onNotify() never runs again.
THEOREM PurgedStaysPurged == Spec => []PurgeIsFinal
<1>1. IInv => PurgeIsFinal
  BY DEF IInv, TimerInv
<1> QED
  BY <1>1, Invariance, PTL

\* No callback runs, or is about to run, on a Timer that was destroyed.
THEOREM NoCallbackOnDestroyedTimer == Spec => []DueTimersAreInstalled
<1>1. IInv => DueTimersAreInstalled
  BY DEF IInv, TimerInv
<1> QED
  BY <1>1, Invariance, PTL

\* The callback of addDelayTask() runs at most once.
THEOREM DelayTaskRunsOnce == Spec => []OneShotFiresOnce
<1>1. IInv => OneShotFiresOnce
  BY DEF IInv, TimerInv
<1> QED
  BY <1>1, Invariance, PTL

\* Only a purge takes a repeated timer away.
LEMMA RepeatStep ==
    ASSUME TypeOK, TimerInv, RepeatInv, [Next]_vars
    PROVE  RepeatInv'
<1> USE WorkerAssumption DEF RepeatInv, RepeatStaysRegistered,
           shared, private, object, history, timerHistory
<1>1. CASE UNCHANGED vars
  BY <1>1 DEF vars
<1>2. ASSUME NEW c \in Callers, AddTask(c) PROVE RepeatInv'
  BY <1>2 DEF AddTask, MayCall, Goto
<1>3. ASSUME NEW c \in Callers, AddDelayTask(c) PROVE RepeatInv'
  <2>1. AddTimerTask(c, 0) /\ repeats' = repeats /\ 0 \in Intervals
    BY <1>3 DEF AddDelayTask, Intervals
  <2>2. nextTimerId \notin repeats
    BY <2>1, AddTimerIds
  <2>3. \A t \in pendingTimers' : t \in pendingTimers \/ t.id = nextTimerId
    BY <2>1, AddTimerIds
  <2>4. active' = active /\ life' = life /\ purged' = purged
    BY <2>1 DEF AddTimerTask
  <2> QED
    BY <2>1, <2>2, <2>3, <2>4, AddTimerIds
<1>4. ASSUME NEW c \in Callers, AddRepeatTask(c) PROVE RepeatInv'
  <2>1. PICK ms \in RepeatIntervals :
            /\ AddTimerTask(c, ms)
            /\ repeats' = IF ms = 0 THEN repeats ELSE repeats \cup {NextTimerId}
    BY <1>4 DEF AddRepeatTask
  <2>2. ms \in Intervals
    BY DEF Intervals
  <2>3. /\ nextTimerId \notin repeats
        /\ ms = 0 => repeats' = repeats
        /\ ms # 0 => repeats' = repeats \cup {nextTimerId}
    BY <2>1, <2>2, AddTimerIds
  <2>4. \A t \in pendingTimers' : t \in pendingTimers \/ (t.id = nextTimerId /\ t.interval = ms)
    <3>1. pendingTimers' = pendingTimers \cup {[id |-> nextTimerId, interval |-> ms]}
      BY <2>1, <2>2, AddTimerIds
    <3> QED
      BY <3>1
  <2>5. \A t \in pendingTimers \cup active : t.id # nextTimerId
    BY <2>1, <2>2, AddTimerIds DEF Ids
  <2>6. active' = active /\ life' = life /\ purged' = purged
    BY <2>1 DEF AddTimerTask
  <2> QED
    BY <2>1, <2>2, <2>3, <2>4, <2>5, <2>6, AddTimerIds
<1>5. ASSUME NEW c \in Callers, NEW id \in TimerIds, PurgeTimerTask(c, id) PROVE RepeatInv'
  BY <1>5 DEF PurgeTimerTask, MayCall, Goto
<1>6. ASSUME NEW c \in Callers, StopLoad(c) PROVE RepeatInv'
  BY <1>6 DEF StopLoad, MayCall, Goto
<1>7. ASSUME NEW c \in Callers, StopStore(c) PROVE RepeatInv'
  BY <1>7 DEF StopStore, Goto
<1>8. ASSUME NEW c \in Callers, Notify(c) PROVE RepeatInv'
  BY <1>8 DEF Notify, Goto
<1>9. CASE StartLaunch
  BY <1>9 DEF StartLaunch, OwnerMayAct, Work, Goto
<1>10. CASE StartFail
  BY <1>10 DEF StartFail, OwnerMayAct
<1>11. CASE StartPublish
  BY <1>11 DEF StartPublish, Goto
<1>12. CASE Wait
  BY <1>12 DEF Wait
<1>13. CASE Destroy
  BY <1>13 DEF Destroy, OwnerMayAct, Goto
<1>14. CASE FreeBase
  BY <1>14 DEF FreeBase
<1>15. CASE DestroyMembers
  BY <1>15 DEF DestroyMembers
<1>16. CASE Poll
  BY <1>16 DEF Poll, Armed
<1>17. CASE ReadEventfd
  BY <1>17 DEF ReadEventfd
<1>18. CASE CheckStopped
  BY <1>18 DEF CheckStopped
<1>19. CASE TakeTasks
  BY <1>19 DEF TakeTasks
<1>20. CASE BeginTask
  BY <1>20 DEF BeginTask
<1>21. CASE EndTask
  BY <1>21 DEF EndTask
<1>22. CASE TasksDone
  BY <1>22 DEF TasksDone
<1>23. CASE InstallTimers
  <2>1. Ids(active') = Ids(active) \cup Ids(pendingTimers) /\ Ids(pendingTimers') = {}
    BY <1>23, InstallIds
  <2>2. \A t \in pendingTimers' \cup active' :
            t \in active \/ \E p \in pendingTimers : t.id = p.id /\ t.interval = p.interval
    BY <1>23 DEF InstallTimers
  <2>3. repeats' = repeats /\ purged' = purged /\ life' = life
    BY <1>23 DEF InstallTimers
  <2> QED
    BY <2>1, <2>2, <2>3
<1>24. CASE PurgeTimers
  <2>1. Ids(active') = Ids(active) \ purging /\ active' \subseteq active
    BY <1>24 DEF PurgeTimers, Ids
  <2>2. /\ repeats' = repeats /\ purged' = purged /\ life' = life
        /\ pendingTimers' = pendingTimers /\ purging \subseteq purged
    BY <1>24 DEF PurgeTimers, TimerInv
  <2> QED
    BY <2>1, <2>2
<1>25. CASE BeginTimer
  BY <1>25 DEF BeginTimer
<1>26. CASE EndTimer
  <2>1. /\ repeats' = repeats /\ purged' = purged /\ life' = life
        /\ pendingTimers' = pendingTimers
    BY <1>26 DEF EndTimer
  <2>2. CASE OneShot(current)
    <3>1. Ids(active') = Ids(active) \ {current} /\ active' \subseteq active
      BY <1>26, <2>2 DEF EndTimer, Ids
    <3>2. current \notin repeats
      BY <2>2 DEF OneShot
    <3> QED
      BY <2>1, <3>1, <3>2
  <2>3. CASE ~OneShot(current)
    BY <1>26, <2>1, <2>3 DEF EndTimer
  <2> QED
    BY <2>2, <2>3
<1>27. CASE EndIteration
  BY <1>27 DEF EndIteration
<1> QED
  BY <1>1, <1>2, <1>3, <1>4, <1>5, <1>6, <1>7, <1>8, <1>9, <1>10, <1>11,
     <1>12, <1>13, <1>14, <1>15, <1>16, <1>17, <1>18, <1>19, <1>20, <1>21,
     <1>22, <1>23, <1>24, <1>25, <1>26, <1>27
     DEF Next, Call, Return, OwnerCall, Destructor, LoopThread, Gone

\* A repeated task with a period, which nobody purges, stays registered as long
\* as the worker lives.
THEOREM RepeatedTaskStays == Spec => []RepeatStaysRegistered
<1>1. Init => RepeatInv
  BY DEF Init, RepeatInv, RepeatStaysRegistered
<1>2. IInv /\ RepeatInv /\ [Next]_vars => RepeatInv'
  BY RepeatStep DEF IInv
<1>3. RepeatInv => RepeatStaysRegistered
  BY DEF RepeatInv
<1> QED
  BY <1>1, <1>2, <1>3, Invariance, PTL DEF Spec

-----------------------------------------------------------------------------
(* What StopEndsLoop and DestructionFinishes rest on besides fairness.     *)

\* A stop request is heard.  A loop that runs although m_stopped is set has
\* been told to exit, or is about to test the flag, or has the eventfd to read
\* or a caller about to write it: never does it sleep with the flag set and
\* nothing to wake it.  And the destructor never joins a loop that nobody has
\* stopped.
StopIsHeard ==
    /\ thread = "joinable" /\ stopped /\ pc[Owner] # "publish"
          => exit \/ evfd \/ loop = "check" \/ \E c \in Callers : pc[c] = "notify"
    /\ life = "destroying" /\ thread = "joinable" => stopped \/ pc[Owner] = "store"

\* Every step keeps a stop request from being lost.
LEMMA HeardStep ==
    ASSUME TypeOK, ThreadInv, StopIsHeard, [Next]_vars
    PROVE  StopIsHeard'
<1> USE WorkerAssumption DEF TypeOK, StopIsHeard, shared, private, object, history,
           timerHistory, Callers
<1>1. CASE UNCHANGED vars
  BY <1>1 DEF vars
<1>2. ASSUME NEW c \in Callers, Call(c) PROVE StopIsHeard'
  <2>1. /\ UNCHANGED <<thread, stopped, exit, evfd, loop, life>>
        /\ pc[c] = "idle" /\ \E where \in {"notify", "store"} : Goto(c, where)
    BY <1>2 DEF Call, AddTask, AddDelayTask, AddRepeatTask, AddTimerTask, PurgeTimerTask,
                StopLoad, MayCall
  <2> QED
    BY <2>1 DEF Goto
<1>3. ASSUME NEW c \in Callers, StopStore(c) PROVE StopIsHeard'
  BY <1>3 DEF StopStore, Goto
<1>4. ASSUME NEW c \in Callers, Notify(c) PROVE StopIsHeard'
  BY <1>4 DEF Notify, Goto
<1>5. CASE StartLaunch \/ StartFail \/ StartPublish
  <2>1. CASE StartLaunch
    BY <2>1 DEF StartLaunch, OwnerMayAct, Goto
  <2>2. CASE StartFail
    BY <2>2 DEF StartFail, OwnerMayAct
  <2>3. CASE StartPublish
    BY <2>3 DEF StartPublish, ThreadInv
  <2> QED
    BY <1>5, <2>1, <2>2, <2>3
<1>6. CASE Wait \/ FreeBase \/ DestroyMembers
  BY <1>6 DEF Wait, FreeBase, DestroyMembers, ThreadInv
<1>7. CASE Destroy
  BY <1>7 DEF Destroy, OwnerMayAct, Goto
<1>8. CASE ReadEventfd \/ CheckStopped
  BY <1>8 DEF ReadEventfd, CheckStopped
<1>9. CASE Poll \/ TakeTasks \/ BeginTask \/ EndTask \/ TasksDone \/ InstallTimers
           \/ PurgeTimers \/ BeginTimer \/ EndTimer \/ EndIteration
  <2>1. /\ UNCHANGED <<thread, stopped, exit, evfd, life, pc>>
        /\ loop # "check"
    BY <1>9 DEF Poll, TakeTasks, BeginTask, EndTask, TasksDone, InstallTimers,
                PurgeTimers, BeginTimer, EndTimer, EndIteration
  <2> QED
    BY <2>1
<1> QED
  BY <1>1, <1>2, <1>3, <1>4, <1>5, <1>6, <1>7, <1>8, <1>9
     DEF Next, Return, OwnerCall, Destructor, LoopThread, Gone

\* A stop request wakes the loop, and the destructor has made one.
THEOREM StopWakesLoop == Spec => []StopIsHeard
<1>1. Init => StopIsHeard
  BY DEF Init, StopIsHeard
<1>2. IInv /\ StopIsHeard /\ [Next]_vars => StopIsHeard'
  BY HeardStep DEF IInv
<1> QED
  BY <1>1, <1>2, Invariance, PTL DEF Spec

\* What is left of the last pass of a loop that was told to exit: the sections
\* of onNotify still to come, and within one the callbacks still to run.
SectionsLeft ==
    CASE loop = "tasks" -> 5
      [] loop \in {"run", "inTask"} -> 4
      [] loop = "timers" -> 3
      [] loop = "purge" -> 2
      [] loop \in {"due", "inTimer"} -> 1
      [] OTHER -> 0

CallbacksLeft ==
    CASE loop = "run" -> 2 * Len(batch)
      [] loop = "inTask" -> 2 * Len(batch) - 1
      [] loop = "due" -> 2 * Cardinality(due)
      [] loop = "inTimer" -> 2 * Cardinality(due) + 1
      [] OTHER -> 0

Nearer ==
    \/ SectionsLeft' < SectionsLeft
    \/ SectionsLeft' = SectionsLeft /\ CallbacksLeft' < CallbacksLeft

Ending == exit /\ loop \notin {"off", "exited"}

\* A loop that was told to exit makes its last pass: each step of the loop thread
\* brings it nearer to its end, and what the callers submit, purge or stop in the
\* meantime neither adds to the pass nor calls the exit off.
LastPassIsFinite ==
    [][Ending => /\ SectionsLeft' \in 0 .. 5 /\ CallbacksLeft' \in Nat
                 /\ exit'
                 /\ IF LoopThread THEN Nearer ELSE UNCHANGED <<loop, batch, due>>]_vars

\* Poll and the first look at the flag are behind a loop that ends.
LEMMA LastPass ==
    ASSUME IInv, IInv', Ending, LoopThread
    PROVE  Nearer /\ exit'
<1> USE WorkerAssumption DEF Nearer, SectionsLeft, CallbacksLeft
<1>1. /\ exit \in BOOLEAN /\ batch \in Seq(1 .. MaxTasks) /\ Len(batch) \in Nat
      /\ loop \notin {"poll", "read", "check"}
  BY DEF IInv, TypeOK, ThreadInv, Ending
<1>2. IsFiniteSet(due) /\ Cardinality(due) \in Nat
  <2>1. due \subseteq 0 .. TimerIdSpace - 1
    BY DEF IInv, TypeOK, TimerIds
  <2>2. IsFiniteSet(0 .. TimerIdSpace - 1)
    BY FS_Interval
  <2> QED
    BY <2>1, <2>2, FS_Subset, FS_CardinalityType
<1>3. CASE TakeTasks
  BY <1>1, <1>3 DEF TakeTasks, Ending
<1>4. CASE BeginTask
  BY <1>1, <1>4 DEF BeginTask, Ending
<1>5. CASE EndTask
  <2>1. loop = "inTask" /\ loop' = "run" /\ batch' = Tail(batch) /\ exit'
    BY <1>5 DEF EndTask, Ending
  <2>2. batch # <<>>
    BY <2>1 DEF IInv, TaskInv
  <2>3. Len(batch') = Len(batch) - 1
    BY <1>1, <2>1, <2>2, HeadTail, Zenon
  <2>4. SectionsLeft = 4 /\ SectionsLeft' = 4
    BY <2>1
  <2>5. CallbacksLeft = 2 * Len(batch) - 1 /\ CallbacksLeft' = 2 * Len(batch')
    BY <2>1
  <2>6. 2 * Len(batch') < 2 * Len(batch) - 1
    BY <1>1, <2>3
  <2> QED
    BY <2>1, <2>4, <2>5, <2>6
<1>6. CASE TasksDone
  BY <1>1, <1>6 DEF TasksDone, Ending
<1>7. CASE InstallTimers
  BY <1>1, <1>7 DEF InstallTimers, Ending
<1>8. CASE PurgeTimers
  BY <1>1, <1>8 DEF PurgeTimers, Ending
<1>9. CASE BeginTimer
  <2>1. PICK id \in due : due' = due \ {id}
    BY <1>9 DEF BeginTimer
  <2>2. Cardinality(due') = Cardinality(due) - 1
    BY <1>2, <2>1, FS_RemoveElement
  <2>3. loop = "due" /\ loop' = "inTimer" /\ exit'
    BY <1>9 DEF BeginTimer, Ending
  <2> QED
    BY <1>2, <2>2, <2>3
<1>10. CASE EndTimer
  <2>1. loop = "inTimer" /\ loop' = "due" /\ due' = due /\ exit'
    BY <1>10 DEF EndTimer, Ending
  <2> QED
    BY <1>2, <2>1
<1>11. CASE EndIteration
  BY <1>11 DEF EndIteration, Ending
<1> QED
  BY <1>1, <1>3, <1>4, <1>5, <1>6, <1>7, <1>8, <1>9, <1>10, <1>11
     DEF LoopThread, Poll, ReadEventfd, CheckStopped

\* A loop that was told to exit reaches its end in finitely many steps of its
\* own thread: this and StopWakesLoop are what StopEndsLoop needs besides fairness.
THEOREM ExitIsFinal == Spec => LastPassIsFinite
<1> DEFINE Kept == Ending => /\ SectionsLeft' \in 0 .. 5 /\ CallbacksLeft' \in Nat
                             /\ exit'
                             /\ IF LoopThread THEN Nearer ELSE UNCHANGED <<loop, batch, due>>
<1>1. IInv /\ [Next]_vars => IInv'
  BY TypeStep, ThreadStep, TaskStep, HandedOutStep, TimerStep, WakeStep DEF IInv
<1>2. ASSUME IInv, IInv', [Next]_vars PROVE Kept
  <2>1. SectionsLeft' \in 0 .. 5 /\ CallbacksLeft' \in Nat
    <3>1. /\ batch' \in Seq(1 .. MaxTasks)
          /\ loop' = "inTask" => batch' # <<>>
          /\ due' \subseteq TimerIds
      BY <1>2 DEF IInv, TypeOK, TaskInv
    <3>2. Len(batch') \in Nat /\ (loop' = "inTask" => Len(batch') > 0)
      BY <3>1
    <3>3. Cardinality(due') \in Nat
      <4>1. IsFiniteSet(TimerIds)
        BY WorkerAssumption, FS_Interval DEF TimerIds
      <4> QED
        BY <3>1, <4>1, FS_Subset, FS_CardinalityType
    <3> QED
      BY <3>2, <3>3 DEF SectionsLeft, CallbacksLeft
  <2>2. CASE LoopThread
    BY <1>2, <2>1, <2>2, LastPass
  <2>3. ASSUME ~LoopThread, Ending PROVE exit' /\ UNCHANGED <<loop, batch, due>>
    <3>1. thread = "joinable" /\ loop \notin {"off", "exited"}
      BY <1>2, <2>3 DEF Ending, IInv, TypeOK, ThreadInv
    <3>2. life \notin {"baseFreed", "destroyed"}
      BY <1>2, <3>1 DEF IInv, ThreadInv
    <3> USE DEF shared, private, object, history, timerHistory, Ending
    <3>3. CASE UNCHANGED vars
      BY <2>3, <3>3 DEF vars
    <3>4. ASSUME NEW c \in Callers, Call(c) PROVE exit' = exit /\ UNCHANGED <<loop, batch, due>>
      BY <3>4 DEF Call, AddTask, AddDelayTask, AddRepeatTask, AddTimerTask, PurgeTimerTask,
                  StopLoad
    <3>5. ASSUME NEW c \in Callers, Return(c) PROVE exit' = exit /\ UNCHANGED <<loop, batch, due>>
      BY <3>5 DEF Return, StopStore, Notify
    <3>6. CASE OwnerCall
      BY <2>3, <3>1, <3>6 DEF OwnerCall, StartLaunch, StartFail, StartPublish, Wait, Destroy
    <3>7. CASE Destructor
      BY <2>3, <3>1, <3>2, <3>7 DEF Destructor, Wait, FreeBase, DestroyMembers
    <3> QED
      BY <1>2, <2>3, <3>3, <3>4, <3>5, <3>6, <3>7 DEF Next, Gone
  <2> QED
    BY <2>1, <2>2, <2>3
<1> QED
  BY <1>1, <1>2, Invariance, PTL DEF Spec, LastPassIsFinite

-----------------------------------------------------------------------------
(* GeneralWorker implements SerialExecutor.                                *)

\* The jobs the abstract executor has accepted are the tasks submitted.
LEMMA AcceptedIsSubmitted ==
    ASSUME IInv
    PROVE  Executor!Accepted = submitted
<1>1. batch \in Seq(Nat) /\ pendingTasks \in Seq(Nat)
  BY WorkerAssumption DEF IInv, TypeOK
<1>2. Len(batch \o pendingTasks) = Len(batch) + Len(pendingTasks)
  BY <1>1, CatLen
<1> QED
  BY <1>1, <1>2 DEF Executor!Accepted, IInv, TypeOK, TaskInv, Fifo

\* Every step of the worker is a step of the executor, or none.
LEMMA RefinementStep ==
    ASSUME IInv, [Next]_vars
    PROVE  [Executor!Next]_(Executor!execVars)
<1> USE DEF Executor!execVars, shared, private, object, history, timerHistory
<1>1. CASE UNCHANGED vars
  BY <1>1 DEF vars
<1>2. ASSUME NEW c \in Callers, AddTask(c) PROVE [Executor!Next]_(Executor!execVars)
  <2>1. pendingTasks' = Append(pendingTasks, submitted + 1) /\ broken = <<>>
    BY <1>2 DEF AddTask, MayCall, IInv, ThreadInv, TaskInv, InCallback
  <2>2. batch \o Append(pendingTasks, submitted + 1)
            = Append(batch \o pendingTasks, submitted + 1)
    <3>1. batch \in Seq(Nat) /\ pendingTasks \in Seq(Nat) /\ submitted + 1 \in Nat
      BY WorkerAssumption DEF IInv, TypeOK
    <3> QED
      BY <3>1, CatAppend
  <2>3. Executor!Accept
    BY <1>2, <2>1, <2>2, AcceptedIsSubmitted DEF AddTask, Executor!Accept
  <2> QED
    BY <2>3 DEF Executor!Next
<1>3. ASSUME NEW c \in Callers, AddDelayTask(c) PROVE [Executor!Next]_(Executor!execVars)
  BY <1>3 DEF AddDelayTask, AddTimerTask
<1>4. ASSUME NEW c \in Callers, AddRepeatTask(c) PROVE [Executor!Next]_(Executor!execVars)
  BY <1>4 DEF AddRepeatTask, AddTimerTask
<1>5. ASSUME NEW c \in Callers, NEW id \in TimerIds, PurgeTimerTask(c, id)
      PROVE  [Executor!Next]_(Executor!execVars)
  BY <1>5 DEF PurgeTimerTask
<1>6. ASSUME NEW c \in Callers, StopLoad(c) PROVE [Executor!Next]_(Executor!execVars)
  BY <1>6 DEF StopLoad
<1>7. ASSUME NEW c \in Callers, StopStore(c) PROVE [Executor!Next]_(Executor!execVars)
  <2>1. CASE stopped
    BY <1>7, <2>1 DEF StopStore
  <2>2. CASE ~stopped
    <3>1. Executor!RequestStop
      BY <1>7, <2>2, AcceptedIsSubmitted DEF StopStore, Executor!RequestStop
    <3> QED
      BY <3>1 DEF Executor!Next
  <2> QED
    BY <2>1, <2>2
<1>8. ASSUME NEW c \in Callers, Notify(c) PROVE [Executor!Next]_(Executor!execVars)
  BY <1>8 DEF Notify
<1>9. CASE StartLaunch
  <2>1. Executor!Open
    BY <1>9 DEF StartLaunch, IInv, ThreadInv, Executor!Open
  <2> QED
    BY <2>1 DEF Executor!Next
<1>10. CASE StartFail
  BY <1>10 DEF StartFail
<1>11. CASE StartPublish
  BY <1>11 DEF StartPublish
<1>12. CASE Wait
  BY <1>12 DEF Wait
<1>13. CASE Destroy
  BY <1>13 DEF Destroy
<1>14. CASE FreeBase
  BY <1>14 DEF FreeBase
<1>15. CASE DestroyMembers
  <2>1. loop = "off" /\ batch = <<>> /\ broken = <<>>
    BY <1>15 DEF DestroyMembers, IInv, ThreadInv, TaskInv
  <2>2. batch \o pendingTasks = pendingTasks /\ batch' \o pendingTasks' = <<>>
    <3>1. pendingTasks \in Seq(Nat)
      BY WorkerAssumption DEF IInv, TypeOK
    <3>2. batch' = <<>> /\ pendingTasks' = <<>>
      BY <1>15, <2>1 DEF DestroyMembers
    <3> QED
      BY <2>1, <3>1, <3>2, CatEmpty
  <2>3. Executor!Discard
    BY <1>15, <2>1, <2>2 DEF DestroyMembers, Executor!Discard
  <2> QED
    BY <2>3 DEF Executor!Next
<1>16. CASE Poll
  BY <1>16 DEF Poll
<1>17. CASE ReadEventfd
  BY <1>17 DEF ReadEventfd
<1>18. CASE CheckStopped
  BY <1>18 DEF CheckStopped
<1>19. CASE TakeTasks
  <2>1. batch = <<>> /\ batch' = pendingTasks /\ pendingTasks' = <<>>
    BY <1>19 DEF TakeTasks, IInv, TaskInv
  <2>2. batch' \o pendingTasks' = batch \o pendingTasks
    <3>1. pendingTasks \in Seq(Nat)
      BY WorkerAssumption DEF IInv, TypeOK
    <3> QED
      BY <2>1, <3>1, CatEmpty
  <2> QED
    BY <1>19, <2>2 DEF TakeTasks
<1>20. CASE BeginTask
  <2>1. batch \o pendingTasks # <<>>
    <3>1. batch \in Seq(Nat) /\ pendingTasks \in Seq(Nat) /\ batch # <<>>
      BY <1>20, WorkerAssumption DEF IInv, TypeOK, BeginTask
    <3> QED
      BY <3>1, CatTail
  <2>2. Executor!Begin
    BY <1>20, <2>1 DEF BeginTask, Executor!Begin
  <2> QED
    BY <2>2 DEF Executor!Next
<1>21. CASE EndTask
  <2>1. /\ Head(batch \o pendingTasks) = Head(batch)
        /\ Tail(batch \o pendingTasks) = Tail(batch) \o pendingTasks
    <3>1. batch \in Seq(Nat) /\ pendingTasks \in Seq(Nat) /\ batch # <<>>
      BY <1>21, WorkerAssumption DEF IInv, TypeOK, TaskInv, EndTask
    <3> QED
      BY <3>1, CatTail
  <2>2. Executor!Finish
    BY <1>21, <2>1 DEF EndTask, Executor!Finish
  <2> QED
    BY <2>2 DEF Executor!Next
<1>22. CASE TasksDone
  BY <1>22 DEF TasksDone
<1>23. CASE InstallTimers
  BY <1>23 DEF InstallTimers
<1>24. CASE PurgeTimers
  BY <1>24 DEF PurgeTimers
<1>25. CASE BeginTimer
  BY <1>25 DEF BeginTimer
<1>26. CASE EndTimer
  BY <1>26 DEF EndTimer
<1>27. CASE EndIteration
  <2>1. CASE exit
    <3>1. batch = <<>> /\ Len(executed) >= owed
      BY <1>27, <2>1 DEF EndIteration, IInv, TypeOK, TaskInv
    <3>2. Executor!Close
      BY <1>27, <2>1, <3>1 DEF EndIteration, Executor!Close
    <3> QED
      BY <3>2 DEF Executor!Next
  <2>2. CASE ~exit
    BY <1>27, <2>2 DEF EndIteration
  <2> QED
    BY <2>1, <2>2
<1> QED
  BY <1>1, <1>2, <1>3, <1>4, <1>5, <1>6, <1>7, <1>8, <1>9, <1>10, <1>11,
     <1>12, <1>13, <1>14, <1>15, <1>16, <1>17, <1>18, <1>19, <1>20, <1>21,
     <1>22, <1>23, <1>24, <1>25, <1>26, <1>27
     DEF Next, Call, Return, OwnerCall, Destructor, LoopThread, Gone

\* A new worker is a closed, empty executor.
LEMMA RefinementInit == ASSUME Init PROVE Executor!Init
<1>1. <<>> \o <<>> = <<>>
  BY CatEmpty
<1> QED
  BY <1>1 DEF Init, Executor!Init

-----------------------------------------------------------------------------
(* GeneralWorker keeps the contract with its pool.                         *)

\* What the mapping to the contract reads of the state, other than the queue.
SameStart == stopped' /\ pc'[Owner] # "publish" <=> stopped /\ pc[Owner] # "publish"
SamePlace ==
    /\ loop' = "off" <=> loop = "off"
    /\ loop' = "exited" <=> loop = "exited"
    /\ loop' = "inTask" <=> loop = "inTask"
SameTimers ==
    /\ UNCHANGED <<nextTimerId, purged, finished, repeats>>
    /\ life' = "destroyed" <=> life = "destroyed"

\* What a step leaves alone the contract does not see.
LEMMA StartFrame ==
    ASSUME SameStart
    PROVE  (stopped /\ pc[Owner] # "publish")' = (stopped /\ pc[Owner] # "publish")
BY DEF SameStart

\* What leaves the counter and the sets of ids alone registers no timer.
LEMMA RegisteredFrame == ASSUME SameTimers PROVE Registered' = Registered
BY DEF SameTimers, Registered

\* A step of the worker that the contract does not see.
LEMMA ContractFrame ==
    ASSUME SameStart, SamePlace, SameTimers, batch' \o pendingTasks' = batch \o pendingTasks,
           executed' = executed, owed' = owed
    PROVE  UNCHANGED Contract!contractVars
<1>1. (stopped /\ pc[Owner] # "publish")' = (stopped /\ pc[Owner] # "publish")
  BY StartFrame
<1>2. Registered' = Registered
  BY RegisteredFrame
<1>3. (loop = "inTask")' = (loop = "inTask")
  BY DEF SamePlace
<1>4. /\ purged' = purged
      /\ nextTimerId' = nextTimerId
  BY DEF SameTimers
<1> QED
  BY <1>1, <1>2, <1>3, <1>4 DEF Contract!contractVars, SamePlace

\* A call that moves on, and neither begins nor ends the window of start().
LEMMA GotoFrame ==
    ASSUME TypeOK, NEW c \in Callers, NEW where, Goto(c, where),
           pc[c] # "publish", where # "publish", stopped' = stopped
    PROVE  SameStart
BY WorkerAssumption DEF Goto, TypeOK, Callers, SameStart

\* What a sequence of consecutive numbers holds.
LEMMA Numbered ==
    ASSUME NEW n \in Nat, NEW len \in Nat, NEW last \in Nat, n + len = last,
           NEW q, DOMAIN q = 1 .. len, \A k \in 1 .. len : q[k] = n + k
    PROVE  Contract!JobsOf(q) = n + 1 .. last
<1>1. \A x \in n + 1 .. last : x - n \in 1 .. len /\ q[x - n] = x
  <2> SUFFICES ASSUME NEW x \in n + 1 .. last
               PROVE  x - n \in 1 .. len /\ q[x - n] = x
    OBVIOUS
  <2>1. x - n \in 1 .. len /\ n + (x - n) = x
    OBVIOUS
  <2> QED
    BY <2>1
<1>2. \A k \in 1 .. len : q[k] \in n + 1 .. last
  OBVIOUS
<1>3. Contract!JobsOf(q) = {q[k] : k \in 1 .. len}
  BY DEF Contract!JobsOf
<1>4. {q[k] : k \in 1 .. len} \subseteq n + 1 .. last
  BY <1>2
<1>5. n + 1 .. last \subseteq {q[k] : k \in 1 .. len}
  BY <1>1
<1> QED
  BY <1>3, <1>4, <1>5

\* The tasks that wait are numbered on from the last one that ran.
LEMMA WaitingNumbers ==
    ASSUME IInv, broken = <<>>
    PROVE  /\ Len(executed) + Len(batch \o pendingTasks) = submitted
           /\ \A k \in 1 .. Len(batch \o pendingTasks) :
                 (batch \o pendingTasks)[k] = Len(executed) + k
<1>1. /\ batch \in Seq(Nat) /\ pendingTasks \in Seq(Nat) /\ Len(executed) \in Nat
      /\ submitted \in Nat /\ Len(broken) = 0
  BY WorkerAssumption DEF IInv, TypeOK
<1> DEFINE q == batch \o pendingTasks
           n == Len(executed)
<1>2. Len(q) = Len(batch) + Len(pendingTasks) /\ DOMAIN q = 1 .. Len(q) /\ q \in Seq(Nat)
  BY <1>1, CatLen
<1>3. \A k \in 1 .. Len(batch) : q[k] = batch[k]
  BY <1>1
<1>4. \A k \in 1 .. Len(pendingTasks) : q[Len(batch) + k] = pendingTasks[k]
  BY <1>1
<1>5. n + Len(q) = submitted
  BY <1>1, <1>2 DEF IInv, TaskInv, Fifo
<1>6. \A k \in 1 .. Len(q) : q[k] = n + k
  <2> SUFFICES ASSUME NEW k \in 1 .. Len(q) PROVE q[k] = n + k
    OBVIOUS
  <2>1. CASE k \in 1 .. Len(batch)
    BY <2>1, <1>3 DEF IInv, TaskInv, Fifo
  <2>2. CASE k \notin 1 .. Len(batch)
    <3>1. PICK j \in 1 .. Len(pendingTasks) : k = Len(batch) + j
      <4>1. k - Len(batch) \in 1 .. Len(pendingTasks)
        BY <1>1, <1>2, <2>2
      <4>2. k = Len(batch) + (k - Len(batch))
        BY <1>1, <1>2
      <4> QED
        BY <4>1, <4>2
    <3>2. pendingTasks[j] = n + Len(batch) + j
      BY DEF IInv, TaskInv, Fifo
    <3> QED
      BY <3>1, <3>2, <1>1, <1>4
  <2> QED
    BY <2>1, <2>2
<1> QED
  BY <1>5, <1>6

\* So they are those submitted after it.
LEMMA WaitingTasks ==
    ASSUME IInv, broken = <<>>
    PROVE  /\ Contract!JobsOf(batch \o pendingTasks) = Len(executed) + 1 .. submitted
           /\ Len(executed) \in Nat
<1>1. batch \in Seq(Nat) /\ pendingTasks \in Seq(Nat) /\ Len(executed) \in Nat /\ submitted \in Nat
  BY WorkerAssumption DEF IInv, TypeOK
<1>2. batch \o pendingTasks \in Seq(Nat)
  BY <1>1
<1>3. ASSUME NEW r \in Seq(Nat), NEW n \in Nat, n + Len(r) = submitted,
             \A k \in 1 .. Len(r) : r[k] = n + k
      PROVE  Contract!JobsOf(r) = n + 1 .. submitted
  <2>1. DOMAIN r = 1 .. Len(r) /\ Len(r) \in Nat
    OBVIOUS
  <2> QED
    BY <1>1, <1>3, <2>1, Numbered
<1> QED
  BY <1>1, <1>2, <1>3, WaitingNumbers

\* A task is accepted under a number that does not wait yet.
LEMMA AddTaskAccepted ==
    ASSUME IInv, NEW c \in Callers, AddTask(c)
    PROVE  Contract!Accept
<1>1. pendingTasks' = Append(pendingTasks, submitted + 1) /\ broken = <<>>
  BY DEF AddTask, MayCall, IInv, ThreadInv, TaskInv, InCallback
<1>2. batch \in Seq(Nat) /\ pendingTasks \in Seq(Nat) /\ submitted + 1 \in Nat
  BY WorkerAssumption DEF IInv, TypeOK
<1>3. batch' = batch /\ batch \o Append(pendingTasks, submitted + 1)
                            = Append(batch \o pendingTasks, submitted + 1)
  BY <1>2, CatAppend DEF AddTask, private
<1> DEFINE q == batch \o pendingTasks
<1>4. q \in Seq(Nat) /\ batch' \o pendingTasks' = Append(q, submitted + 1)
  <2>1. q \in Seq(Nat)
    BY <1>2
  <2> QED
    BY <1>1, <1>3, <2>1, Zenon
<1>5. submitted + 1 \in Contract!JobsOf(Append(q, submitted + 1)) \ Contract!JobsOf(q)
  <2>1. Contract!JobsOf(q) = Len(executed) + 1 .. submitted
    BY <1>1, WaitingTasks
  <2>2. submitted + 1 \notin Contract!JobsOf(q)
    BY <1>2, <2>1, WorkerAssumption DEF IInv, TypeOK
  <2>3. submitted + 1 \in Contract!JobsOf(Append(q, submitted + 1))
    <3> HIDE DEF q
    <3>1. /\ Append(q, submitted + 1)[Len(q) + 1] = submitted + 1
          /\ Len(q) + 1 \in DOMAIN Append(q, submitted + 1)
      BY <1>2, <1>4
    <3> QED
      BY <3>1 DEF Contract!JobsOf
  <2> QED
    BY <2>2, <2>3
<1>6. SameStart /\ SameTimers
  BY GotoFrame DEF AddTask, MayCall, IInv, shared, private, object, timerHistory, SameTimers
<1>7. /\ (stopped /\ pc[Owner] # "publish")' = (stopped /\ pc[Owner] # "publish")
      /\ Registered' = Registered
      /\ nextTimerId' = nextTimerId /\ purged' = purged
  BY <1>6, StartFrame, RegisteredFrame DEF SameTimers
<1>8. loop' = loop /\ executed' = executed /\ owed' = owed
  BY DEF AddTask, private
<1> QED
  BY <1>4, <1>5, <1>7, <1>8 DEF Contract!Accept

\* A timer is registered under the next id.
LEMMA AddTimerRegistered ==
    ASSUME IInv, NEW c \in Callers, NEW ms \in Intervals, AddTimerTask(c, ms),
           NEW repeat \in BOOLEAN,
           repeats' = IF repeat THEN repeats \cup {nextTimerId} ELSE repeats
    PROVE  Contract!AddTimer(repeat)
<1>1. /\ NextTimerId = nextTimerId /\ nextTimerId \in Nat
      /\ \A id \in finished \cup purged \cup repeats : id \in Nat /\ id < nextTimerId
  BY AddTimerIds DEF IInv
<1>2. nextTimerId' = nextTimerId + 1 /\ nextTimerId \in TimerIds /\ TimerIds \subseteq Nat
  BY <1>1, NewTimerId, WorkerAssumption DEF AddTimerTask, TimerIds
<1>3. life # "destroyed"
  BY DEF AddTimerTask, MayCall, IInv, ThreadInv, InCallback
<1>4. UNCHANGED <<life, finished, purged, batch, pendingTasks, loop, executed, owed>>
  BY DEF AddTimerTask, private, object
<1>5. Registered' = Registered \cup {[id |-> nextTimerId, repeat |-> repeat]}
  <2> DEFINE Old == {m \in TimerIds : m < nextTimerId} \ (purged \cup finished)
             New == {m \in TimerIds : m < nextTimerId'} \ (purged' \cup finished')
  <2>1. New = Old \cup {nextTimerId} /\ nextTimerId \notin Old
    <3>1. \A m \in TimerIds : m < nextTimerId' <=> m < nextTimerId \/ m = nextTimerId
      BY <1>1, <1>2
    <3>2. nextTimerId \notin purged' \cup finished' /\ ~(nextTimerId < nextTimerId)
      BY <1>1, <1>4
    <3> QED
      BY <1>2, <1>4, <3>1, <3>2
  <2>2. \A n \in Old : (n \in repeats') = (n \in repeats)
    BY <1>1, <1>2
  <2>3. (nextTimerId \in repeats') = repeat
    BY <1>1
  <2>4. Registered = {[id |-> n, repeat |-> n \in repeats] : n \in Old}
    BY <1>3 DEF Registered
  <2>5. Registered' = {[id |-> n, repeat |-> n \in repeats'] : n \in New}
    BY <1>3, <1>4 DEF Registered
  <2> HIDE DEF Old, New
  <2>6. {[id |-> n, repeat |-> n \in repeats'] : n \in New}
            = {[id |-> n, repeat |-> n \in repeats'] : n \in Old}
                  \cup {[id |-> nextTimerId, repeat |-> nextTimerId \in repeats']}
    BY <2>1
  <2>7. {[id |-> n, repeat |-> n \in repeats'] : n \in Old}
            = {[id |-> n, repeat |-> n \in repeats] : n \in Old}
    BY <2>2
  <2> QED
    BY <2>3, <2>4, <2>5, <2>6, <2>7
<1>6. SameStart
  BY GotoFrame DEF AddTimerTask, MayCall, IInv
<1>7. (stopped /\ pc[Owner] # "publish")' = (stopped /\ pc[Owner] # "publish")
  BY <1>6, StartFrame
<1>8. nextTimerId % TimerIdSpace = nextTimerId
  BY <1>1 DEF NextTimerId
<1> QED
  BY <1>2, <1>4, <1>5, <1>7, <1>8 DEF Contract!AddTimer

\* A timer that runs for the last time was registered and is no longer, unless
\* a purge request has come first.
LEMMA EndTimerFires ==
    ASSUME IInv, RepeatInv, EndTimer
    PROVE  Contract!Fire \/ UNCHANGED Contract!contractVars
<1>1. /\ UNCHANGED <<nextTimerId, purged, repeats, life, batch, pendingTasks, executed,
                     owed, stopped, pc>>
      /\ loop = "inTimer" /\ loop' = "due"
  BY DEF EndTimer, shared, object
<1>2. SameStart /\ SamePlace
  BY <1>1 DEF SameStart, SamePlace
<1>3. CASE ~OneShot(current) \/ current \in purged \/ life = "destroyed"
  <2>1. Registered' = Registered
    BY <1>1, <1>3 DEF EndTimer, Registered
  <2>2. (stopped /\ pc[Owner] # "publish")' = (stopped /\ pc[Owner] # "publish")
    BY <1>2, StartFrame
  <2>3. (loop = "inTask")' = (loop = "inTask")
    BY <1>1
  <2>4. UNCHANGED Contract!contractVars
    BY <1>1, <2>1, <2>2, <2>3 DEF Contract!contractVars
  <2> QED
    BY <2>4
<1>4. CASE OneShot(current) /\ current \notin purged /\ life # "destroyed"
  <2>1. finished' = finished \cup {current}
    BY <1>4 DEF EndTimer
  <2>2. current \notin repeats
    BY <1>4 DEF OneShot, RepeatInv
  <2>3. current \in TimerIds /\ current < nextTimerId /\ current \notin finished
    <3>1. current \in Ids(active)
      BY <1>1 DEF IInv, TimerInv, DueTimersAreInstalled
    <3> QED
      BY <3>1 DEF IInv, TypeOK, TimerInv, OneShotFiresOnce
  <2> DEFINE Old == {m \in TimerIds : m < nextTimerId} \ (purged \cup finished)
             R(n) == [id |-> n, repeat |-> n \in repeats]
  <2>4. Registered = {R(n) : n \in Old} /\ Registered' = {R(n) : n \in Old \ {current}}
    BY <1>1, <1>4, <2>1 DEF Registered
  <2>5. current \in Old
    BY <1>4, <2>3
  <2>6. \A n, m : R(n) = R(m) => n = m
    <3>1. \A n : R(n).id = n
      OBVIOUS
    <3> HIDE DEF R
    <3> QED
      BY <3>1
  <2>7. ~R(current).repeat
    <3>1. R(current).repeat <=> current \in repeats
      OBVIOUS
    <3> QED
      BY <2>2, <3>1
  <2>8. /\ Registered' = Registered \ {R(current)}
        /\ R(current) \in Registered
        /\ ~R(current).repeat
    <3> HIDE DEF R, Old
    <3> QED
      BY <2>4, <2>5, <2>6, <2>7
  <2>9. (stopped /\ pc[Owner] # "publish")' = (stopped /\ pc[Owner] # "publish")
    BY <1>2, StartFrame
  <2>10. \E t \in Registered : ~t.repeat /\ Registered' = Registered \ {t}
    BY <2>8
  <2>11. Contract!Fire
    BY <1>1, <2>9, <2>10 DEF Contract!Fire
  <2> QED
    BY <2>11
<1> QED
  BY <1>3, <1>4

\* A task that ends was the first to wait, and is owed no longer.
LEMMA EndTaskFinishes ==
    ASSUME IInv, EndTask
    PROVE  Contract!Finish
<1>1. batch \in Seq(Nat) /\ pendingTasks \in Seq(Nat) /\ batch # <<>>
  BY WorkerAssumption DEF IInv, TypeOK, TaskInv, EndTask
<1> DEFINE q == batch \o pendingTasks
<1>2. /\ batch' = Tail(batch) /\ pendingTasks' = pendingTasks
      /\ executed' = Append(executed, Head(batch))
      /\ loop = "inTask" /\ loop' = "run"
      /\ UNCHANGED <<owed, broken, submitted, nextTimerId, purged, finished, repeats,
                     life, stopped, pc>>
  BY DEF EndTask, shared, object, timerHistory
<1>3. Tail(q) = batch' \o pendingTasks'
  BY <1>1, <1>2, CatTail
<1>4. Contract!JobsOf(Tail(q)) = Len(executed) + 2 .. submitted
  <2>1. broken = <<>>
    BY DEF EndTask, IInv, ThreadInv, TaskInv
  <2>2. Contract!JobsOf(q) = Len(executed) + 1 .. submitted /\ Len(executed) \in Nat
    BY <2>1, WaitingTasks
  <2>3. q \in Seq(Nat) /\ Len(q) \in Nat \ {0} /\ submitted \in Nat
    <3>1. q \in Seq(Nat) /\ q # <<>>
      BY <1>1, CatTail
    <3> QED
      BY <3>1, HeadTail, WorkerAssumption DEF IInv, TypeOK
  <2>4. /\ Len(executed) + Len(q) = submitted
        /\ \A k \in 1 .. Len(q) : q[k] = Len(executed) + k
    BY <2>1, WaitingNumbers
  <2> HIDE DEF q
  <2>5. /\ DOMAIN Tail(q) = 1 .. Len(q) - 1
        /\ \A k \in 1 .. Len(q) - 1 : Tail(q)[k] = q[k + 1]
    BY <2>3
  <2>6. \A k \in 1 .. Len(q) - 1 : Tail(q)[k] = Len(executed) + 1 + k
    <3> SUFFICES ASSUME NEW k \in 1 .. Len(q) - 1 PROVE Tail(q)[k] = Len(executed) + 1 + k
      OBVIOUS
    <3>1. k + 1 \in 1 .. Len(q) /\ Len(executed) + (k + 1) = Len(executed) + 1 + k
      BY <2>2, <2>3
    <3> QED
      BY <3>1, <2>4, <2>5
  <2> DEFINE n == Len(executed) + 1
             len == Len(q) - 1
             r == Tail(q)
  <2>7. n \in Nat /\ len \in Nat /\ n + len = submitted
    <3>1. \A a \in Nat : \A b \in Nat \ {0} : (a + 1) + (b - 1) = a + b /\ b - 1 \in Nat
      OBVIOUS
    <3>2. Len(executed) \in Nat /\ Len(q) \in Nat \ {0}
      BY <2>2, <2>3
    <3> QED
      BY <2>4, <3>1, <3>2
  <2>8. \A k \in 1 .. len : r[k] = n + k
    BY <2>6
  <2>9. DOMAIN r = 1 .. len
    BY <2>5
  <2>10. Contract!JobsOf(r) = n + 1 .. submitted
    <3> HIDE DEF n, len, r
    <3> QED
      BY <2>3, <2>7, <2>8, <2>9, Numbered, SMTT(30)
  <2>11. n + 1 = Len(executed) + 2
    BY <2>2
  <2> QED
    BY <2>10, <2>11
<1>5. Len(executed)' + 1 .. owed' = (Len(executed) + 1 .. owed) \cap Contract!JobsOf(Tail(q))
  <2>1. Len(executed)' = Len(executed) + 1 /\ Len(executed) \in Nat
    BY <1>1, <1>2, WorkerAssumption DEF IInv, TypeOK
  <2>2. owed' = owed /\ owed \in Nat /\ submitted \in Nat /\ owed <= submitted
    BY <1>2, WorkerAssumption DEF IInv, TypeOK, TaskInv
  <2> QED
    BY <2>1, <2>2, <1>4
<1>6. Registered' = Registered /\ SameStart
  BY <1>2, RegisteredFrame DEF SameTimers, SameStart
<1>7. (stopped /\ pc[Owner] # "publish")' = (stopped /\ pc[Owner] # "publish")
  BY <1>6, StartFrame
<1>8. (loop = "inTask") = TRUE /\ (loop = "inTask")' = FALSE
  BY <1>2
<1> QED
  BY <1>2, <1>3, <1>5, <1>6, <1>7, <1>8 DEF Contract!Finish

\* A purge request takes effect at once.
LEMMA PurgeRegistered ==
    ASSUME IInv, NEW c \in Callers, NEW id \in TimerIds, PurgeTimerTask(c, id)
    PROVE  Contract!Purge(id)
<1>1. /\ UNCHANGED <<nextTimerId, repeats, life, batch, pendingTasks, executed, owed,
                     finished, loop>>
      /\ purged' = purged \cup {id}
  BY DEF PurgeTimerTask, private, object
<1>2. Registered' = {t \in Registered : t.id # id}
  BY <1>1 DEF Registered
<1>3. SameStart
  BY GotoFrame DEF PurgeTimerTask, MayCall, IInv
<1>4. (stopped /\ pc[Owner] # "publish")' = (stopped /\ pc[Owner] # "publish")
  BY <1>3, StartFrame
<1> QED
  BY <1>1, <1>2, <1>4 DEF Contract!Purge

\* Every step of the worker is a step of the contract, or none.
LEMMA ContractStep ==
    ASSUME IInv, RepeatInv, [Next]_vars
    PROVE  [Contract!Next]_(Contract!contractVars)
<1> DEFINE Kept == [Contract!Next]_(Contract!contractVars)
<1> USE DEF shared, private, object, history, timerHistory
<1>1. CASE UNCHANGED vars
  <2>1. SameStart /\ SamePlace /\ SameTimers /\ executed' = executed /\ owed' = owed
        /\ batch' \o pendingTasks' = batch \o pendingTasks
    BY <1>1 DEF vars, SameStart, SamePlace, SameTimers
  <2> QED
    BY <2>1, ContractFrame
<1>2. ASSUME NEW c \in Callers, AddTask(c) PROVE Kept
  BY <1>2, AddTaskAccepted DEF Contract!Next
<1>3. ASSUME NEW c \in Callers, AddDelayTask(c) PROVE Kept
  <2>1. AddTimerTask(c, 0) /\ repeats' = repeats /\ 0 \in Intervals
    BY <1>3 DEF AddDelayTask, Intervals
  <2>2. Contract!AddTimer(FALSE)
    BY <2>1, AddTimerRegistered
  <2> QED
    BY <2>2 DEF Contract!Next
<1>4. ASSUME NEW c \in Callers, AddRepeatTask(c) PROVE Kept
  <2>1. PICK ms \in RepeatIntervals :
            /\ AddTimerTask(c, ms)
            /\ repeats' = IF ms = 0 THEN repeats ELSE repeats \cup {NextTimerId}
    BY <1>4 DEF AddRepeatTask
  <2>2. ms \in Intervals
    BY DEF Intervals
  <2>3. NextTimerId = nextTimerId
    BY <2>1, <2>2, AddTimerIds DEF IInv
  <2>4. CASE ms = 0
    BY <2>1, <2>2, <2>4, AddTimerRegistered DEF Contract!Next
  <2>5. CASE ms # 0
    BY <2>1, <2>2, <2>3, <2>5, AddTimerRegistered DEF Contract!Next
  <2> QED
    BY <2>4, <2>5
<1>5. ASSUME NEW c \in Callers, NEW id \in TimerIds, PurgeTimerTask(c, id) PROVE Kept
  BY <1>5, PurgeRegistered DEF Contract!Next, TimerIds
<1>6. ASSUME NEW c \in Callers, StopLoad(c) PROVE Kept
  <2>1. SameStart
    BY <1>6, GotoFrame DEF StopLoad, MayCall, IInv
  <2> QED
    BY <1>6, <2>1, ContractFrame DEF StopLoad, SamePlace, SameTimers
<1>7. ASSUME NEW c \in Callers, StopStore(c) PROVE Kept
  <2>1. pc[Owner] # "publish" /\ pc'[Owner] # "publish"
    BY <1>7, WorkerAssumption DEF StopStore, Goto, IInv, TypeOK, ThreadInv, Callers, InCallback
  <2>2. /\ stopped' = TRUE /\ owed' = IF stopped THEN owed ELSE submitted
        /\ UNCHANGED <<batch, pendingTasks, loop, executed>>
        /\ UNCHANGED <<nextTimerId, purged, finished, repeats, life>>
    BY <1>7 DEF StopStore
  <2>3. SamePlace /\ SameTimers
    BY <2>2 DEF SamePlace, SameTimers
  <2>4. CASE stopped
    <3>1. SameStart
      BY <2>1, <2>2, <2>4 DEF SameStart
    <3> QED
      BY <2>2, <2>3, <2>4, <3>1, ContractFrame
  <2>5. CASE ~stopped
    <3>1. broken = <<>>
      BY <1>7 DEF StopStore, IInv, ThreadInv, TaskInv
    <3>2. Len(executed) + 1 .. submitted = Contract!JobsOf(batch \o pendingTasks)
      BY <3>1, WaitingTasks
    <3>3. Registered' = Registered
      BY <2>3, RegisteredFrame
    <3>4. /\ ~(stopped /\ pc[Owner] # "publish")
          /\ (stopped /\ pc[Owner] # "publish")' = TRUE
      BY <2>1, <2>2, <2>5
    <3>5. Contract!StopRequest
      BY <2>2, <2>5, <3>2, <3>3, <3>4 DEF Contract!StopRequest
    <3> QED
      BY <3>5 DEF Contract!Next
  <2> QED
    BY <2>4, <2>5
<1>8. ASSUME NEW c \in Callers, Notify(c) PROVE Kept
  <2>1. SameStart
    BY <1>8, GotoFrame DEF Notify, IInv
  <2> QED
    BY <1>8, <2>1, ContractFrame DEF Notify, SamePlace, SameTimers
<1>9. CASE StartLaunch
  <2>1. /\ stopped /\ pc[Owner] = "idle" /\ pc'[Owner] = "publish" /\ loop = "off"
        /\ loop' = "poll"
    BY <1>9, WorkerAssumption DEF StartLaunch, OwnerMayAct, Goto, IInv, TypeOK, ThreadInv, Callers
  <2>2. /\ UNCHANGED <<batch, pendingTasks, executed, owed>>
        /\ UNCHANGED <<nextTimerId, purged, finished, repeats, life>>
    BY <1>9 DEF StartLaunch
  <2>3. Registered' = Registered
    BY <2>2, RegisteredFrame DEF SameTimers
  <2>4. /\ (stopped /\ pc[Owner] # "publish")
        /\ (stopped /\ pc[Owner] # "publish")' = FALSE
    BY <2>1
  <2>5. (loop = "inTask")' = (loop = "inTask")
    BY <2>1
  <2>6. Contract!Start
    BY <2>1, <2>2, <2>3, <2>4, <2>5 DEF Contract!Start
  <2> QED
    BY <2>6 DEF Contract!Next
<1>10. CASE StartFail
  <2>1. SameStart /\ SamePlace /\ SameTimers
    BY <1>10 DEF StartFail, SameStart, SamePlace, SameTimers
  <2> QED
    BY <1>10, <2>1, ContractFrame DEF StartFail
<1>11. CASE StartPublish
  <2>1. SameStart
    BY <1>11, WorkerAssumption DEF StartPublish, Goto, IInv, TypeOK, Callers, SameStart
  <2> QED
    BY <1>11, <2>1, ContractFrame DEF StartPublish, SamePlace, SameTimers
<1>12. CASE Wait
  <2>1. Registered' = Registered /\ SameStart
    BY <1>12, RegisteredFrame DEF Wait, SameTimers, SameStart
  <2>2. (stopped /\ pc[Owner] # "publish")' = (stopped /\ pc[Owner] # "publish")
    BY <2>1, StartFrame
  <2>3. loop = "exited" /\ loop' = "off" /\ (loop = "inTask")' = (loop = "inTask")
    BY <1>12 DEF Wait
  <2>4. Contract!Join
    BY <1>12, <2>1, <2>2, <2>3 DEF Wait, Contract!Join
  <2> QED
    BY <2>4 DEF Contract!Next
<1>13. CASE Destroy
  <2>1. pc[Owner] # "publish" /\ pc'[Owner] # "publish" /\ stopped' = stopped
        /\ life # "destroyed" /\ life' # "destroyed"
    BY <1>13, WorkerAssumption DEF Destroy, OwnerMayAct, Goto, IInv, TypeOK, Callers
  <2>2. SameStart
    BY <2>1 DEF SameStart
  <2> QED
    BY <1>13, <2>1, <2>2, ContractFrame DEF Destroy, SamePlace, SameTimers
<1>14. CASE FreeBase
  BY <1>14, ContractFrame DEF FreeBase, SameStart, SamePlace, SameTimers
<1>15. CASE DestroyMembers
  <2>1. loop = "off" /\ batch = <<>> /\ Len(executed) >= owed
    BY <1>15 DEF DestroyMembers, IInv, ThreadInv, TaskInv
  <2>2. batch' \o pendingTasks' = <<>>
    BY <1>15, <2>1 DEF DestroyMembers
  <2>3. Len(executed) + 1 .. owed = {}
    BY <2>1, WorkerAssumption DEF IInv, TypeOK
  <2>4. Registered' = {}
    BY <1>15 DEF DestroyMembers, Registered
  <2>5. SameStart
    BY <1>15 DEF DestroyMembers, SameStart
  <2>6. (stopped /\ pc[Owner] # "publish")' = (stopped /\ pc[Owner] # "publish")
    BY <2>5, StartFrame
  <2>7. Contract!Discard
    BY <1>15, <2>1, <2>2, <2>3, <2>4, <2>6 DEF DestroyMembers, Contract!Discard
  <2> QED
    BY <2>7 DEF Contract!Next
<1>16. CASE Poll
  BY <1>16, ContractFrame DEF Poll, SameStart, SamePlace, SameTimers
<1>17. CASE ReadEventfd
  BY <1>17, ContractFrame DEF ReadEventfd, SameStart, SamePlace, SameTimers
<1>18. CASE CheckStopped
  BY <1>18, ContractFrame DEF CheckStopped, SameStart, SamePlace, SameTimers
<1>19. CASE TakeTasks
  <2>1. batch' \o pendingTasks' = batch \o pendingTasks
    <3>1. batch = <<>> /\ batch' = pendingTasks /\ pendingTasks' = <<>>
      BY <1>19 DEF TakeTasks, IInv, TaskInv
    <3>2. pendingTasks \in Seq(Nat)
      BY WorkerAssumption DEF IInv, TypeOK
    <3> QED
      BY <3>1, <3>2, CatEmpty
  <2> QED
    BY <1>19, <2>1, ContractFrame DEF TakeTasks, SameStart, SamePlace, SameTimers
<1>20. CASE BeginTask
  <2>1. batch \o pendingTasks # <<>>
    <3>1. batch \in Seq(Nat) /\ pendingTasks \in Seq(Nat) /\ batch # <<>>
      BY <1>20, WorkerAssumption DEF IInv, TypeOK, BeginTask
    <3> QED
      BY <3>1, CatTail
  <2>2. Registered' = Registered /\ SameStart
    BY <1>20, RegisteredFrame DEF BeginTask, SameTimers, SameStart
  <2>3. (stopped /\ pc[Owner] # "publish")' = (stopped /\ pc[Owner] # "publish")
    BY <2>2, StartFrame
  <2>4. loop = "run" /\ loop' = "inTask" /\ (loop = "inTask")' = TRUE
    BY <1>20 DEF BeginTask
  <2>5. Contract!Begin
    BY <1>20, <2>1, <2>2, <2>3, <2>4 DEF BeginTask, Contract!Begin
  <2> QED
    BY <2>5 DEF Contract!Next
<1>21. CASE EndTask
  BY <1>21, EndTaskFinishes DEF Contract!Next
<1>22. CASE TasksDone
  BY <1>22, ContractFrame DEF TasksDone, SameStart, SamePlace, SameTimers
<1>23. CASE InstallTimers
  BY <1>23, ContractFrame DEF InstallTimers, SameStart, SamePlace, SameTimers
<1>24. CASE PurgeTimers
  BY <1>24, ContractFrame DEF PurgeTimers, SameStart, SamePlace, SameTimers
<1>25. CASE BeginTimer
  BY <1>25, ContractFrame DEF BeginTimer, SameStart, SamePlace, SameTimers
<1>26. CASE EndTimer
  BY <1>26, EndTimerFires DEF Contract!Next
<1>27. CASE EndIteration
  <2>1. CASE exit
    <3>1. stopped /\ pc[Owner] # "publish" /\ batch = <<>> /\ Len(executed) >= owed
      BY <1>27, <2>1 DEF EndIteration, IInv, TypeOK, ThreadInv, TaskInv
    <3>2. Len(executed) + 1 .. owed = {}
      BY <3>1, WorkerAssumption DEF IInv, TypeOK
    <3>3. Registered' = Registered /\ SameStart
      BY <1>27, RegisteredFrame DEF EndIteration, SameTimers, SameStart
    <3>4. (stopped /\ pc[Owner] # "publish")' = (stopped /\ pc[Owner] # "publish")
      BY <3>3, StartFrame
    <3>5. loop = "due" /\ loop' = "exited" /\ (loop = "inTask")' = (loop = "inTask")
      BY <1>27, <2>1 DEF EndIteration
    <3>6. Contract!Close
      BY <1>27, <3>1, <3>2, <3>3, <3>4, <3>5 DEF EndIteration, Contract!Close
    <3> QED
      BY <3>6 DEF Contract!Next
  <2>2. CASE ~exit
    BY <1>27, <2>2, ContractFrame DEF EndIteration, SameStart, SamePlace, SameTimers
  <2> QED
    BY <2>1, <2>2
<1> QED
  BY <1>1, <1>2, <1>3, <1>4, <1>5, <1>6, <1>7, <1>8, <1>9, <1>10, <1>11,
     <1>12, <1>13, <1>14, <1>15, <1>16, <1>17, <1>18, <1>19, <1>20, <1>21,
     <1>22, <1>23, <1>24, <1>25, <1>26, <1>27
     DEF Next, Call, Return, OwnerCall, Destructor, LoopThread, Gone

\* A new worker is an unused one.
LEMMA ContractInit == ASSUME Init PROVE Contract!Init
<1>1. <<>> \o <<>> = <<>>
  BY CatEmpty
<1>2. Registered = {}
  BY WorkerAssumption DEF Init, Registered, TimerIds
<1>3. (stopped /\ pc[Owner] # "publish") = TRUE
  BY WorkerAssumption DEF Init, Callers
<1>4. Len(executed) + 1 .. owed = {}
  BY DEF Init
<1> QED
  BY <1>1, <1>2, <1>3, <1>4 DEF Init, Contract!Init

\* GeneralWorker implements the abstract executor: a job is accepted, run and
\* finished once, in order, and the worker does not close owing a job.  And it
\* keeps its contract with the pool, whatever its other callers, its timers and
\* its restarts do.
THEOREM Implementation == Spec => ImplementsExecutor
<1>1. Init => Executor!Init /\ Contract!Init /\ RepeatInv
  BY RefinementInit, ContractInit DEF Init, RepeatInv, RepeatStaysRegistered
<1>2. IInv /\ [Next]_vars => [Executor!Next]_(Executor!execVars)
  BY RefinementStep
<1>3. IInv /\ RepeatInv /\ [Next]_vars => RepeatInv'
  BY RepeatStep DEF IInv
<1>4. IInv /\ RepeatInv /\ [Next]_vars => [Contract!Next]_(Contract!contractVars)
  BY ContractStep
<1>5. Spec => Executor!Spec
  BY <1>1, <1>2, Invariance, PTL DEF Spec, Executor!Spec
<1>6. Spec => Contract!Spec
  BY <1>1, <1>3, <1>4, Invariance, PTL DEF Spec, Contract!Spec
<1> QED
  BY <1>5, <1>6 DEF ImplementsExecutor
=============================================================================
