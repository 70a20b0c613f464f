-------------------------- MODULE GeneralThreadPool --------------------------
(***************************************************************************)
(* GeneralThreadPool (src/thread/GeneralThreadPool.{h,cpp}): a vector of   *)
(* GeneralWorkers.  Submissions go around the workers; an atomic counter   *)
(* chooses the worker, the call on the worker is a second step.  The pool  *)
(* has no lock of its own: stop() and wait() walk the vector worker by     *)
(* worker while the tasks still running may call the pool themselves.      *)
(*                                                                         *)
(* A worker is what GeneralWorker was proved to be: WorkerContract is      *)
(* between the two, and each worker of the pool is an instance of it.      *)
(***************************************************************************)
EXTENDS Integers, Sequences, FiniteSets

CONSTANTS
    Clients,         \* threads that use the pool
    Owner,           \* the client that starts, waits for and destroys it
    ThreadCounts,    \* the numbers of threads given to start()
    TimerIdSpace,    \* 2^TIMER_ID_BITS
    MaxSubmits,      \* bound: calls of addTask, addDelayTask, addRepeatTask
    MaxStarts        \* bound: calls of start()

\* A pool id has 64 bits, so there may be 2^16 workers, and no worker lives
\* through 2^48 timers: no id is handed out twice.
ASSUME PoolAssumption ==
    /\ Owner \in Clients
    /\ Clients \cap Nat = {}
    /\ ThreadCounts \subseteq Nat \ {0}
    /\ IsFiniteSet(ThreadCounts)
    /\ TimerIdSpace \in Nat \ {0}
    /\ MaxSubmits \in Nat
    /\ MaxSubmits <= TimerIdSpace
    /\ MaxStarts \in Nat

\* The workers are numbered from 0, as in the vector.
Indexes == UNION {0 .. n - 1 : n \in ThreadCounts}

\* What runs on a worker's thread is a caller too, known by the worker.
Callers == Clients \cup Indexes

VARIABLES
    nrThreads,       \* m_nrThreads
    nextThread,      \* m_nextThread
    size,            \* m_pool.size()
    stopped,         \* m_stopped of each worker
    thread,          \* of each worker: "none", "open" or "closed"
    waiting,         \* tasks each worker has accepted and not finished
    busy,            \* each worker: it runs the head of waiting
    firing,          \* the handle of the timer whose callback it runs, if any
    nextTimerId,     \* m_nextTimerId of each worker
    timers,          \* timers the workers keep: [at, id, repeat, handle]
    pc,              \* where each caller is: [op, at]
    ready,           \* the last start() returned true
    life             \* of the pool: alive, destroying, destroyed

(* History variables.                                                      *)
VARIABLES
    starts,          \* calls of start() that found the pool unused
    submitted,       \* tasks handed to a worker so far; a task is its number
    done,            \* tasks that ran
    broken,          \* tasks destroyed unrun with their worker
    owed,            \* tasks a worker had accepted when it was stopped
    early,           \* tasks with an unstopped worker when a stop() began
    stopCalled,      \* a stop() has returned since start()
    repeats,         \* ids returned by addRepeatTask since start()
    purged,          \* ids given to purgeTimerTask since start()
    delays,          \* delayed tasks since start(), by the handle they have
    fired            \* those of them that ran

workers == <<stopped, thread, waiting, busy, firing, nextTimerId, timers>>
poolVars == <<nrThreads, nextThread, size>>
object == <<ready, life>>
taskHistory == <<submitted, done, broken, owed, early>>
timerHistory == <<repeats, purged, delays, fired>>
history == <<starts, taskHistory, stopCalled, timerHistory>>
vars == <<poolVars, workers, pc, object, history>>

Idle == [op |-> "idle", at |-> 0]

TasksOf(queue) == {queue[n] : n \in DOMAIN queue}
Accepted(some) == UNION {TasksOf(waiting[i]) : i \in some}
Unstopped == {i \in Indexes : ~stopped[i]}

Init ==
    /\ nrThreads = 0
    /\ nextThread = 0
    /\ size = 0
    /\ stopped = [i \in Indexes |-> TRUE]
    /\ thread = [i \in Indexes |-> "none"]
    /\ waiting = [i \in Indexes |-> <<>>]
    /\ busy = [i \in Indexes |-> FALSE]
    /\ firing = [i \in Indexes |-> {}]
    /\ nextTimerId = [i \in Indexes |-> 0]
    /\ timers = {}
    /\ pc = [c \in Callers |-> Idle]
    /\ ready = FALSE
    /\ life = "alive"
    /\ starts = 0
    /\ submitted = 0
    /\ done = {}
    /\ broken = {}
    /\ owed = {}
    /\ early = {}
    /\ stopCalled = FALSE
    /\ repeats = {}
    /\ purged = {}
    /\ delays = {}
    /\ fired = {}

-----------------------------------------------------------------------------
(* The callers.  Clients call between a successful start() and wait(); a   *)
(* task, or a timer's callback, may call as long as it runs.               *)

Goto(c, op, i) == pc' = [pc EXCEPT ![c] = [op |-> op, at |-> i]]

MayCall(c) ==
    /\ pc[c] = Idle
    /\ ready
    /\ \/ c \in Clients /\ life = "alive" /\ pc[Owner].op # "wait"
       \/ c \in Indexes /\ (busy[c] \/ firing[c] # {})

\* Mutation: the workers are numbered from 1.
ChooseFromOne(c, op) ==
    /\ MayCall(c)
    /\ nextThread < MaxSubmits
    /\ nextThread' = nextThread + 1
    /\ Goto(c, op, (nextThread % nrThreads) + 1)
    /\ UNCHANGED <<nrThreads, size, workers, object, history>>

\* addTask(), addDelayTask() and addRepeatTask() first choose a worker ...
Choose(c, op) ==
    /\ MayCall(c)
    /\ nextThread < MaxSubmits
    /\ nextThread' = nextThread + 1
    /\ Goto(c, op, nextThread % nrThreads)
    /\ UNCHANGED <<nrThreads, size, workers, object, history>>

\* ... and then call it.
AddTask(c) ==
    /\ pc[c].op = "task"
    /\ submitted' = submitted + 1
    /\ waiting' = [waiting EXCEPT ![pc[c].at] = Append(@, submitted + 1)]
    /\ Goto(c, "idle", 0)
    /\ UNCHANGED <<poolVars, stopped, thread, busy, firing, nextTimerId, timers,
                   object, starts, done, broken, owed, early, stopCalled,
                   timerHistory>>

\* Mutation: the worker's number is put one bit too low.
HandleOverlapping(i, id) == i * (TimerIdSpace \div 2) + id

\* The id of a timer in the pool: the worker above, its own id below.
Handle(i, id) == i * TimerIdSpace + id

AddTimer(c, repeat) ==
    LET i == pc[c].at
        id == nextTimerId[i] % TimerIdSpace
    IN  /\ nextTimerId' = [nextTimerId EXCEPT ![i] = @ + 1]
        /\ timers' = timers \cup
               {[at |-> i, id |-> id, repeat |-> repeat, handle |-> Handle(i, id)]}
        /\ Goto(c, "idle", 0)
        /\ IF repeat
           THEN repeats' = repeats \cup {Handle(i, id)} /\ UNCHANGED delays
           ELSE delays' = delays \cup {Handle(i, id)} /\ UNCHANGED repeats
        /\ UNCHANGED <<poolVars, stopped, thread, waiting, busy, firing, object,
                       starts, taskHistory, stopCalled, purged, fired>>

AddDelayTask(c) == pc[c].op = "delay" /\ AddTimer(c, FALSE)

AddRepeatTask(c) == pc[c].op = "repeat" /\ AddTimer(c, TRUE)

\* purgeTimerTask() finds the worker and the worker's id in the pool's id.
PurgeTimerTask(c, handle) ==
    /\ MayCall(c)
    /\ handle \in repeats
    /\ timers' = {t \in timers : ~ (/\ t.at = handle \div TimerIdSpace
                                   /\ t.id = handle % TimerIdSpace)}
    /\ purged' = purged \cup {handle}
    /\ UNCHANGED <<poolVars, stopped, thread, waiting, busy, firing, nextTimerId,
                   pc, object, starts, taskHistory, stopCalled, repeats, delays,
                   fired>>

\* stop() walks along the vector ...
Stop(c) ==
    /\ MayCall(c)
    /\ Goto(c, "stop", 0)
    /\ early' = early \cup Accepted(Unstopped)
    /\ UNCHANGED <<poolVars, workers, object, starts, submitted, done, broken,
                   owed, stopCalled, timerHistory>>

\* ... as long as the workers' stop() returns true, that is, as long as they
\* were not stopped before.
StopNext(c) ==
    /\ pc[c].op = "stop"
    /\ pc[c].at < size
    /\ ~stopped[pc[c].at]
    /\ Goto(c, "store", pc[c].at)
    /\ UNCHANGED <<poolVars, workers, object, history>>

\* A worker's stop() has tested m_stopped, and sets it.
StopStore(c) ==
    LET i == pc[c].at
    IN  /\ pc[c].op = "store"
        /\ stopped' = [stopped EXCEPT ![i] = TRUE]
        /\ owed' = IF stopped[i] THEN owed ELSE owed \cup TasksOf(waiting[i])
        /\ Goto(c, "stop", i + 1)
        /\ UNCHANGED <<poolVars, thread, waiting, busy, firing, nextTimerId, timers,
                       object, starts, submitted, done, broken, early,
                       stopCalled, timerHistory>>

\* Mutation: stop() gives up after a worker it has stopped.
StopReturnAtOnce(c) ==
    /\ pc[c].op = "stop"
    /\ pc[c].at \in 1 .. size - 1 \/ (pc[c].at < size => stopped[pc[c].at])
    /\ Goto(c, "idle", 0)
    /\ stopCalled' = TRUE
    /\ UNCHANGED <<poolVars, workers, object, starts, taskHistory, timerHistory>>

StopReturn(c) ==
    /\ pc[c].op = "stop"
    /\ pc[c].at < size => stopped[pc[c].at]
    /\ Goto(c, "idle", 0)
    /\ stopCalled' = TRUE
    /\ UNCHANGED <<poolVars, workers, object, starts, taskHistory, timerHistory>>

-----------------------------------------------------------------------------
(* The owner, whose calls overlap with no client's.                        *)

OwnerMayAct ==
    /\ life = "alive"
    /\ \A c \in Clients : pc[c] = Idle

\* start() of an unused pool starts worker by worker; the first worker that
\* fails is the last one in the vector, but m_nrThreads counts them all.  (A
\* pool in use returns false at once.)
Start ==
    /\ OwnerMayAct
    /\ nrThreads = 0
    /\ starts < MaxStarts
    /\ starts' = starts + 1
    /\ \E n \in ThreadCounts, ok \in BOOLEAN :
          /\ nrThreads' = n
          /\ size' \in IF ok THEN {n} ELSE 1 .. n
          /\ LET up == IF ok THEN size' ELSE size' - 1
             IN  /\ thread' = [i \in Indexes |-> IF i < up THEN "open" ELSE "none"]
                 /\ stopped' = [i \in Indexes |-> i >= up]
          /\ ready' = ok
    /\ nextTimerId' = [i \in Indexes |-> 0]
    /\ repeats' = {}
    /\ purged' = {}
    /\ delays' = {}
    /\ fired' = {}
    /\ stopCalled' = FALSE
    /\ UNCHANGED <<nextThread, waiting, busy, firing, timers, pc, life, taskHistory>>

\* Mutation: m_nrThreads is reset before the workers are joined.
WaitResettingFirst ==
    /\ OwnerMayAct
    /\ stopCalled \/ size = 0
    /\ nrThreads' = 0
    /\ Goto(Owner, "wait", 0)
    /\ UNCHANGED <<nextThread, size, workers, object, history>>

\* wait(); a client that has not called stop() would wait for ever.
Wait ==
    /\ OwnerMayAct
    /\ stopCalled \/ size = 0
    /\ Goto(Owner, "wait", 0)
    /\ UNCHANGED <<poolVars, workers, object, history>>

\* Mutation: wait() joins one worker only.
JoinOne ==
    /\ pc[Owner].op = "wait"
    /\ pc[Owner].at < size
    /\ thread[pc[Owner].at] # "open"
    /\ thread' = [thread EXCEPT ![pc[Owner].at] = "none"]
    /\ Goto(Owner, "wait", size)
    /\ UNCHANGED <<poolVars, stopped, waiting, busy, firing, nextTimerId, timers,
                   object, history>>

\* A worker's wait() returns when its loop has.  It returns false if there is
\* no thread, and then the workers behind are not waited for.
Join ==
    /\ pc[Owner].op = "wait"
    /\ pc[Owner].at < size
    /\ thread[pc[Owner].at] # "open"
    /\ thread' = [thread EXCEPT ![pc[Owner].at] = "none"]
    /\ Goto(Owner, "wait", IF thread[pc[Owner].at] = "none" THEN size ELSE pc[Owner].at + 1)
    /\ UNCHANGED <<poolVars, stopped, waiting, busy, firing, nextTimerId, timers,
                   object, history>>

\* The end of wait(): m_pool.clear() destroys the workers with what is left
\* in their queues.
Clear ==
    /\ pc[Owner].op = "wait"
    /\ pc[Owner].at >= size
    /\ nrThreads' = 0
    /\ size' = 0
    /\ waiting' = [i \in Indexes |-> <<>>]
    /\ broken' = broken \cup Accepted(Indexes)
    /\ timers' = {}
    /\ ready' = FALSE
    /\ life' = IF life = "destroying" THEN "destroyed" ELSE life
    /\ Goto(Owner, "idle", 0)
    /\ UNCHANGED <<nextThread, stopped, thread, busy, firing, nextTimerId, starts,
                   submitted, done, owed, early, stopCalled, timerHistory>>

\* Mutation: the destructor waits without stopping the workers.
DestroyWithoutStop ==
    /\ OwnerMayAct
    /\ life' = "destroying"
    /\ Goto(Owner, "wait", 0)
    /\ UNCHANGED <<poolVars, workers, ready, history>>

\* ~GeneralThreadPool(): stop() ...
Destroy ==
    /\ OwnerMayAct
    /\ life' = "destroying"
    /\ Goto(Owner, "stop", 0)
    /\ early' = early \cup Accepted(Unstopped)
    /\ UNCHANGED <<poolVars, workers, ready, starts, submitted, done, broken,
                   owed, stopCalled, timerHistory>>

\* ... and wait().
DestroyWait ==
    /\ life = "destroying"
    /\ pc[Owner] = Idle
    /\ Goto(Owner, "wait", 0)
    /\ UNCHANGED <<poolVars, workers, object, history>>

-----------------------------------------------------------------------------
(* The workers.                                                            *)

\* Nothing runs on the worker's thread, and its loop has not returned.
Resting(i) ==
    /\ thread[i] = "open"
    /\ ~busy[i]
    /\ firing[i] = {}

Begin(i) ==
    /\ Resting(i)
    /\ waiting[i] # <<>>
    /\ busy' = [busy EXCEPT ![i] = TRUE]
    /\ UNCHANGED <<poolVars, stopped, thread, waiting, firing, nextTimerId, timers,
                   pc, object, history>>

Finish(i) ==
    /\ busy[i]
    /\ pc[i] = Idle
    /\ busy' = [busy EXCEPT ![i] = FALSE]
    /\ waiting' = [waiting EXCEPT ![i] = Tail(@)]
    /\ done' = done \cup {Head(waiting[i])}
    /\ UNCHANGED <<poolVars, stopped, thread, firing, nextTimerId, timers, pc,
                   object, starts, submitted, broken, owed, early, stopCalled,
                   timerHistory>>

\* A timer's callback begins: a delayed task's, or a repeated one's, which may
\* still come after somebody has asked for it to be purged ...
BeginTimer(i) ==
    /\ Resting(i)
    /\ \E handle \in repeats \cup (delays \ fired) :
          /\ handle \div TimerIdSpace = i
          /\ firing' = [firing EXCEPT ![i] = {handle}]
    /\ UNCHANGED <<poolVars, stopped, thread, waiting, busy, nextTimerId, timers,
                   pc, object, history>>

\* ... and ends; the timer of a delayed task goes.
EndTimer(i) ==
    /\ firing[i] # {}
    /\ pc[i] = Idle
    /\ firing' = [firing EXCEPT ![i] = {}]
    /\ timers' = {t \in timers : t.repeat \/ t.handle \notin firing[i]}
    /\ fired' = fired \cup (delays \cap firing[i])
    /\ UNCHANGED <<poolVars, stopped, thread, waiting, busy, nextTimerId, pc,
                   object, starts, taskHistory, stopCalled, repeats, purged,
                   delays>>

\* The loop returns after a stop request (StopEndsLoop), having run what was
\* submitted before it (StopIsGraceful).
Close(i) ==
    /\ Resting(i)
    /\ stopped[i]
    /\ TasksOf(waiting[i]) \cap owed = {}
    /\ thread' = [thread EXCEPT ![i] = "closed"]
    /\ UNCHANGED <<poolVars, stopped, waiting, busy, firing, nextTimerId, timers,
                   pc, object, history>>

-----------------------------------------------------------------------------

Call(c) ==
    \/ \E op \in {"task", "delay", "repeat"} : Choose(c, op)
    \/ \E handle \in repeats : PurgeTimerTask(c, handle)
    \/ Stop(c)

\* What a caller inside a call does.
Proceed(c) ==
    \/ AddTask(c)
    \/ AddDelayTask(c)
    \/ AddRepeatTask(c)
    \/ StopNext(c)
    \/ StopStore(c)
    \/ StopReturn(c)

OwnerProceed ==
    \/ Join
    \/ Clear
    \/ DestroyWait

\* What worker i must do when it rests, and when it does not.
TakeUp(i) == Begin(i) \/ Close(i)
Complete(i) == Finish(i) \/ EndTimer(i)

Gone == life = "destroyed" /\ UNCHANGED vars

Next ==
    \/ \E c \in Callers : Call(c) \/ Proceed(c)
    \/ Start
    \/ Wait
    \/ Destroy
    \/ OwnerProceed
    \/ \E i \in Indexes : TakeUp(i) \/ BeginTimer(i) \/ Complete(i)
    \/ Gone

Spec == Init /\ [][Next]_vars

\* A thread inside the library's code goes on; a task begins when its turn has
\* come, among the timers' callbacks, and both end, however often they call the
\* pool; a stopped worker's loop returns (StopEndsLoop).  Nobody has to begin a
\* call, and no timer to come due.
Fairness ==
    /\ WF_vars(Proceed(Owner) \/ OwnerProceed)
    /\ \A c \in Callers \ {Owner} : WF_vars(Proceed(c))
    /\ \A i \in Indexes : SF_vars(TakeUp(i)) /\ SF_vars(Complete(i))

FairSpec == Spec /\ Fairness

-----------------------------------------------------------------------------
(* Properties.                                                             *)

TimerRecords == [at : Indexes, id : 0 .. TimerIdSpace - 1, repeat : BOOLEAN, handle : Nat]

\* Where a caller in one of these calls is, there is a worker.
AtWorker == {"task", "delay", "repeat", "store"}

\* Every variable keeps its type, and each call in progress is at a worker.
TypeOK ==
    /\ nrThreads \in ThreadCounts \cup {0}
    /\ nextThread \in 0 .. MaxSubmits
    /\ size \in 0 .. nrThreads
    /\ stopped \in [Indexes -> BOOLEAN]
    /\ thread \in [Indexes -> {"none", "open", "closed"}]
    /\ waiting \in [Indexes -> Seq(Nat)]
    /\ busy \in [Indexes -> BOOLEAN]
    /\ firing \in [Indexes -> SUBSET Nat]
    /\ nextTimerId \in [Indexes -> Nat]
    /\ timers \subseteq TimerRecords
    /\ pc \in [Callers -> [op : AtWorker \cup {"idle", "stop", "wait"}, at : Nat]]
    /\ \A c \in Callers :
          /\ pc[c].at <= size
          /\ pc[c].op \in AtWorker => pc[c].at < size
    /\ ready \in BOOLEAN
    /\ life \in {"alive", "destroying", "destroyed"}
    /\ starts \in 0 .. MaxStarts
    /\ submitted \in Nat
    /\ done \cup broken \cup owed \cup early \subseteq Nat
    /\ stopCalled \in BOOLEAN
    /\ repeats \cup purged \cup delays \cup fired \subseteq Nat

\* What runs in the pool, a task or a timer's callback, may call the pool, even
\* while the owner is in wait(): its worker is in the vector and the number of
\* threads is not zero, because wait() resets both only after it has joined
\* every worker, in spite of its short cut behind a worker without a thread.
PoolOutlivesItsTasks ==
    \A i \in Indexes : thread[i] # "none" => nrThreads # 0 /\ i < size

\* Once a stop() has returned and none is under way, every worker is stopped,
\* although a stop() turns back at the first worker that another stop() has
\* stopped before, and returns.
StopReachesEveryWorker ==
    stopCalled /\ (\A c \in Callers : pc[c].op \notin {"stop", "store"})
        => \A i \in Indexes : i < size => stopped[i]

\* stop() and wait() drain the pool: of the tasks that a worker not yet
\* stopped had accepted when somebody called stop(), none is destroyed unrun.
StopDrainsPool == early \cap broken = {}

\* Purge requests reach the timer they name and no other: the repeated tasks
\* the workers keep are those that were added and not purged, the delayed
\* ones those that have not run, over all workers.
PurgeIsRouted ==
    size > 0 =>
        /\ {t.handle : t \in {u \in timers : u.repeat}} = repeats \ purged
        /\ {t.handle : t \in {u \in timers : ~u.repeat}} = delays \ fired

\* The timers of worker i and the purge requests whose id leads to it.
TimersAt(i) == {[id |-> t.id, repeat |-> t.repeat] : t \in {u \in timers : u.at = i}}
PurgedAt(i) == {id \in 0 .. TimerIdSpace - 1 : Handle(i, id) \in purged}

\* Worker i of the pool, as its contract sees it: what it owes is what it has
\* of the tasks any worker owed.
Worker(i) == INSTANCE WorkerContract
    WITH stopped <- stopped[i],
         thread <- thread[i],
         waiting <- waiting[i],
         busy <- busy[i],
         owed <- owed \cap TasksOf(waiting[i]),
         nextTimerId <- nextTimerId[i],
         timers <- TimersAt(i),
         purged <- PurgedAt(i)

\* The pool asks nothing of a worker that GeneralWorker does not do: what
\* becomes of each worker is a behaviour of the contract, which GeneralWorker
\* implements (ImplementsExecutor there).
WorkersKeepContract == \A i \in Indexes : Worker(i)!Spec

\* wait() returns once stop() has.
WaitReturns == pc[Owner].op = "wait" ~> pc[Owner] = Idle

\* The destructor finishes, whatever stop() has been called before and whether
\* or not start() succeeded.
DestructionFinishes == life = "destroying" ~> life = "destroyed"

=============================================================================
