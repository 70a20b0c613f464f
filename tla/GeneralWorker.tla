---------------------------- MODULE GeneralWorker ----------------------------
(***************************************************************************)
(* GeneralWorker (src/thread/GeneralWorker.{h,cpp}): one thread running a  *)
(* libevent loop, and any number of threads that hand it tasks, one-shot   *)
(* and repeated timers, and purge requests.                                *)
(*                                                                         *)
(* The callers share four things with the loop thread: the flag m_stopped, *)
(* the three vectors guarded by m_lock, and an eventfd whose read event    *)
(* (m_notifier) is the loop's only wake-up from outside.  A critical       *)
(* section is one step; the write to the eventfd that follows it is        *)
(* another, and so is each of the three critical sections of onNotify.     *)
(*                                                                         *)
(* A callback running on the loop thread may call the worker too, so Loop  *)
(* is a caller like the clients; it calls only from inside a callback.     *)
(*                                                                         *)
(* Time is abstracted: an armed timer may come due at any iteration of the *)
(* loop.  Tasks are numbered in the order they enter m_pendingTasks.       *)
(***************************************************************************)
EXTENDS Naturals, Sequences

CONSTANTS
    Clients,           \* threads that use the worker
    Owner,             \* the client that starts, waits for and destroys it
    Loop,              \* the worker's own thread, as a caller
    RepeatIntervals,   \* the periods given to addRepeatTask, in ms
    TimerIdSpace,      \* 2^TIMER_ID_BITS
    MaxTasks,          \* bound: calls of addTask
    MaxTimers,         \* bound: calls of addDelayTask and addRepeatTask
    MaxStarts          \* bound: calls of start() that create an event base

\* The code masks a timer id to 48 bits; a worker lives through fewer than
\* 2^48 timers, so no id is handed out twice.
ASSUME WorkerAssumption ==
    /\ Owner \in Clients
    /\ Loop \notin Clients
    /\ RepeatIntervals \subseteq Nat
    /\ TimerIdSpace \in Nat \ {0}
    /\ MaxTasks \in Nat
    /\ MaxTimers \in Nat
    /\ MaxTimers <= TimerIdSpace
    /\ MaxStarts \in Nat

Callers == Clients \cup {Loop}
TimerIds == 0 .. TimerIdSpace - 1
Intervals == RepeatIntervals \cup {0}

VARIABLES
    stopped,         \* m_stopped
    pendingTasks,    \* m_pendingTasks
    pendingTimers,   \* m_pendingTimers: records [id, interval]
    purging,         \* m_purgingingTimers, as a set: purging is idempotent
    nextTimerId,     \* m_nextTimerId
    evfd,            \* the eventfd's counter is not zero
    active,          \* m_activeTimers: records [id, interval, base]
    thread,          \* m_thread: "none" or "joinable"
    base,            \* m_evbase: 0, or the number of the base in use
    exit,            \* event_base_loopexit() was called on that base
    due,             \* timers in libevent's queue of active events
    loop,            \* where the loop thread is
    batch,           \* newcomings: the tasks taken by this onNotify
    current,         \* id of the timer whose callback runs
    pc,              \* where each caller is inside a call
    ready,           \* the last start() returned true
    life             \* of the object: alive, destroying, baseFreed, destroyed

(* History variables: what the properties compare the state with.          *)
VARIABLES
    submitted,       \* tasks that entered m_pendingTasks so far
    executed,        \* tasks that finished, in order
    broken,          \* tasks destroyed unrun with the worker
    owed,            \* submitted, at the moment stop() set m_stopped
    leftover,        \* start() found work queued, and nobody notified since
    finished,        \* one-shot timers whose callback has completed
    repeats,         \* ids of the repeated tasks with a period but 0
    purged,          \* ids given to purgeTimerTask
    kept,            \* those given to it outside the purge window
    adding,          \* of each caller: the id its addRepeatTask will return
    returned         \* ids that addRepeatTask has returned

shared == <<stopped, pendingTasks, pendingTimers, purging, nextTimerId, evfd>>
private == <<active, base, exit, due, loop, batch, current>>
object == <<thread, ready, life>>
timerHistory == <<finished, repeats, purged, kept, adding, returned>>
history == <<submitted, executed, broken, owed, leftover, timerHistory>>
vars == <<shared, private, object, pc, history>>

LoopStates == {"off", "poll", "read", "check", "tasks", "run", "inTask",
               "timers", "purge", "due", "inTimer", "exited"}

Pending == [id : TimerIds, interval : Intervals]
Active == [id : TimerIds, interval : Intervals, base : 1 .. MaxStarts]

Ids(timers) == {t.id : t \in timers}

Init ==
    /\ stopped = TRUE
    /\ pendingTasks = <<>>
    /\ pendingTimers = {}
    /\ purging = {}
    /\ nextTimerId = 0
    /\ evfd = FALSE
    /\ active = {}
    /\ thread = "none"
    /\ base = 0
    /\ exit = FALSE
    /\ due = {}
    /\ loop = "off"
    /\ batch = <<>>
    /\ current = 0
    /\ pc = [c \in Callers |-> "idle"]
    /\ ready = FALSE
    /\ life = "alive"
    /\ submitted = 0
    /\ executed = <<>>
    /\ broken = <<>>
    /\ owed = 0
    /\ leftover = FALSE
    /\ finished = {}
    /\ repeats = {}
    /\ purged = {}
    /\ kept = {}
    /\ adding = [c \in Callers |-> {}]
    /\ returned = {}

-----------------------------------------------------------------------------
(* The callers.  The header's contract: start() has returned true before   *)
(* any other call, and nobody but a callback calls during destruction.     *)

MayCall(c) ==
    /\ pc[c] = "idle"
    /\ ready
    /\ \/ c \in Clients /\ life = "alive"
       \/ c = Loop /\ loop \in {"inTask", "inTimer"}

Goto(c, where) == pc' = [pc EXCEPT ![c] = where]

\* Mutation: the new task is queued, the loop is not told.
AddTaskWithoutNotify(c) ==
    /\ MayCall(c)
    /\ submitted < MaxTasks
    /\ submitted' = submitted + 1
    /\ pendingTasks' = Append(pendingTasks, submitted + 1)
    /\ UNCHANGED <<stopped, pendingTimers, purging, nextTimerId, evfd, private,
                   object, pc, executed, broken, owed, leftover, timerHistory>>

\* addTask(): both overloads differ only in how the promise is fulfilled.
AddTask(c) ==
    /\ MayCall(c)
    /\ submitted < MaxTasks
    /\ submitted' = submitted + 1
    /\ pendingTasks' = Append(pendingTasks, submitted + 1)
    /\ Goto(c, "notify")
    /\ UNCHANGED <<stopped, pendingTimers, purging, nextTimerId, evfd, private,
                   object, executed, broken, owed, leftover, timerHistory>>

\* Mutations: the id is the counter after its increment, unmasked; the mask is
\* a bit short.
NextTimerIdUnmasked == nextTimerId + 1
NextTimerIdShortMask == nextTimerId % (TimerIdSpace \div 2)

NextTimerId == nextTimerId % TimerIdSpace

AddTimerTask(c, interval) ==
    /\ MayCall(c)
    /\ nextTimerId < MaxTimers
    /\ nextTimerId' = nextTimerId + 1
    /\ pendingTimers' = pendingTimers \cup {[id |-> NextTimerId, interval |-> interval]}
    /\ Goto(c, "notify")
    /\ UNCHANGED <<stopped, pendingTasks, purging, evfd, private, object,
                   submitted, executed, broken, owed, leftover,
                   finished, purged, kept, returned>>

AddDelayTask(c) ==
    /\ AddTimerTask(c, 0)
    /\ UNCHANGED <<repeats, adding>>

\* A period of 0 makes the timer a one-shot timer to the callback.
AddRepeatTask(c) ==
    \E ms \in RepeatIntervals :
        /\ AddTimerTask(c, ms)
        /\ repeats' = IF ms = 0 THEN repeats ELSE repeats \cup {NextTimerId}
        /\ adding' = [adding EXCEPT ![c] = {NextTimerId}]

\* The window of onNotify between taking the new timers and taking the purge
\* requests: a timer added inside it is not installed before it is purged.
InPurgeWindow(id) == loop = "purge" /\ id \notin Ids(active)

\* purgeTimerTask() takes an "ID returned by addRepeatTask": not one of a call
\* still under way, and none of addDelayTask, which keeps its ids to itself.
PurgeTimerTask(c, id) ==
    /\ MayCall(c)
    /\ id \in returned
    /\ purging' = purging \cup {id}
    /\ Goto(c, "notify")
    /\ purged' = purged \cup {id}
    /\ kept' = IF InPurgeWindow(id) THEN kept ELSE kept \cup {id}
    /\ UNCHANGED <<stopped, pendingTasks, pendingTimers, nextTimerId, evfd,
                   private, object, submitted, executed, broken, owed, leftover,
                   finished, repeats, adding, returned>>

\* stop(): the test and the store are separate accesses; a stopped worker
\* returns false with no effect.
StopLoad(c) ==
    /\ MayCall(c)
    /\ ~stopped
    /\ Goto(c, "store")
    /\ UNCHANGED <<shared, private, object, history>>

\* Mutation: the flag is set, the loop is not told.
StopStoreWithoutNotify(c) ==
    /\ pc[c] = "store"
    /\ stopped' = TRUE
    /\ owed' = IF stopped THEN owed ELSE submitted
    /\ Goto(c, "idle")
    /\ UNCHANGED <<pendingTasks, pendingTimers, purging, nextTimerId, evfd,
                   private, object, submitted, executed, broken, leftover,
                   timerHistory>>

StopStore(c) ==
    /\ pc[c] = "store"
    /\ stopped' = TRUE
    /\ owed' = IF stopped THEN owed ELSE submitted
    /\ Goto(c, "notify")
    /\ UNCHANGED <<pendingTasks, pendingTimers, purging, nextTimerId, evfd,
                   private, object, submitted, executed, broken, leftover,
                   timerHistory>>

\* The call ends, and if it is addRepeatTask() it hands back the timer's id.
HandBack(c) ==
    /\ returned' = returned \cup adding[c]
    /\ adding' = [adding EXCEPT ![c] = {}]

\* Mutation: the write is saved when the loop looks awake anyway.
NotifyUnlessAwake(c) ==
    /\ pc[c] = "notify"
    /\ evfd' = (evfd \/ loop = "poll")
    /\ leftover' = FALSE
    /\ HandBack(c)
    /\ Goto(c, "idle")
    /\ UNCHANGED <<stopped, pendingTasks, pendingTimers, purging, nextTimerId,
                   private, object, submitted, executed, broken, owed,
                   finished, repeats, purged, kept>>

\* notify(): the write that makes the eventfd readable, then the call returns.
Notify(c) ==
    /\ pc[c] = "notify"
    /\ evfd' = TRUE
    /\ leftover' = FALSE
    /\ HandBack(c)
    /\ Goto(c, "idle")
    /\ UNCHANGED <<stopped, pendingTasks, pendingTimers, purging, nextTimerId,
                   private, object, submitted, executed, broken, owed,
                   finished, repeats, purged, kept>>

-----------------------------------------------------------------------------
(* The owner.  Its calls are made while no other client is inside one, and *)
(* start() is not called again before wait() has joined the last thread.   *)

OwnerMayAct ==
    /\ life = "alive"
    /\ \A c \in Clients : pc[c] = "idle"

Work == pendingTasks # <<>> \/ pendingTimers # {} \/ purging # {}

\* start(), up to the launch of the thread: a new event base and a new
\* eventfd, whatever an earlier start() left behind.
StartLaunch ==
    /\ OwnerMayAct
    /\ stopped
    /\ thread = "none"
    /\ base < MaxStarts
    /\ base' = base + 1
    /\ evfd' = FALSE
    /\ exit' = FALSE
    /\ due' = {}
    /\ loop' = "poll"
    /\ thread' = "joinable"
    /\ ready' = FALSE
    /\ leftover' = Work
    /\ Goto(Owner, "publish")
    /\ UNCHANGED <<stopped, pendingTasks, pendingTimers, purging, nextTimerId,
                   active, batch, current, life, submitted, executed, broken,
                   owed, timerHistory>>

\* start(), the rest: m_stopped is cleared once the thread is running.
StartPublish ==
    /\ pc[Owner] = "publish"
    /\ stopped' = FALSE
    /\ ready' = TRUE
    /\ Goto(Owner, "idle")
    /\ UNCHANGED <<pendingTasks, pendingTimers, purging, nextTimerId, evfd,
                   private, thread, life, history>>

\* start() when eventfd() fails: the new base stays, no thread is launched.
StartFail ==
    /\ OwnerMayAct
    /\ stopped
    /\ thread = "none"
    /\ base < MaxStarts
    /\ base' = base + 1
    /\ evfd' = FALSE
    /\ ready' = FALSE
    /\ UNCHANGED <<stopped, pendingTasks, pendingTimers, purging, nextTimerId,
                   active, exit, due, loop, batch, current, thread, life, pc,
                   history>>

\* wait(), on its own or from the destructor: it returns when the loop has.
Wait ==
    /\ life \in {"alive", "destroying"}
    /\ pc[Owner] = "idle"
    /\ thread = "joinable"
    /\ loop = "exited"
    /\ thread' = "none"
    /\ loop' = "off"
    /\ UNCHANGED <<shared, active, base, exit, due, batch, current, ready,
                   life, pc, history>>

\* Mutation: the destructor waits without stopping the worker first.
DestroyWithoutStop ==
    /\ OwnerMayAct
    /\ life' = "destroying"
    /\ UNCHANGED <<shared, private, thread, ready, pc, history>>

\* ~GeneralWorker(): stop(), then wait() if there is a thread (Wait above).
Destroy ==
    /\ OwnerMayAct
    /\ life' = "destroying"
    /\ IF stopped THEN UNCHANGED pc ELSE Goto(Owner, "store")
    /\ UNCHANGED <<shared, private, thread, ready, history>>

\* ~GeneralWorker(), after wait(): the notifier, the base and the eventfd go.
FreeBase ==
    /\ life = "destroying"
    /\ pc[Owner] = "idle"
    /\ thread = "none"
    /\ life' = "baseFreed"
    /\ evfd' = FALSE
    /\ UNCHANGED <<stopped, pendingTasks, pendingTimers, purging, nextTimerId,
                   private, thread, ready, pc, history>>

\* The members are destroyed after the destructor's body: every Timer left in
\* m_activeTimers frees its event, every task left in a queue its promise.
DestroyMembers ==
    /\ life = "baseFreed"
    /\ life' = "destroyed"
    /\ active' = {}
    /\ pendingTimers' = {}
    /\ purging' = {}
    /\ pendingTasks' = <<>>
    /\ broken' = pendingTasks
    /\ UNCHANGED <<stopped, nextTimerId, evfd, base, exit, due, loop, batch,
                   current, thread, ready, pc, submitted, executed, owed,
                   leftover, timerHistory>>

-----------------------------------------------------------------------------
(* The loop thread: event_base_dispatch().  An iteration collects the      *)
(* events that are active, the notifier first, runs their callbacks, and   *)
(* leaves the loop if a callback asked for it.                             *)

Armed == Ids({t \in active : t.base = base})

\* libevent waits for the eventfd or for a timer of this base to come due.
Poll ==
    /\ loop = "poll"
    /\ \E ids \in SUBSET Armed :
          /\ evfd \/ ids # {}
          /\ due' = ids
    /\ loop' = IF evfd THEN "read" ELSE "due"
    /\ UNCHANGED <<shared, active, base, exit, batch, current, object, pc,
                   history>>

\* The notifier's callback reads the counter, which resets it to zero ...
ReadEventfd ==
    /\ loop = "read"
    /\ evfd' = FALSE
    /\ loop' = "check"
    /\ UNCHANGED <<stopped, pendingTasks, pendingTimers, purging, nextTimerId,
                   active, base, exit, due, batch, current, object, pc, history>>

\* Mutation: a stopped worker leaves onNotify() at once.
CheckStoppedAndLeave ==
    /\ loop = "check"
    /\ exit' = (exit \/ stopped)
    /\ loop' = IF stopped THEN "due" ELSE "tasks"
    /\ UNCHANGED <<shared, active, base, due, batch, current, object, pc, history>>

\* ... and calls onNotify(), which first looks at m_stopped.
CheckStopped ==
    /\ loop = "check"
    /\ exit' = (exit \/ stopped)
    /\ loop' = "tasks"
    /\ UNCHANGED <<shared, active, base, due, batch, current, object, pc, history>>

\* Mutation: the queue is copied, not swapped out.
TakeTasksByCopy ==
    /\ loop = "tasks"
    /\ batch' = pendingTasks
    /\ loop' = "run"
    /\ UNCHANGED <<shared, active, base, exit, due, current, object, pc, history>>

TakeTasks ==
    /\ loop = "tasks"
    /\ batch' = pendingTasks
    /\ pendingTasks' = <<>>
    /\ loop' = "run"
    /\ UNCHANGED <<stopped, pendingTimers, purging, nextTimerId, evfd, active,
                   base, exit, due, current, object, pc, history>>

BeginTask ==
    /\ loop = "run"
    /\ batch # <<>>
    /\ loop' = "inTask"
    /\ UNCHANGED <<shared, active, base, exit, due, batch, current, object, pc,
                   history>>

\* Mutation: the batch is run from its back.
EndTaskFromBack ==
    /\ loop = "inTask"
    /\ pc[Loop] = "idle"
    /\ executed' = Append(executed, batch[Len(batch)])
    /\ batch' = SubSeq(batch, 1, Len(batch) - 1)
    /\ loop' = "run"
    /\ UNCHANGED <<shared, active, base, exit, due, current, object, pc,
                   submitted, broken, owed, leftover, timerHistory>>

EndTask ==
    /\ loop = "inTask"
    /\ pc[Loop] = "idle"
    /\ executed' = Append(executed, Head(batch))
    /\ batch' = Tail(batch)
    /\ loop' = "run"
    /\ UNCHANGED <<shared, active, base, exit, due, current, object, pc,
                   submitted, broken, owed, leftover, timerHistory>>

TasksDone ==
    /\ loop = "run"
    /\ batch = <<>>
    /\ loop' = "timers"
    /\ UNCHANGED <<shared, active, base, exit, due, batch, current, object, pc,
                   history>>

\* Mutation: the purge requests are served before the new timers.
InstallTimersAfterPurge ==
    LET old == {t \in active : t.id \notin Ids(pendingTimers) \cup purging}
        new == {[id |-> p.id, interval |-> p.interval, base |-> base] : p \in pendingTimers}
    IN  /\ loop = "timers"
        /\ active' = old \cup new
        /\ due' = due \ (Ids(pendingTimers) \cup purging)
        /\ pendingTimers' = {}
        /\ purging' = {}
        /\ loop' = "due"
        /\ UNCHANGED <<stopped, pendingTasks, nextTimerId, evfd, base, exit,
                       batch, current, object, pc, history>>

\* Each new timer gets an event of m_evbase and enters m_activeTimers, where
\* it replaces, and so destroys, a timer with the same id.
InstallTimers ==
    LET old == {t \in active : t.id \notin Ids(pendingTimers)}
        new == {[id |-> p.id, interval |-> p.interval, base |-> base] : p \in pendingTimers}
    IN  /\ loop = "timers"
        /\ active' = old \cup new
        /\ due' = due \ Ids(pendingTimers)
        /\ pendingTimers' = {}
        /\ loop' = "purge"
        /\ UNCHANGED <<stopped, pendingTasks, purging, nextTimerId, evfd, base,
                       exit, batch, current, object, pc, history>>

\* Mutation: the Timer goes, its event stays in the queue of active events.
PurgeTimersWithoutDel ==
    /\ loop = "purge"
    /\ active' = {t \in active : t.id \notin purging}
    /\ purging' = {}
    /\ loop' = "due"
    /\ UNCHANGED <<stopped, pendingTasks, pendingTimers, nextTimerId, evfd,
                   base, exit, due, batch, current, object, pc, history>>

\* purgeTimerInternal() for every request: the event is deleted, also from
\* libevent's queue of active events, and the Timer destroyed.
PurgeTimers ==
    /\ loop = "purge"
    /\ active' = {t \in active : t.id \notin purging}
    /\ due' = due \ purging
    /\ purging' = {}
    /\ loop' = "due"
    /\ UNCHANGED <<stopped, pendingTasks, pendingTimers, nextTimerId, evfd,
                   base, exit, batch, current, object, pc, history>>

BeginTimer ==
    /\ loop = "due"
    /\ \E id \in due :
          /\ current' = id
          /\ due' = due \ {id}
    /\ loop' = "inTimer"
    /\ UNCHANGED <<shared, active, base, exit, batch, object, pc, history>>

OneShot(id) == \E t \in active : t.id = id /\ t.interval = 0

\* Mutation: a one-shot timer stays installed.
EndTimerKeepingIt ==
    /\ loop = "inTimer"
    /\ pc[Loop] = "idle"
    /\ loop' = "due"
    /\ finished' = IF OneShot(current) THEN finished \cup {current} ELSE finished
    /\ UNCHANGED <<shared, active, base, exit, due, batch, current, object, pc,
                   submitted, executed, broken, owed, leftover,
                   repeats, purged, kept, adding, returned>>

\* The timer's lambda: a timer without an interval purges itself.
EndTimer ==
    /\ loop = "inTimer"
    /\ pc[Loop] = "idle"
    /\ loop' = "due"
    /\ IF OneShot(current)
       THEN /\ active' = {t \in active : t.id # current}
            /\ finished' = finished \cup {current}
       ELSE UNCHANGED <<active, finished>>
    /\ UNCHANGED <<shared, base, exit, due, batch, current, object, pc,
                   submitted, executed, broken, owed, leftover,
                   repeats, purged, kept, adding, returned>>

\* All active events have run: event_base_dispatch() returns or goes on.
EndIteration ==
    /\ loop = "due"
    /\ due = {}
    /\ loop' = IF exit THEN "exited" ELSE "poll"
    /\ UNCHANGED <<shared, active, base, exit, due, batch, current, object, pc,
                   history>>

-----------------------------------------------------------------------------

Call(c) ==
    \/ AddTask(c)
    \/ AddDelayTask(c)
    \/ AddRepeatTask(c)
    \/ \E id \in TimerIds : PurgeTimerTask(c, id)
    \/ StopLoad(c)

Return(c) ==
    \/ StopStore(c)
    \/ Notify(c)

OwnerCall ==
    \/ StartLaunch
    \/ StartFail
    \/ StartPublish
    \/ Wait
    \/ Destroy

\* The steps of ~GeneralWorker() after its stop().
Destructor ==
    \/ life = "destroying" /\ Wait
    \/ FreeBase
    \/ DestroyMembers

LoopThread ==
    \/ Poll
    \/ ReadEventfd
    \/ CheckStopped
    \/ TakeTasks
    \/ BeginTask
    \/ EndTask
    \/ TasksDone
    \/ InstallTimers
    \/ PurgeTimers
    \/ BeginTimer
    \/ EndTimer
    \/ EndIteration

\* The worker is gone: nothing is left to do.
Gone == life = "destroyed" /\ UNCHANGED vars

Next ==
    \/ \E c \in Callers : Call(c) \/ Return(c)
    \/ OwnerCall
    \/ Destructor
    \/ LoopThread
    \/ Gone

Spec == Init /\ [][Next]_vars

\* The operating system schedules every thread, so a thread inside the
\* library's code goes on.  A callback returns: however often it calls the
\* worker, it does so finitely many times.  Nobody has to begin a call.
Fairness ==
    /\ \A c \in Callers : WF_vars(Return(c))
    /\ WF_vars(StartPublish)
    /\ WF_vars(Destructor)
    /\ WF_vars(LoopThread)
    /\ SF_vars(EndTask)
    /\ SF_vars(EndTimer)

FairSpec == Spec /\ Fairness
-----------------------------------------------------------------------------
(* Properties.                                                             *)

\* Every variable keeps its type: the queues hold what the calls put there,
\* ids stay inside the mask, each caller is at a known point of its call.
TypeOK ==
    /\ stopped \in BOOLEAN
    /\ pendingTasks \in Seq(1 .. MaxTasks)
    /\ pendingTimers \subseteq Pending
    /\ purging \subseteq TimerIds
    /\ nextTimerId \in 0 .. MaxTimers
    /\ evfd \in BOOLEAN
    /\ active \subseteq Active
    /\ thread \in {"none", "joinable"}
    /\ base \in 0 .. MaxStarts
    /\ exit \in BOOLEAN
    /\ due \subseteq TimerIds
    /\ loop \in LoopStates
    /\ batch \in Seq(1 .. MaxTasks)
    /\ current \in TimerIds
    /\ pc \in [Callers -> {"idle", "notify", "store", "publish"}]
    /\ ready \in BOOLEAN
    /\ life \in {"alive", "destroying", "baseFreed", "destroyed"}
    /\ submitted \in 0 .. MaxTasks
    /\ executed \in Seq(1 .. MaxTasks)
    /\ broken \in Seq(1 .. MaxTasks)
    /\ owed \in 0 .. MaxTasks
    /\ leftover \in BOOLEAN
    /\ finished \subseteq TimerIds
    /\ repeats \subseteq TimerIds
    /\ purged \subseteq TimerIds
    /\ kept \subseteq TimerIds
    /\ adding \in [Callers -> SUBSET TimerIds]
    /\ returned \subseteq TimerIds

\* "Executes tasks one after one, in the FIFO way" (GeneralWorker.h:18): the
\* tasks that ran, the batch being run, the queue and the tasks destroyed
\* unrun are together exactly the submitted ones, in the order of submission;
\* so none is lost, run twice, or overtaken, across any number of swaps of
\* the vector and any number of threads that submit.
Fifo ==
    /\ \A i \in 1 .. Len(executed) : executed[i] = i
    /\ \A i \in 1 .. Len(batch) : batch[i] = Len(executed) + i
    /\ \A i \in 1 .. Len(pendingTasks) :
          pendingTasks[i] = Len(executed) + Len(batch) + i
    /\ \A i \in 1 .. Len(broken) : broken[i] = Len(executed) + i
    /\ Len(executed) + Len(batch) + Len(pendingTasks) + Len(broken) = submitted

\* stop() is graceful: when the loop has returned, every task that was queued
\* at the moment stop() set m_stopped has run, because onNotify tests the
\* flag before it takes the queue and drains the queue even when it exits.
StopIsGraceful == loop \in {"exited", "off"} => Len(executed) >= owed

\* No lost wake-up: a loop that waits in libevent with nothing to read has no
\* work queued, unless a caller is about to notify it, or the work was left
\* over when the worker was started again and nobody has notified it since.
NoLostWakeup ==
    loop = "poll" /\ ~evfd /\ (\A c \in Callers : pc[c] # "notify")
        => leftover \/ ~Work

\* A purge request that was made outside the purge window is final: until it
\* is taken it stays queued, and from then on the timer is neither queued,
\* nor installed, nor waiting in libevent's queue of active events, so its
\* callback never starts again.
PurgeIsFinal ==
    \A id \in kept \ purging :
        id \notin Ids(pendingTimers) \cup Ids(active) \cup due

\* libevent's queue of active events only holds events of timers that
\* m_activeTimers still owns: no callback runs on a destroyed Timer.
DueTimersAreInstalled ==
    /\ due \subseteq Ids(active)
    /\ loop = "inTimer" => current \in Ids(active)

\* A one-shot timer whose callback has completed is gone for good: its event
\* is persistent, so a second expiry would set its promise a second time.
OneShotFiresOnce ==
    \A id \in finished : id \notin Ids(pendingTimers) \cup Ids(active) \cup due

\* A repeated task that nobody purged stays queued or installed as long as
\* the worker lives: no other timer, id or callback takes it away.  (One with
\* a period of 0 runs once: OneShotFiresOnce.)
RepeatStaysRegistered ==
    life # "destroyed" =>
        repeats \ purged \subseteq Ids(pendingTimers) \cup Ids(active)

\* purgeTimerTask "purge[s] or deactivate[s] a repeated task"
\* (GeneralWorker.h:118): whenever it was called, once the request has been
\* taken no onNotify() installs the timer, and none leaves it installed.
PurgeIsNeverLost ==
    \A id \in purged \ purging : id \notin Ids(active)

\* event_free() "makes [the event] non-pending and non-active first"
\* (libevent event.h:1137), which needs the event's base: no installed timer
\* outlives the event base its event belongs to.
EventsFreedBeforeBase ==
    life = "baseFreed" => \A t \in active : t.base # base

\* stop() makes the loop return: not only does it set the flag, the loop is
\* awake to see it, whatever callbacks do in the meantime.
StopEndsLoop ==
    stopped /\ thread = "joinable" /\ pc[Owner] # "publish" ~> loop \in {"exited", "off"}

\* A task submitted while the worker was running does run, even when stop()
\* overtakes it before the loop has seen it.
SubmittedTaskRuns ==
    \A n \in 1 .. MaxTasks :
        submitted >= n /\ ~stopped /\ ~leftover ~> Len(executed) >= n

\* The destructor finishes: it stops the loop, joins the thread and frees
\* the object without waiting for anything that may not come.
DestructionFinishes == life = "destroying" ~> life = "destroyed"

\* The abstract executor: the queue is the batch in hand and then
\* m_pendingTasks, and the executor is open while the loop runs.
Executor == INSTANCE SerialExecutor
    WITH waiting <- batch \o pendingTasks,
         busy <- loop = "inTask",
         done <- executed,
         lost <- broken,
         open <- loop \notin {"off", "exited"}

\* The timers somebody may still count on: added, not purged, not run for good.
Registered ==
    IF life = "destroyed"
    THEN {}
    ELSE {[id |-> n, repeat |-> n \in repeats] :
              n \in {m \in TimerIds : m < nextTimerId} \ (purged \cup finished)}

\* The abstract worker is started when its thread is, and not only when
\* start() clears m_stopped; it owes those of the waiting tasks that were
\* submitted when stop() set the flag; purge requests take effect at once.
Contract == INSTANCE WorkerContract
    WITH stopped <- stopped /\ pc[Owner] # "publish",
         thread <- IF loop = "off" THEN "none"
                   ELSE IF loop = "exited" THEN "closed" ELSE "open",
         waiting <- batch \o pendingTasks,
         busy <- loop = "inTask",
         owed <- Len(executed) + 1 .. owed,
         timers <- Registered

\* GeneralWorker implements SerialExecutor: tasks run one at a time, in order,
\* and the loop does not return before it has run what it owes; and it keeps
\* WorkerContract, which GeneralThreadPool relies on: it closes on account of
\* a stop request only, discards nothing it owes, hands out its timer ids in
\* turn and keeps a timer registered until it is purged or has run.
ImplementsExecutor == Executor!Spec /\ Contract!Spec

=============================================================================
