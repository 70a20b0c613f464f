---------------------------- MODULE TaskDispatch ----------------------------
(***************************************************************************)
(* TaskDispatch (src/task_dispatch/task_dispatch.h): a singleton with one  *)
(* thread that takes tasks from a queue under m_taskMutex and sleeps on    *)
(* m_taskCv when there are none.                                           *)
(*                                                                         *)
(* stop() stores m_stopped without taking the mutex and notifies nobody,   *)
(* so its store may fall between any two steps of the thread; run() needs  *)
(* the mutex, so it waits while the thread is inside its critical section. *)
(* A task runs without the mutex and may call run() and stop() itself.     *)
(***************************************************************************)
EXTENDS Naturals, Sequences

CONSTANTS
    Clients,     \* threads that submit tasks
    Owner,       \* the client that starts and stops the dispatcher
    Worker,      \* the dispatcher's thread, as a caller
    MaxTasks,    \* bound: calls of run()
    MaxStarts    \* bound: calls of start()

ASSUME DispatchAssumption ==
    /\ Owner \in Clients
    /\ Worker \notin Clients
    /\ MaxTasks \in Nat
    /\ MaxStarts \in Nat

Callers == Clients \cup {Worker}

VARIABLES
    stopped,     \* m_stopped
    tasks,       \* m_tasks; a task is its place in the order of submission
    worker,      \* where the thread is; "off" when m_thread is not joinable
    taken,       \* the task the thread has moved out of the queue, or none
    pc,          \* where each caller is inside a call
    submitted,   \* history: tasks that entered m_tasks
    executed,    \* history: tasks that finished, in order
    starts,      \* history: calls of start()
    late         \* history: tasks taken from the queue after stop()

history == <<submitted, executed, starts, late>>
vars == <<stopped, tasks, worker, taken, pc, history>>

\* The thread holds m_taskMutex from the predicate of wait() to the pop().
Locked == worker \in {"check", "pop"}

Init ==
    /\ stopped = FALSE
    /\ tasks = <<>>
    /\ worker = "off"
    /\ taken = <<>>
    /\ pc = [c \in Callers |-> "idle"]
    /\ submitted = 0
    /\ executed = <<>>
    /\ starts = 0
    /\ late = 0

-----------------------------------------------------------------------------
(* The callers.                                                            *)

MayCall(c) ==
    /\ pc[c] = "idle"
    /\ c = Worker => worker = "run"

Goto(c, where) == pc' = [pc EXCEPT ![c] = where]

\* Mutation: the notification is left out.
RunWithoutNotify(c) ==
    /\ MayCall(c)
    /\ ~Locked
    /\ submitted < MaxTasks
    /\ submitted' = submitted + 1
    /\ tasks' = Append(tasks, submitted + 1)
    /\ UNCHANGED <<stopped, worker, taken, pc, executed, starts, late>>

\* run(): the task enters the queue ...
Run(c) ==
    /\ MayCall(c)
    /\ ~Locked
    /\ submitted < MaxTasks
    /\ submitted' = submitted + 1
    /\ tasks' = Append(tasks, submitted + 1)
    /\ Goto(c, "notify")
    /\ UNCHANGED <<stopped, worker, taken, executed, starts, late>>

\* ... and notify_all() wakes the thread if it sleeps, outside the mutex.
Notify(c) ==
    /\ pc[c] = "notify"
    /\ worker' = IF worker = "asleep" THEN "test" ELSE worker
    /\ Goto(c, "idle")
    /\ UNCHANGED <<stopped, tasks, taken, history>>

\* start(), which must not find the last thread still joinable: assigning over
\* it would end the program.  It does not reset m_stopped.
Start ==
    /\ pc[Owner] = "idle"
    /\ worker = "off"
    /\ starts < MaxStarts
    /\ starts' = starts + 1
    /\ worker' = "top"
    /\ UNCHANGED <<stopped, tasks, taken, pc, submitted, executed, late>>

\* stop(): the flag, then join() if there is a thread.
Stop ==
    /\ pc[Owner] = "idle"
    /\ stopped' = TRUE
    /\ IF worker = "off" THEN UNCHANGED pc ELSE Goto(Owner, "join")
    /\ UNCHANGED <<tasks, worker, taken, history>>

Join ==
    /\ pc[Owner] = "join"
    /\ worker = "exited"
    /\ worker' = "off"
    /\ Goto(Owner, "idle")
    /\ UNCHANGED <<stopped, tasks, taken, history>>

\* stop() from inside a task: join() of the own thread throws, the exception
\* ends up in the task's future, and the flag stays set.
StopFromTask ==
    /\ MayCall(Worker)
    /\ stopped' = TRUE
    /\ UNCHANGED <<tasks, worker, taken, pc, history>>

-----------------------------------------------------------------------------
(* The thread.                                                             *)

\* while (!m_stopped)
Top ==
    /\ worker = "top"
    /\ worker' = IF stopped THEN "exited" ELSE "test"
    /\ UNCHANGED <<stopped, tasks, taken, pc, history>>

\* Mutation: the predicate of wait() only looks at the queue.
TestQueueOnly ==
    /\ worker = "test"
    /\ worker' = IF tasks # <<>> THEN "check" ELSE "asleep"
    /\ UNCHANGED <<stopped, tasks, taken, pc, history>>

\* The predicate of wait(), on entry and after every wake-up.
Test ==
    /\ worker = "test"
    /\ worker' = IF stopped \/ tasks # <<>> THEN "check" ELSE "asleep"
    /\ UNCHANGED <<stopped, tasks, taken, pc, history>>

\* A condition variable may wake its waiter for no reason.
WakeSpuriously ==
    /\ worker = "asleep"
    /\ worker' = "test"
    /\ UNCHANGED <<stopped, tasks, taken, pc, history>>

\* Mutation: the flag is not looked at again after the wait.
CheckNothing ==
    /\ worker = "check"
    /\ worker' = "pop"
    /\ UNCHANGED <<stopped, tasks, taken, pc, history>>

\* The second look at m_stopped, with the mutex held.
Check ==
    /\ worker = "check"
    /\ worker' = IF stopped THEN "exited" ELSE "pop"
    /\ UNCHANGED <<stopped, tasks, taken, pc, history>>

\* Mutation: the newest task is taken.
PopBack ==
    /\ worker = "pop"
    /\ taken' = <<tasks[Len(tasks)]>>
    /\ tasks' = SubSeq(tasks, 1, Len(tasks) - 1)
    /\ late' = IF stopped THEN late + 1 ELSE late
    /\ worker' = "run"
    /\ UNCHANGED <<stopped, pc, submitted, executed, starts>>

Pop ==
    /\ worker = "pop"
    /\ taken' = <<Head(tasks)>>
    /\ tasks' = Tail(tasks)
    /\ late' = IF stopped THEN late + 1 ELSE late
    /\ worker' = "run"
    /\ UNCHANGED <<stopped, pc, submitted, executed, starts>>

\* Mutation: after a task the thread goes straight to the next one.
EndTaskPoppingOn ==
    /\ worker = "run"
    /\ pc[Worker] = "idle"
    /\ executed' = executed \o taken
    /\ taken' = <<>>
    /\ worker' = IF tasks # <<>> THEN "pop" ELSE "top"
    /\ UNCHANGED <<stopped, tasks, pc, submitted, starts, late>>

\* Mutation: the thread does not let go of the task it has run.
EndTaskKeepingIt ==
    /\ worker = "run"
    /\ pc[Worker] = "idle"
    /\ executed' = executed \o taken
    /\ worker' = "top"
    /\ UNCHANGED <<stopped, tasks, taken, pc, submitted, starts, late>>

\* task() returns; whatever it throws is kept in its future.
EndTask ==
    /\ worker = "run"
    /\ pc[Worker] = "idle"
    /\ executed' = executed \o taken
    /\ taken' = <<>>
    /\ worker' = "top"
    /\ UNCHANGED <<stopped, tasks, pc, submitted, starts, late>>

-----------------------------------------------------------------------------

Thread ==
    \/ Top
    \/ Test
    \/ Check
    \/ Pop
    \/ EndTask

\* The bounds are used up and nothing is going on.
Idle ==
    /\ worker = "off"
    /\ submitted = MaxTasks
    /\ starts = MaxStarts
    /\ \A c \in Callers : pc[c] = "idle"
    /\ UNCHANGED vars

Next ==
    \/ \E c \in Callers : Run(c) \/ Notify(c)
    \/ Start
    \/ Stop
    \/ Join
    \/ StopFromTask
    \/ Thread
    \/ WakeSpuriously
    \/ Idle

Spec == Init /\ [][Next]_vars

\* Every thread inside the library's code goes on, and a task ends, however
\* often it calls run().  Nobody has to call start(), stop() or run(), and no
\* spurious wake-up has to come.
Fairness ==
    /\ \A c \in Callers : WF_vars(Notify(c))
    /\ WF_vars(Join)
    /\ WF_vars(Thread)
    /\ SF_vars(EndTask)

FairSpec == Spec /\ Fairness

-----------------------------------------------------------------------------
(* Properties.                                                             *)

\* Every variable keeps its type, and the thread holds a task exactly while it
\* runs it.
TypeOK ==
    /\ stopped \in BOOLEAN
    /\ tasks \in Seq(1 .. MaxTasks)
    /\ worker \in {"off", "top", "test", "asleep", "check", "pop", "run", "exited"}
    /\ taken \in Seq(1 .. MaxTasks)
    /\ IF worker = "run" THEN Len(taken) = 1 ELSE taken = <<>>
    /\ pc \in [Callers -> {"idle", "notify", "join"}]
    /\ submitted \in 0 .. MaxTasks
    /\ executed \in Seq(1 .. MaxTasks)
    /\ starts \in 0 .. MaxStarts
    /\ late \in Nat

\* No lost wake-up: the thread does not sleep over a queued task, unless the
\* caller that queued it is on its way to notify_all().
NoLostWakeup ==
    worker = "asleep" /\ tasks # <<>> => \E c \in Callers : pc[c] = "notify"

\* front() and pop() find a task: neither a wake-up without reason, nor one by
\* stop(), nor a second taker lets the thread get there with an empty queue.
PopFindsTask == worker = "pop" => tasks # <<>>

\* After stop() has stored the flag at most one more task begins: the one the
\* thread had already decided to take.
AtMostOneLate == late <= 1

\* A task submitted to a dispatcher that has been started runs, unless the
\* dispatcher is stopped first.
TaskRunsUnlessStopped ==
    \A n \in 1 .. MaxTasks :
        submitted >= n /\ worker # "off" ~> Len(executed) >= n \/ stopped

\* stop() returns if the thread was awake when the flag was stored.  (If it
\* was asleep, stop() returns only if somebody calls run(), because stop()
\* does not notify m_taskCv.)
StopReturnsUnlessAsleep ==
    pc[Owner] = "join" /\ worker # "asleep" ~> pc[Owner] = "idle"

\* The abstract executor: it never discards a job and, as stop() drops the
\* queue, owes nothing when it closes.
Executor == INSTANCE SerialExecutor
    WITH waiting <- taken \o tasks,
         busy <- worker = "run",
         done <- executed,
         lost <- <<>>,
         owed <- 0,
         open <- worker \notin {"off", "exited"}

\* TaskDispatch implements SerialExecutor.
ImplementsExecutor == Executor!Spec

=============================================================================
