# A verification of CPP_Utility

CPP_Utility is a collection of C++ classes: a worker thread around a libevent
loop, a pool of such workers, a single-threaded task dispatcher, a table of
try-locks, a small web service, and utilities for status values, lines, files
and processes. (The repository also carries its libraries, Boost, gmock and
others, under `thirdpart/`; they are not part of this.) This directory holds
TLA+ models of the classes in which threads, callbacks and the order of calls
matter, the TLC configurations that
check them, and proofs of the main results for TLAPS.

    tlc -config MCGeneralWorker_timers.cfg MCGeneralWorker     # one run
    tlapm GeneralWorker_proofs.tla                             # one set of proofs

Source paths below are relative to `src/src/`. `PROJECT.json` lists for every
definition the lines it translates, and for every property a mutation of the
model, as a plausible slip in the code would make it, that breaks it.

## 1. The system

| component | state | operations | what is hard | what makes it correct |
|---|---|---|---|---|
| **GeneralWorker** `thread/GeneralWorker.*` | `m_stopped` (atomic); three vectors under `m_lock`: tasks, new timers, purge requests; the id counter; an event base, an eventfd and its event; the map of installed timers, private to the loop thread | `start`, `stop`, `wait`, `addTask`, `addDelayTask`, `addRepeatTask`, `purgeTimerTask`, the destructor; on the loop thread `onNotify` and the timers' callback | any thread calls, also the loop's own callbacks; `onNotify` has three critical sections with gaps between; the wake-up is written after the lock is released; `stop()` is not synchronised with submissions; purge against expiry; restart | FIFO, no task lost or run twice, graceful stop, no lost wake-up, purged timers never fire, one-shot timers fire once, nobody else removes a repeated task |
| **GeneralThreadPool** `thread/GeneralThreadPool.*` | vector of workers, their number, an atomic round-robin counter; no lock | the same calls, spread over the workers; `stop` and `wait` walk along the vector | two `stop()` at once, `stop()` from a task, `start()` that fails half way, tasks and timers' callbacks that call the pool while it is being waited for; ids packed from two numbers | every worker is stopped and joined in spite of the short cuts, the pool outlives what runs in it, nothing accepted before a stop is lost, an id leads to its timer |
| **TaskDispatch** `task_dispatch/task_dispatch.h` | `m_stopped` (atomic), a queue under `m_taskMutex`, `m_taskCv`, one thread | `start`, `stop`, `run` | `stop()` neither takes the mutex nor notifies; `run()` notifies after unlocking; the flag is read twice per round | no lost wake-up, `front()` never on an empty queue, at most one late task, FIFO |
| **MemLock** `lock/MemLockCore.h`, `lock/MemLockWrapper.h` | a concurrent hash map whose keys are the locks; in a guard its keys and an iterator | `try_lock`, `unlock`, `lockBatch`, `unlockBatch`; the guard's constructor and destructor | a batch is inserted and rolled back key by key among others doing the same; the map stores no owner | a batch is all or nothing, nobody erases another's key, nothing stays behind, no deadlock |
| **Status** `status/status.*` | a pointer to an immutable buffer, null for OK | construction, copy, move, assignment, comparison, formatting | value semantics over several objects; a 16-bit size | an object has the value it was last given |
| **WebService** `webservice/webservice.*` | `m_started`, server, listener thread, router; on the stack of `start()` a mutex, a condition variable, a flag and a Status shared with the listener | `start`, destructor, `router` | `start()` waits for a callback on another thread and then destroys what that callback still uses; failure of the server; requests come before `start()` returns | `start()` returns what happened, and only then; it and the destructor return; its second call tells the truth (it does not) |
| **Router, Route** `webservice/Router.*` | a linked list of routes without a lock, each with method, path or pattern, handler | `get`/`post`/`put`/`del`, `handler`, `dispatch` | routes are appended, and get their handler later, while requests are dispatched; stripped paths against unstripped patterns | the first match answers; a registered route is never missed; a walk stays in the list |
| **IstreamLineReader** `istream_line_reader/istream_line_reader.h` | a stream shared by all iterators; in an iterator its line | `begin`, `end`, both `++`, `==` | iterators influence each other; the end is seen only by reading | each line is delivered once and in order, and the end means that none is left |
| **StatusHandler, NotFoundHandler** `webservice/` | one object per request | a response, then `delete this` | – | – |
| **NamedThread, FileUtils, ProcessUtils, helpers** | none that lives through several calls | thread name; path expressions and `lstat`; `kill(pid, 0)`; macros | – | – |

The interactions: a `GeneralThreadPool` owns `GeneralWorker`s and calls them; a
worker's loop runs on a `NamedThread` and calls back the tasks, which may call
the worker or the pool; `WebService` starts a `NamedThread` for the proxygen
server, whose threads call `Router::dispatch`; `WebService` and `ProcessUtils`
report with `Status`. `TaskDispatch` and the locks stand alone.

## 2. The modules

| module | what it is |
|---|---|
| `SerialExecutor` | abstract: a single-threaded executor, without locks, wake-ups or loops |
| `WorkerContract` | abstract: what a pool relies on in a worker, its jobs, its stop and its timers |
| `GeneralWorker` | the worker; implements `SerialExecutor` and `WorkerContract` |
| `GeneralThreadPool` | the pool, over workers that behave as `WorkerContract` |
| `TaskDispatch` | the dispatcher; implements `SerialExecutor` |
| `KeyLocks` | abstract: a table of locks with batches taken in one step |
| `MemLock` | the table and its guards; implements `KeyLocks` |
| `Status` | status objects as values |
| `Router` | paths, patterns and which requests a route matches |
| `WebService` | the service with its listener and the list of routes, over `Router` |
| `IstreamLineReader` | iterators over one stream |
| `MC*` | small instances for TLC |
| `SequenceLemmas` | facts about appending and removing that the proofs about queues share |
| `GeneralWorker_proofs`, `TaskDispatch_proofs`, `MemLock_proofs`, `GeneralThreadPool_proofs`, `GeneralThreadPool_contract`, `WebService_proofs`, `IstreamLineReader_proofs` | theorems and proofs |

### GeneralWorker

The shared state is kept under the source's names (`stopped`, `pendingTasks`,
`pendingTimers`, `nextTimerId`); `purging` is the vector of purge requests as a
set, since erasing twice does nothing. `active` is `m_activeTimers` with, for
each timer, the event base its event was made on. A task is the number of its
submission. Each access that another thread can see is a step of its own: the
critical section of a call, then `Notify`, the write to the eventfd; `StopLoad`
and `StopStore`; in the loop `Poll` (libevent collects events), `ReadEventfd`,
`CheckStopped`, `TakeTasks`, `BeginTask`/`EndTask` for each task,
`InstallTimers`, `PurgeTimers`, then `BeginTimer`/`EndTimer` for each timer
that is due, and `EndIteration`. `Loop` is one of the callers: while a callback
runs it may make any call a client can. A caller that adds a timer is given its
id when the call returns (`HandBack`), and `purgeTimerTask` takes ids that
`addRepeatTask` has returned, to whichever caller. `start()` is `StartLaunch` and
`StartPublish` (the thread runs before `m_stopped` is cleared), or `StartFail`;
the destructor is `Destroy`, the rest of `stop()`, `Wait`, `FreeBase` and
`DestroyMembers`. libevent is external: the worker needs of it that the read
event is level-triggered, that callbacks run one by one on the loop's thread,
the notifier before the timers collected with it, that deleting an event also
takes it out of the queue of active events, and that `event_base_loopexit`
takes effect after the events that are active. Time is abstracted: an armed
timer may come due at any iteration. That allows every timing the clock does.

### GeneralThreadPool

A worker is replaced by its contract, the module `WorkerContract`: `waiting` and
`busy` as in `SerialExecutor`, `thread` open or closed, closing only when it is
`stopped` and has run what is `owed`; a timer has the next id of its worker and
stays registered until it is purged or has run. A timer's callback is a step
`BeginTimer` and a step `EndTimer`; the timer of a repeated task may come due
after somebody has asked for its purge. What runs on a worker's thread, a task
or a callback, may make any call to the pool between the two. That a full worker does no more
than the contract, and that the pool's workers do no more either, are theorems
(section 4). Submitting is `Choose`
(the atomic counter, the division by `m_nrThreads`) and then `AddTask`,
`AddDelayTask` or `AddRepeatTask` at that worker. `stop()` is `Stop`, then per
worker `StopNext` (its `m_stopped` is false) and `StopStore`, until
`StopReturn` at the end of the vector or at a worker that was stopped before;
`wait()` is `Wait`, one `Join` per worker, `Clear`. `Start` covers the start of
all workers and every place where one of them fails: the failing worker is the
last of the vector, and `m_nrThreads` already has the full number.

### TaskDispatch

The thread's loop is `Top` (`while (!m_stopped)`), `Test` (the predicate of
`wait`, after which it sleeps or goes on), `Check` (the second look), `Pop`,
`EndTask`; the mutex is held from the predicate to `Pop`, which keeps `Run`
out, but not `Stop`. `WakeSpuriously` is any wake-up the standard allows.
`StopFromTask` is `stop()` called by a task: its `join()` of its own thread
throws, and the exception ends up in the task's future.

### MemLock

`holder` tells for each key in the map who inserted it, which the program does
not know; the actions never use it to decide anything but whether the key is
there, except for `Unlock`, where a user gives back a key it has taken. A guard
goes from `Construct` through `Insert` per key to `Locked`, or to `Conflict`,
`Erase` per key and `RolledBack`; its destructor is `Unlocking`, `Erase`,
`Destruct`. With `dedup` the vector is sorted and then changed as `std::unique`
does it, with the tail left in place, because the new end is not used.

### Router and WebService

A path is a sequence of segments with or without a slash at the end; `Strip` is
what `setPath` and `matches` do to that slash, `Search` is `regex_search` with
the expression `createPattenRegex` builds, which is anchored at neither end: the
pattern may be found anywhere in the path, and its last literal is satisfied by
a segment that begins with it (`Begins`). `routes` is the list from `m_head`.

The owner's thread is at one place `at` of `start()`, of `route()`/`handler()`
or of the destructor; `listener` is the place of the listener thread: `Report`
is proxygen's choice of a callback, after which `SetPorts` or `SetStatus`,
`SetDone` and `NotifyAll` are the callback's steps. A critical section is one
step, and `cv.wait` is `Wait` (the predicate) with `SpuriousWakeup` allowed at
any time. A server thread begins a request, takes one route per `TryRoute` and
ends with an answer of a route or of `NotFound`, or in `TryUnknown`: a request
whose method proxygen does not know makes `dispatch` throw, in a `noexcept`
function. `crash` names what ended the process: that, an abort in `route()`, an empty `std::function` called by a request
that found a route before its handler, a destructor without a server, or a
notification of a condition variable that is gone. Two points are undefined
behaviour in C++ and modelled by their outcomes: that stray notification does
nothing or ends the process, and a request that reads `m_next` while
`setNext` writes it sees the pointer before or after.

proxygen is external: the server reports once, success or failure; it serves
requests before it reports success; `stop()` takes no new requests, waits for
those under way, and makes `start()` return, also if it comes first.

### IstreamLineReader

The stream has `eofbit` and `failbit`; `GetLine` is `std::getline` with the
last line read whether or not a newline ends it. A program may begin loops,
nest them, leave them, begin again and keep copies of iterators (`i++`).

### Status

One action per constructor, assignment and the destructor, with `meant` as the
value the object should have.

## 3. What the runs show

| run | instance | states | what it checks |
|---|---|---|---|
| `worker_timers` | 2 clients, 1 task, 2 timers, 1 start | 1,733,412 | `TypeOK`, `PurgeIsFinal`, `DueTimersAreInstalled`, `OneShotFiresOnce`, `RepeatStaysRegistered` |
| `worker_restart` | 2 clients, 2 tasks, 1 timer, 2 starts | 140,167 | fair: `Fifo`, `StopIsGraceful`, `NoLostWakeup`, `ImplementsExecutor`, `StopEndsLoop`, `SubmittedTaskRuns`, `DestructionFinishes` |
| `pool_calls` | 2 clients, 2 workers, 2 submissions, 2 starts | 406,328 | fair: `TypeOK`, `PoolOutlivesItsTasks`, `StopReachesEveryWorker`, `StopDrainsPool`, `PurgeIsRouted`, `WaitReturns`, `DestructionFinishes` |
| `dispatch` | 3 clients, 4 tasks, 3 starts | 2,839 | fair: `TypeOK`, `NoLostWakeup`, `PopFindsTask`, `AtMostOneLate`, `TaskRunsUnlessStopped`, `StopReturnsUnlessAsleep`, `ImplementsExecutor` |
| `memlock` | 2 guards, 1 user, 3 keys, 8 vectors | 96,104 | fair: `TypeOK`, `LockedGuardHoldsItsKeys`, `NothingIsLeaked`, `ConflictIsForeign`, `TryNeverBlocks`, `ImplementsKeyLocks` |
| `webservice` | 2 server threads, 5 requests, 4 owner's routes of which 2 are added | 519,976 | fair: `TypeOK`, `StartTellsTheTruth`, `LocalsOutliveTheirWriters`, `StartIsSafe`, `FirstMatchAnswers`, `CallsReturn` |
| `line_reader` | 3 iterators, streams of up to 4 lines | 580 | `LinesOnce`, `EndMeansExhausted` |
| `worker_purge_lost` | 1 timer | violated | `PurgeIsNeverLost` |
| `worker_event_base` | 1 timer | violated | `EventsFreedBeforeBase` |
| `webservice_again` | as `webservice` | violated | `OkMeansUp` |
| `memlock_dedup` | as `memlock` | violated | `DedupDropsDuplicates` |
| `status_assign` | 3 objects, 2 errors | violated | `HasTheValueGiven` |

**Bounds.** They count calls: `MaxTasks`, `MaxTimers`, `MaxSubmits`,
`MaxStarts` limit submissions and starts and nothing else; stop, purge and wait
may be called at any time. Two clients and the loop's callbacks are three
callers, enough for two `stop()` at once under a submission from a callback.
Two timers let a purge of one meet the installation of the other and let ids
collide if the mask is wrong (`TimerIdSpace` 2). Two tasks suffice to see a
wrong order, and two starts to see what one life of the thread leaves to the
next. Two submissions and the round-robin counter reach both workers of the
pool, which are enough for one to be stopped, joined or without a thread while
the other is not. Two routes behind the built-in ones let the list grow under a
walk that is at its last route. Four of the requests match an exact route, a
pattern, several routes, and a pattern that is found in the middle of the path;
the fifth has a method that is not known.
Three iterators nest loops and keep a copy. Three keys and vectors in opposite
orders give every way in which two batches can overlap, with a third party that
holds keys as long as it likes. For every safety property of the passing runs
the theorems of section 4 remove the bounds.

**Fairness.** Every thread inside the library's code makes progress: weak
fairness of the steps of each caller, of the loop thread and of the destructor.
No fairness is put on beginning a call, on a user's `unlock`, on a guard's
destruction or on spurious wake-ups. Tasks and timer callbacks are the
client's code: they may call the library again and again, so the step that
ends one is not continuously enabled; that they return at all is stated by
strong fairness of `EndTask` and `EndTimer` in the worker and of `Complete`
(`Finish` or `EndTimer`) in the pool. `TakeUp` in the pool, the beginning of a
task or `Close`, has strong fairness because timers' callbacks come between:
that tasks get their turn among them is `SubmittedTaskRuns` of the worker, and
that a stopped loop returns even while callbacks go on submitting is its
`StopEndsLoop`. That a timer comes due is not fair. The owner's steps in
`stop()`, `wait()` and the destructor are one sequence and fair as one. In the web
service the owner's steps inside a call, the listener's and those that serve a
request are weakly fair, which includes that proxygen reports at some time;
beginning a call or a request is not fair. The line reader is sequential and
checked for safety.

**What the code does otherwise than it says.** Five runs end in a
counterexample, each described under `findings`:

1. *A purge request can be lost.* `onNotify` takes the new timers and the purge
   requests in two critical sections. If a client calls `addRepeatTask` between
   them, and `purgeTimerTask` with the id it gets back, the timer is not
   installed yet when the request is served; the request is dropped, and the
   timer is installed at the next wake-up, which the add itself has caused. It
   then runs in every period. `PurgeIsFinal` says that this window is the only
   way.
2. *Timers outlive their event base.* `~GeneralWorker` frees the base in its
   body; the timers that are left free their events after it.
3. *`dedup` does not drop duplicates.* The end returned by `std::unique` is
   ignored, so a guard with a repeated key can conflict with itself.
4. *A failed web service says OK.* `start()` sets `m_started` first and leaves
   it set when the server could not start; asked again, it returns OK.
5. *Copy assignment of a Status does not copy.* Its test has the wrong sign: an
   object assigned one with another value, OK or an error, keeps its own.

Two more limits of the code show in properties that are stated so as to hold:
`StopReturnsUnlessAsleep` (`TaskDispatch::stop()` does not wake the thread, so
`join()` waits for ever if it sleeps), and `leftover` in `NoLostWakeup` (tasks
queued when a worker is started again wait for the next notification). Likewise
`RepeatStaysRegistered` leaves out a period of 0, with which a repeated task
runs once; `StartIsSafe` speaks of the built-in routes only: `route()` can be
called only once the service runs, so a request may find an owner's route
before its handler, and a request with an unknown method ends the process, which
no property speaks of either; `LocalsOutliveTheirWriters` is about the listener's writes and leaves out its
notification, which may come when `start()` has returned and its condition
variable is gone, and which no property covers; and `Spells` leaves out patterns
that end in a slash, which never match the paths they spell.

## 4. What is proved

`TLAPS` checks, for all values of the constants, under the assumptions named in
the modules (`WorkerAssumption`, `PoolAssumption`, `DispatchAssumption`,
`LockAssumption`, `RouterAssumption`, `WebServiceAssumption`,
`ReaderAssumption`: the owner is a client, the thread's own name is not, the
counters are natural numbers, no timer id is handed out twice, keys are
ordered, parameters are not literals, every segment begins with itself).

*GeneralWorker.* The inductive invariant is `TypeOK` with four parts.
`ThreadInv` relates the state of the thread, the loop and the callers: a loop
is on exactly while the thread is joinable, the loop thread is inside a call
only in a callback, and the destructor's later steps find the thread joined.
`TaskInv` is FIFO as an equation of positions, and that a loop with `exit` set
has run, or has in hand, what is owed. `TimerInv` says where an id may be:
below the counter (`IdsHandedOut`: also one that a call has still to return), in
at most one place, due only if installed, and for a
purged id in which of the sections of `onNotify` it may still be queued.
`WakeInv` says that a polling loop with queued work has a readable eventfd or
somebody on the way to write to it. Each is preserved by itself given the parts
before it. `Fifo`, `StopIsGraceful`, `NoLostWakeup`, `PurgeIsFinal`,
`DueTimersAreInstalled` and `OneShotFiresOnce` follow. `RepeatStaysRegistered`
needs in addition that the timers it is about have a positive interval; those
added by `addRepeatTask(0)`, which the code takes for one-shot timers, are not
among them. The worker implements `SerialExecutor`: `TakeTasks` maps to a
stutter because the abstract queue is the batch and the queue put together. It
also implements `WorkerContract`: a stop request is noted when `m_stopped` is
stored, and what waits at that moment is owed; a timer is registered from
`addDelayTask` or `addRepeatTask` until it is purged or its one callback has
completed.

Two theorems are the safety half of `StopEndsLoop`. `StopWakesLoop`: a loop
that runs although `m_stopped` is set was told to exit, is about to test the
flag, has its eventfd readable or a caller about to write to it. `ExitIsFinal`:
from `event_base_loopexit` on every step of the loop thread lowers the pair of
the sections of `onNotify` still to come and the callbacks still to run in the
present one, and nothing that callers or callbacks submit raises it.

*GeneralThreadPool.* `CallInv`: a worker inside `wait()`'s reach is joined, one
in front of it is not, only the last may be without a thread, and a task or a
timer's callback has a thread under it, also while it is inside a call of the
pool. `PoolOutlivesItsTasks` follows, although
`wait()` turns back at a worker without a thread. `StopInv`: an unstopped
worker behind a stopped one has a `stop()` on its way, past the first and not
past the second. When a call turns back at a worker somebody else has stopped,
the invariant for that pair names the call that goes on; this gives
`StopReachesEveryWorker`. `TaskInv`: a task that a `stop()` has to spare is
with a worker that is not stopped, or is owed by the one it is with;
`StopDrainsPool` follows. For `PurgeIsRouted`, `CountInv` counts the callers
between choosing a worker and calling it (so no worker hands out more ids than
`TimerIdSpace`), and `RouteInv` says that every id of the pool is the packing
of a worker and an id it has handed out. `WaitFindsStopped`, with the invariant
`WaitInv` that `wait()` and the destructor's `wait()` are entered only behind a
`stop()`, says that the owner never joins a worker which is not stopped and to
which no `stop()` is on its way.

*From the worker to the pool.* `WorkersAreContracts`: for every index, what
happens to the worker at that index, through stops, partial starts, restarts
and the pool's `clear()`, is a behaviour of `WorkerContract`, which
`GeneralWorker` implements. `OwedInv` says that a worker whose loop has
returned owes nothing of what it still has; a worker is replaced by a new one
only when it is stopped, joined and empty (`Unused`), which `CallInv` and
`TaskInv` give. Together the two refinements show that the pool makes no
assumption about a worker which `GeneralWorker` does not meet. What the
contract hides is the purge window of `onNotify`: a request that is lost there
has removed the timer from the contract when it was made, so `PurgeIsRouted`
speaks of requests and not of the loss (finding 1). `FiringInv` says that a
worker runs one callback at a time, of a timer of its own; the contract sees
only its end, as `Fire` if that removes a timer and as a stutter otherwise. That a worker in the
pool may take every step of its own the contract allows is not proved but read
off the text: `Begin`, `Finish`, `Close` and the contract's `Fire`, which is
`EndTimer` here, have the same guards in both modules, except that `Begin` and
`Close` in the pool also wait for the callback that runs on the thread, and
`Finish` and `EndTimer` for the call of the pool that the task or the callback
is inside of.

*TaskDispatch.* `DispatchInv` says what the thread knows between two steps: it
leaves `wait` with the flag or a task in sight, and as it holds the mutex the
task stays; every task is in one of three places; and a thread that has taken a
task after `stop()` does not reach the queue again. `NoLostWakeup`,
`PopFindsTask`, `AtMostOneLate` and the refinement follow. `OrderOfTasks` says
in one equation that what ran, what runs and what waits is the sequence of the
tasks submitted. `AwakeThreadIsJoined` is the safety half of
`StopReturnsUnlessAsleep`: once the flag is set an awake thread does not sleep
again, and each of its steps lowers the number of steps it has left (at most
three, with a task between them).

*MemLock.* `LockInv`: the iterators agree with the guard's state
(`IteratorsAgree`); the keys between `begin` and `curr` are the guard's
(`SpanIsHeld`) and different (`SpanIsDistinct`); the guard holds no other key
(`NothingIsLeaked`); and a failed guard without duplicates met a foreign key.
`SpanIsDistinct` is what makes erasing one key leave the others in place: a
batch with a repeated key cannot get past the repetition. The refinement maps
`Locked` to taking the batch in one step and `Unlocking` to giving it back.
`MutualExclusion` states what the refinement means for the user: no key is in
the hands of two. `TryIsWaitFree`, the safety half of `TryNeverBlocks`: a
constructor over n keys makes at most 2n + 2 rounds, and no step of others adds
one.

*WebService.* `Phases` relates the places of the owner and of the listener:
while the owner is in `start()` before its launch there is no server, while it
waits `start()` has not returned, and the flag is set exactly when the listener
is past `SetDone`. `Reported` says what the listener knows: at `ports` the
server is up or was, at `error` it failed, and behind both the status and the
port flags agree with the outcome. From these two follow `StartTellsTheTruth`
and `LocalsOutliveTheirWriters`. `BuiltinsFirst` says that the first two routes
are the built-in ones, with handlers, in every list that a request can walk.
`Walked` says that a walk is at a route of the list, or past its end, and that
no route before its place matches; as routes are only appended and neither
method nor path changes, it survives every growth of the list.
`FirstMatchAnswers` follows with the lemma `SpeltIsMatched` about the router:
for any prefix, segments and parameters, a route matches what it spells.
`LiteralIsExact` bounds it from the other side: a route without a parameter
matches nothing else. The safety half of `CallsReturn` rests on `CallsInv`,
which says where the listener may be while the owner sleeps, stops or joins: a
sleeping `start()` has the notification before it (`StartIsWoken`), the
destructor's `stop()` meets requests that only come nearer to their end
(`StopDrainsRequests`), and its `join()` meets a listener on its last steps
(`JoinFindsEnd`). `FailureIsReported` bounds finding 4: the `start()` that
launched the failed server did return the error.

*IstreamLineReader.* The invariant: the flags of the stream are set only when
all its lines are read, and the lines processed are those read. Both properties
follow for any stream and any number of iterators.

*Only model-checked:* the five counterexamples and all liveness, which rests on
fairness and `ENABLED`, out of the prover's reach. For `StopEndsLoop`,
`StopReturnsUnlessAsleep`, `TryNeverBlocks`, `WaitReturns`, the two
`DestructionFinishes` and `CallsReturn` the theorems above prove what they need
besides: that whoever waits, waits for somebody who is on the way, and for most
of them that the way is finite. `SubmittedTaskRuns` and `TaskRunsUnlessStopped`
rest on `NoLostWakeup` and the order of tasks in the same way. `Status` has no
theorem: its only claim is one the code breaks. `WorkersKeepContract` is proved
and not part of a run.

## 5. What is not modelled

- Exceptions of tasks, promises and futures: what a task computes, and tasks
  that wait for each other.
- `start()` of a worker or dispatcher whose last thread has not been joined: the
  assignment over a joinable `std::thread` ends the program.
- A pool's `stop()` while another thread is in `wait()`, and calls by clients
  during destruction. The classes have no protection against them.
- The wrap-around of ids: `TimerIdSpace` is at least the number of timers, as a
  worker does not live through 2^48 of them. Ids of an earlier life of a pool.
- `MemLockCore::clear()` and `size()` name a member that does not exist and the
  moves of `MemLockGuard` do not compile. Other misspelled names are read as
  what they are plainly meant to be.
- The bytes, size and formatting of a Status: comparison and `format()` are
  functions of one object's bytes, and the cut to 16 bits needs a message
  longer than those the library makes itself.
- Of the router: empty segments, parameters inside a segment (`/a:id`),
  characters with a meaning in regular expressions, the values of parameters
  handed to a handler. `get`, `post`, `put` and `del` are `route()` with a
  method.
- Of the web service: an exception in the listener that is not a
  `std::exception` or that `bind` throws, which end the process; the options of
  the server; `StatusHandler`'s response and its answer to other methods than
  GET (its routes are for GET). The service's sources do not compile as they
  stand (`m_route` for `m_router`, `m_server.bind`, a missing `return` in
  `onRequest` and more); they are read as what they are plainly meant to be.
- `FileUtils` and `ProcessUtils`: one system call or one regular expression
  over characters each, no state between calls.
- `NamedThread`, macros: no state of their own. `NamedThread`'s threads appear
  as the loop of the worker and the listener of the service.

## 6. Plan

Done, in this order: the worker with its abstract executor and proofs; the
dispatcher, which implements the same executor, with proofs; the locks with
their abstract table and proofs; the pool on top of the proved contract of the
worker, with proofs; assignment of Status; the web service with its router, and
the line reader, both with proofs; the contract between pool and worker, proved
from both sides; the safety halves of the liveness properties.

What could come next:

1. `Status` messages with their 16-bit size and comparison.
2. Tasks that fulfil promises: a task that waits for a future of its own worker,
   and exceptions that leave the loop.
3. Fairness in `WorkerContract`, so that `Close` of the pool's workers follows from
   `StopEndsLoop` on a small instance as well.
