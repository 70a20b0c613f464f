--------------------------- MODULE WorkerContract ---------------------------
(***************************************************************************)
(* What GeneralThreadPool relies on in each of its workers, and what       *)
(* GeneralWorker keeps: the contract between the two.                      *)
(*                                                                         *)
(* SerialExecutor says what a worker does with its jobs; the contract adds *)
(* what the pool sees of its life: a stop request is noted at once and     *)
(* makes owed every job waiting at that moment; the loop returns on        *)
(* account of a stop request only, and owing nothing; then the thread may  *)
(* be joined, and the worker started again or destroyed with what waits.   *)
(* A timer has the next id, masked, and is registered until somebody asks  *)
(* for it to be purged or, if it is not repeated, it runs; which it does   *)
(* while the loop runs and no job does.                                    *)
(***************************************************************************)
EXTENDS Naturals, Sequences

CONSTANT TimerIdSpace

VARIABLES
    stopped,       \* a stop request was noted, or it never started
    thread,        \* "none", "open" while the loop runs, "closed" after it
    waiting,       \* accepted jobs that have not finished, oldest first
    busy,          \* the head of waiting is being run
    owed,          \* the waiting jobs that were there at the stop request
    nextTimerId,
    timers,        \* registered timers: records [id, repeat]
    purged         \* the ids somebody asked to purge

contractVars == <<stopped, thread, waiting, busy, owed, nextTimerId, timers, purged>>

JobsOf(queue) == {queue[n] : n \in DOMAIN queue}

Init ==
    /\ stopped = TRUE
    /\ thread = "none"
    /\ waiting = <<>>
    /\ busy = FALSE
    /\ owed = {}
    /\ nextTimerId = 0
    /\ timers = {}
    /\ purged = {}

Unused == thread = "none" /\ stopped /\ waiting = <<>> /\ timers = {}

\* An unused worker makes place for a new one.
Replace ==
    /\ Unused
    /\ nextTimerId' = 0
    /\ purged' = {}
    /\ UNCHANGED <<stopped, thread, waiting, busy, owed, timers>>

\* A worker is started, perhaps again and with work queued; or a new one is.
Start ==
    /\ thread = "none"
    /\ stopped
    /\ thread' = "open"
    /\ stopped' = FALSE
    /\ \/ UNCHANGED <<nextTimerId, purged>>
       \/ Unused /\ nextTimerId' = 0 /\ purged' = {}
    /\ UNCHANGED <<waiting, busy, owed, timers>>

\* A job that is not waiting already.
Accept ==
    /\ \E job \in JobsOf(waiting') \ JobsOf(waiting) : waiting' = Append(waiting, job)
    /\ UNCHANGED <<stopped, thread, busy, owed, nextTimerId, timers, purged>>

AddTimer(repeat) ==
    /\ nextTimerId' = nextTimerId + 1
    /\ timers' = timers \cup {[id |-> nextTimerId % TimerIdSpace, repeat |-> repeat]}
    /\ UNCHANGED <<stopped, thread, waiting, busy, owed, purged>>

Purge(id) ==
    /\ timers' = {t \in timers : t.id # id}
    /\ purged' = purged \cup {id}
    /\ UNCHANGED <<stopped, thread, waiting, busy, owed, nextTimerId>>

\* A second request adds nothing to the first.
StopRequest ==
    /\ ~stopped
    /\ stopped' = TRUE
    /\ owed' = JobsOf(waiting)
    /\ UNCHANGED <<thread, waiting, busy, nextTimerId, timers, purged>>

Begin ==
    /\ thread = "open"
    /\ ~busy
    /\ waiting # <<>>
    /\ busy' = TRUE
    /\ UNCHANGED <<stopped, thread, waiting, owed, nextTimerId, timers, purged>>

Finish ==
    /\ thread = "open"
    /\ busy
    /\ busy' = FALSE
    /\ waiting' = Tail(waiting)
    /\ owed' = owed \cap JobsOf(Tail(waiting))
    /\ UNCHANGED <<stopped, thread, nextTimerId, timers, purged>>

\* A timer that is not repeated runs once.
Fire ==
    /\ thread = "open"
    /\ ~busy
    /\ \E t \in timers : ~t.repeat /\ timers' = timers \ {t}
    /\ UNCHANGED <<stopped, thread, waiting, busy, owed, nextTimerId, purged>>

Close ==
    /\ thread = "open"
    /\ ~busy
    /\ stopped
    /\ owed = {}
    /\ thread' = "closed"
    /\ UNCHANGED <<stopped, waiting, busy, owed, nextTimerId, timers, purged>>

Join ==
    /\ thread = "closed"
    /\ thread' = "none"
    /\ UNCHANGED <<stopped, waiting, busy, owed, nextTimerId, timers, purged>>

\* What waits is destroyed with the worker; nothing owed is among it.
Discard ==
    /\ thread = "none"
    /\ owed = {}
    /\ waiting' = <<>>
    /\ timers' = {}
    /\ UNCHANGED <<stopped, thread, busy, owed, nextTimerId, purged>>

Next ==
    \/ Replace
    \/ Start
    \/ Accept
    \/ \E repeat \in BOOLEAN : AddTimer(repeat)
    \/ \E id \in 0 .. TimerIdSpace - 1 : Purge(id)
    \/ StopRequest
    \/ Begin
    \/ Finish
    \/ Fire
    \/ Close
    \/ Join
    \/ Discard

Spec == Init /\ [][Next]_contractVars
=============================================================================
