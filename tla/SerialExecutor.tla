--------------------------- MODULE SerialExecutor ---------------------------
(***************************************************************************)
(* What a single-threaded task executor promises to the threads that hand  *)
(* it work, stated without locks, wake-ups or event loops.  Both executors *)
(* of the library, GeneralWorker and TaskDispatch, implement it.           *)
(*                                                                         *)
(* Jobs are numbered in the order in which the executor accepts them.  A   *)
(* job is accepted once, runs at most once and runs to completion, jobs    *)
(* run one at a time in the order of acceptance, nothing runs while the    *)
(* executor is closed, and the executor does not close before it has run   *)
(* every job accepted up to the last stop request it honours.  The jobs    *)
(* that will never run are discarded together, at the end.                 *)
(***************************************************************************)
EXTENDS Naturals, Sequences

VARIABLES
    waiting,   \* accepted jobs that have not finished, oldest first
    busy,      \* the head of waiting is being run
    done,      \* finished jobs, in the order they ran
    lost,      \* discarded jobs: their futures are broken, they never run
    owed,      \* how many jobs must be done before the executor closes
    open       \* a thread is there to run jobs

execVars == <<waiting, busy, done, lost, owed, open>>

Accepted == Len(done) + Len(waiting) + Len(lost)

Init ==
    /\ waiting = <<>>
    /\ busy = FALSE
    /\ done = <<>>
    /\ lost = <<>>
    /\ owed = 0
    /\ open = FALSE

Open ==
    /\ ~open
    /\ open' = TRUE
    /\ UNCHANGED <<waiting, busy, done, lost, owed>>

Accept ==
    /\ lost = <<>>
    /\ waiting' = Append(waiting, Accepted + 1)
    /\ UNCHANGED <<busy, done, lost, owed, open>>

Begin ==
    /\ open
    /\ ~busy
    /\ waiting # <<>>
    /\ busy' = TRUE
    /\ UNCHANGED <<waiting, done, lost, owed, open>>

Finish ==
    /\ busy
    /\ busy' = FALSE
    /\ done' = Append(done, Head(waiting))
    /\ waiting' = Tail(waiting)
    /\ UNCHANGED <<lost, owed, open>>

\* An executor that drains its queue on the way out owes every job accepted
\* so far; one that drops its queue never takes this step.
RequestStop ==
    /\ owed' = Accepted
    /\ UNCHANGED <<waiting, busy, done, lost, open>>

Close ==
    /\ open
    /\ ~busy
    /\ Len(done) >= owed
    /\ open' = FALSE
    /\ UNCHANGED <<waiting, busy, done, lost, owed>>

Discard ==
    /\ ~open
    /\ lost = <<>>
    /\ waiting' = <<>>
    /\ lost' = waiting
    /\ UNCHANGED <<busy, done, owed, open>>

Next ==
    \/ Open
    \/ Accept
    \/ Begin
    \/ Finish
    \/ RequestStop
    \/ Close
    \/ Discard

Spec == Init /\ [][Next]_execVars
=============================================================================
