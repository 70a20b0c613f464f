------------------------- MODULE TaskDispatch_proofs -------------------------
(***************************************************************************)
(* Proofs about TaskDispatch, for any number of callers, tasks and starts. *)
(***************************************************************************)
EXTENDS TaskDispatch, SequenceLemmas, TLAPS

\* What the thread knows between two steps.  It leaves wait() with the flag or
\* a task in sight, and because it holds the mutex the task does not go away.
\* Once it has taken a task after stop(), it does not reach the queue again.
DispatchInv ==
    /\ worker = "check" => stopped \/ tasks # <<>>
    /\ PopFindsTask
    /\ NoLostWakeup
    /\ Len(executed) + Len(taken) + Len(tasks) = submitted
    /\ late # 0 => late = 1 /\ stopped /\ worker \in {"run", "top", "exited", "off"}
    /\ worker # "run" => pc[Worker] = "idle"
    /\ pc[Worker] # "join"

IInv == TypeOK /\ DispatchInv

\* Every step keeps the types; taking a task relies on there being one.
LEMMA TypeStep ==
    ASSUME TypeOK, DispatchInv, [Next]_vars
    PROVE  TypeOK'
<1> USE DispatchAssumption DEF TypeOK, Callers, history
<1>1. CASE UNCHANGED vars
  BY <1>1 DEF vars
<1>2. ASSUME NEW c \in Callers, Run(c) PROVE TypeOK'
  BY <1>2 DEF Run, MayCall, Goto, Locked
<1>3. ASSUME NEW c \in Callers, Notify(c) PROVE TypeOK'
  BY <1>3 DEF Notify, Goto
<1>4. CASE Start
  BY <1>4 DEF Start
<1>5. CASE Stop
  BY <1>5 DEF Stop, Goto
<1>6. CASE Join
  BY <1>6 DEF Join, Goto
<1>7. CASE StopFromTask
  BY <1>7 DEF StopFromTask, MayCall
<1>8. CASE Top
  BY <1>8 DEF Top
<1>9. CASE Test
  <2>1. worker' \in {"check", "asleep"}
    BY <1>9 DEF Test
  <2> QED
    BY <1>9, <2>1 DEF Test
<1>10. CASE Check
  BY <1>10 DEF Check
<1>11. CASE Pop
  <2>1. tasks # <<>> /\ tasks \in Seq(1 .. MaxTasks)
    BY <1>11 DEF Pop, DispatchInv, PopFindsTask
  <2>2. Head(tasks) \in 1 .. MaxTasks /\ Tail(tasks) \in Seq(1 .. MaxTasks)
    BY <2>1, HeadTail
  <2> QED
    BY <1>11, <2>2 DEF Pop
<1>12. CASE EndTask
  <2>1. executed \o taken \in Seq(1 .. MaxTasks)
    OBVIOUS
  <2> QED
    BY <1>12, <2>1 DEF EndTask
<1>13. CASE WakeSpuriously
  BY <1>13 DEF WakeSpuriously
<1> QED
  BY <1>1, <1>2, <1>3, <1>4, <1>5, <1>6, <1>7, <1>8, <1>9,
     <1>10, <1>11, <1>12, <1>13
     DEF Next, Thread, Idle

\* Every step keeps what the thread knows.
LEMMA DispatchStep ==
    ASSUME TypeOK, DispatchInv, [Next]_vars
    PROVE  DispatchInv'
<1> USE DispatchAssumption DEF TypeOK, DispatchInv, PopFindsTask, NoLostWakeup,
           Callers, history
<1>1. CASE UNCHANGED vars
  BY <1>1 DEF vars
<1>2. ASSUME NEW c \in Callers, Run(c) PROVE DispatchInv'
  <2>1. /\ tasks' = Append(tasks, submitted + 1) /\ submitted' = submitted + 1
        /\ executed' = executed /\ taken' = taken /\ late' = late
        /\ stopped' = stopped /\ worker' = worker
    BY <1>2 DEF Run
  <2>2. Len(tasks') = Len(tasks) + 1 /\ tasks' # <<>>
    <3>1. tasks \in Seq(Nat) /\ submitted + 1 \in Nat
      OBVIOUS
    <3>2. Len(tasks') = Len(tasks) + 1 /\ Len(tasks) \in Nat
      BY <2>1, <3>1, AppendEnds
    <3> QED
      BY <3>2
  <2>3. pc'[c] = "notify" /\ \A d \in Callers \ {c} : pc'[d] = pc[d]
    BY <1>2 DEF Run, Goto
  <2>4. c = Worker => worker = "run"
    BY <1>2 DEF Run, MayCall
  <2>5. Len(executed') + Len(taken') + Len(tasks') = submitted'
    <3>1. /\ Len(executed) \in Nat /\ Len(taken) \in Nat /\ Len(tasks) \in Nat
          /\ Len(executed) + Len(taken) + Len(tasks) = submitted
      OBVIOUS
    <3>2. Len(executed') = Len(executed) /\ Len(taken') = Len(taken)
      BY <2>1
    <3>3. submitted' = submitted + 1
      BY <2>1
    <3> HIDE DEF TypeOK, DispatchInv
    <3> QED
      BY <2>2, <3>1, <3>2, <3>3
  <2>6. NoLostWakeup' /\ PopFindsTask'
    BY <2>1, <2>2, <2>3
  <2> QED
    BY <2>1, <2>2, <2>3, <2>4, <2>5, <2>6
<1>3. ASSUME NEW c \in Callers, Notify(c) PROVE DispatchInv'
  BY <1>3 DEF Notify, Goto
<1>4. CASE Start
  BY <1>4 DEF Start
<1>5. CASE Stop
  BY <1>5 DEF Stop, Goto
<1>6. CASE Join
  BY <1>6 DEF Join, Goto
<1>7. CASE StopFromTask
  BY <1>7 DEF StopFromTask, MayCall
<1>8. CASE Top
  BY <1>8 DEF Top
<1>9. CASE Test
  BY <1>9 DEF Test
<1>10. CASE Check
  BY <1>10 DEF Check
<1>11. CASE Pop
  <2>1. /\ taken' = <<Head(tasks)>> /\ tasks' = Tail(tasks) /\ worker' = "run"
        /\ executed' = executed /\ submitted' = submitted /\ stopped' = stopped
        /\ pc' = pc /\ late' = IF stopped THEN late + 1 ELSE late
        /\ late = 0 /\ taken = <<>> /\ pc[Worker] = "idle"
    BY <1>11 DEF Pop
  <2>2. Len(tasks') = Len(tasks) - 1
    <3>1. tasks # <<>> /\ tasks \in Seq(Nat)
      BY <1>11 DEF Pop
    <3> QED
      BY <2>1, <3>1, HeadTail
  <2>3. Len(taken') = 1 /\ Len(taken) = 0
    BY <2>1
  <2>4. Len(executed') + Len(taken') + Len(tasks') = submitted'
    <3>1. /\ Len(executed) \in Nat /\ Len(taken) \in Nat /\ Len(tasks) \in Nat
          /\ Len(executed) + Len(taken) + Len(tasks) = submitted
      OBVIOUS
    <3>2. Len(executed') = Len(executed) /\ Len(taken') = Len(taken) + 1
      BY <2>1, <2>3
    <3>3. submitted' = submitted
      BY <2>1
    <3> HIDE DEF TypeOK, DispatchInv
    <3> QED
      BY <2>2, <3>1, <3>2, <3>3
  <2>5. late' # 0 => late' = 1 /\ stopped'
    BY <2>1
  <2> QED
    BY <2>1, <2>4, <2>5
<1>12. CASE EndTask
  <2>1. /\ executed' = executed \o taken /\ taken' = <<>> /\ worker' = "top"
        /\ tasks' = tasks /\ submitted' = submitted /\ stopped' = stopped
        /\ pc' = pc /\ late' = late /\ pc[Worker] = "idle"
    BY <1>12 DEF EndTask
  <2>2. Len(executed') = Len(executed) + Len(taken) /\ Len(taken') = 0
    BY <2>1, CatLen
  <2> QED
    BY <1>12, <2>1, <2>2 DEF EndTask
<1>13. CASE WakeSpuriously
  BY <1>13 DEF WakeSpuriously
<1> QED
  BY <1>1, <1>2, <1>3, <1>4, <1>5, <1>6, <1>7, <1>8, <1>9,
     <1>10, <1>11, <1>12, <1>13
     DEF Next, Thread, Idle

\* A dispatcher nobody has used satisfies the invariant.
LEMMA InitInv == ASSUME Init PROVE IInv
<1>1. TypeOK
  <2>1. <<>> \in Seq(1 .. MaxTasks) /\ 0 \in 0 .. MaxTasks /\ 0 \in 0 .. MaxStarts
    BY DispatchAssumption
  <2> QED
    BY <2>1 DEF Init, TypeOK
<1>2. DispatchInv
  BY DispatchAssumption
     DEF Init, DispatchInv, PopFindsTask, NoLostWakeup, Callers
<1> QED
  BY <1>1, <1>2 DEF IInv

\* The inductive invariant holds in every state the dispatcher reaches.
THEOREM Invariance == Spec => []IInv
<1>1. Init => IInv
  BY InitInv
<1>2. IInv /\ [Next]_vars => IInv'
  BY TypeStep, DispatchStep DEF IInv
<1> QED
  BY <1>1, <1>2, PTL DEF Spec

\* Type correctness of TaskDispatch.
THEOREM TypeCorrect == Spec => []TypeOK
<1>1. IInv => TypeOK
  BY DEF IInv
<1> QED
  BY <1>1, Invariance, PTL

\* The thread never sleeps over a task whose notification was given.
THEOREM WakeupIsNotLost == Spec => []NoLostWakeup
<1>1. IInv => NoLostWakeup
  BY DEF IInv, DispatchInv
<1> QED
  BY <1>1, Invariance, PTL

\* front() and pop() are never called on an empty queue.
THEOREM QueueIsNotEmptyAtPop == Spec => []PopFindsTask
<1>1. IInv => PopFindsTask
  BY DEF IInv, DispatchInv
<1> QED
  BY <1>1, Invariance, PTL

\* At most one task begins after stop() has stored the flag.
THEOREM OneLateTask == Spec => []AtMostOneLate
<1>1. IInv => AtMostOneLate
  BY DEF IInv, TypeOK, DispatchInv, AtMostOneLate
<1> QED
  BY <1>1, Invariance, PTL

-----------------------------------------------------------------------------
(* TaskDispatch implements SerialExecutor.                                 *)

\* Every step of the dispatcher is a step of the executor, or none.
LEMMA RefinementStep ==
    ASSUME IInv, [Next]_vars
    PROVE  [Executor!Next]_(Executor!execVars)
<1> USE DEF Executor!execVars, history
<1> DEFINE Goal == [Executor!Next]_(Executor!execVars)
<1>1. CASE UNCHANGED vars
  BY <1>1 DEF vars
<1>2. ASSUME NEW c \in Callers, Run(c) PROVE Goal
  <2>1. /\ taken \in Seq(Nat) /\ tasks \in Seq(Nat) /\ submitted + 1 \in Nat
        /\ Len(executed) + Len(taken) + Len(tasks) = submitted
    BY DispatchAssumption DEF IInv, TypeOK, DispatchInv
  <2>2. Executor!Accepted = submitted
    <3>1. Len(taken \o tasks) = Len(taken) + Len(tasks)
      BY <2>1, CatLen
    <3> QED
      BY <2>1, <3>1 DEF Executor!Accepted, IInv, TypeOK
  <2>3. taken \o Append(tasks, submitted + 1) = Append(taken \o tasks, submitted + 1)
    <3>1. \A q, r \in Seq(Nat), x \in Nat : q \o Append(r, x) = Append(q \o r, x)
      BY CatAppend
    <3> QED
      BY <2>1, <3>1
  <2>4. Executor!Accept
    BY <1>2, <2>2, <2>3 DEF Run, Executor!Accept
  <2> QED
    BY <2>4 DEF Executor!Next
<1>3. ASSUME NEW c \in Callers, Notify(c) PROVE Goal
  BY <1>3 DEF Notify
<1>4. CASE Start
  <2>1. Executor!Open
    BY <1>4 DEF Start, Executor!Open
  <2> QED
    BY <2>1 DEF Executor!Next
<1>5. CASE Stop
  BY <1>5 DEF Stop
<1>6. CASE Join
  BY <1>6 DEF Join
<1>7. CASE StopFromTask
  BY <1>7 DEF StopFromTask
<1>8. CASE Top
  <2>1. CASE stopped
    <3>1. Executor!Close
      BY <1>8, <2>1 DEF Top, IInv, TypeOK, Executor!Close
    <3> QED
      BY <3>1 DEF Executor!Next
  <2>2. CASE ~stopped
    BY <1>8, <2>2 DEF Top
  <2> QED
    BY <2>1, <2>2
<1>9. CASE Test
  BY <1>9 DEF Test
<1>10. CASE Check
  <2>1. CASE stopped
    <3>1. Executor!Close
      BY <1>10, <2>1 DEF Check, IInv, TypeOK, Executor!Close
    <3> QED
      BY <3>1 DEF Executor!Next
  <2>2. CASE ~stopped
    BY <1>10, <2>2 DEF Check
  <2> QED
    BY <2>1, <2>2
<1>11. CASE Pop
  <2>1. /\ tasks # <<>> /\ tasks \in Seq(Nat) /\ taken = <<>>
    BY <1>11, DispatchAssumption DEF Pop, IInv, TypeOK, DispatchInv, PopFindsTask
  <2>2. <<Head(tasks)>> \o Tail(tasks) = tasks /\ <<>> \o tasks = tasks
    BY <2>1, HeadThenTail, CatEmpty
  <2>3. Executor!Begin
    BY <1>11, <2>1, <2>2 DEF Pop, Executor!Begin
  <2> QED
    BY <2>3 DEF Executor!Next
<1>12. CASE EndTask
  <2>1. /\ taken \in Seq(Nat) /\ tasks \in Seq(Nat) /\ executed \in Seq(Nat)
        /\ Len(taken) = 1
    BY <1>12, DispatchAssumption DEF EndTask, IInv, TypeOK
  <2>2. /\ Head(taken \o tasks) = Head(taken) /\ Tail(taken \o tasks) = <<>> \o tasks
        /\ executed \o taken = Append(executed, Head(taken))
    <3>1. taken # <<>> /\ Tail(taken) = <<>> /\ executed \o taken = Append(executed, Head(taken))
      BY <2>1, CatSingle
    <3>2. \A q, r \in Seq(Nat) : q # <<>> =>
              Head(q \o r) = Head(q) /\ Tail(q \o r) = Tail(q) \o r
      BY CatTail
    <3> QED
      BY <2>1, <3>1, <3>2
  <2>3. Executor!Finish
    BY <1>12, <2>2 DEF EndTask, Executor!Finish
  <2> QED
    BY <2>3 DEF Executor!Next
<1>13. CASE WakeSpuriously
  BY <1>13 DEF WakeSpuriously
<1> QED
  BY <1>1, <1>2, <1>3, <1>4, <1>5, <1>6, <1>7, <1>8, <1>9, <1>10, <1>11,
     <1>12, <1>13 DEF Next, Thread, Idle

\* A dispatcher nobody has used is a closed, empty executor.
LEMMA RefinementInit == ASSUME Init PROVE Executor!Init
<1>1. <<>> \o <<>> = <<>>
  BY CatEmpty
<1> QED
  BY <1>1 DEF Init, Executor!Init

\* TaskDispatch implements the abstract executor, with nothing owed at the end.
THEOREM Implementation == Spec => ImplementsExecutor
<1>1. Init => Executor!Init
  BY RefinementInit
<1>2. IInv /\ [Next]_vars => [Executor!Next]_(Executor!execVars)
  BY RefinementStep
<1> QED
  BY <1>1, <1>2, Invariance, PTL DEF Spec, Executor!Spec, ImplementsExecutor
-----------------------------------------------------------------------------
(* The order of the tasks.                                                 *)

\* What ran, what runs and what waits are the tasks in the order in which run()
\* accepted them: none is lost, none runs twice, none overtakes another.
TasksRunInOrder == executed \o (taken \o tasks) = [n \in 1 .. submitted |-> n]

\* A task that run() accepts is the next of them.
LEMMA NextInOrder ==
    ASSUME NEW k \in Nat
    PROVE  Append([n \in 1 .. k |-> n], k + 1) = [n \in 1 .. k + 1 |-> n]
<1> DEFINE q == [n \in 1 .. k |-> n]
           r == [n \in 1 .. k + 1 |-> n]
<1>1. q \in Seq(Nat) /\ Len(q) = k /\ r \in Seq(Nat) /\ Len(r) = k + 1
  OBVIOUS
<1>2. \A n \in 1 .. k : q[n] = n
  OBVIOUS
<1>3. \A n \in 1 .. k + 1 : r[n] = n
  OBVIOUS
<1> HIDE DEF q, r
<1>4. Append(q, k + 1) \in Seq(Nat) /\ Len(Append(q, k + 1)) = k + 1
  BY <1>1
<1>5. \A n \in 1 .. k + 1 : Append(q, k + 1)[n] = r[n]
  <2>1. /\ Append(q, k + 1)[k + 1] = k + 1
        /\ \A n \in 1 .. k : Append(q, k + 1)[n] = n
    BY <1>1, <1>2, AppendEnds
  <2>2. \A n \in 1 .. k + 1 : n \in 1 .. k \/ n = k + 1
    OBVIOUS
  <2> QED
    BY <1>3, <2>1, <2>2
<1>6. Append(q, k + 1) = r
  BY <1>1, <1>4, <1>5
<1> QED
  BY <1>6 DEF q, r

\* Every step keeps the order: a task is appended, or moves on from the front.
LEMMA OrderStep ==
    ASSUME IInv, TasksRunInOrder, [Next]_vars
    PROVE  TasksRunInOrder'
<1> USE DEF history
<1>1. /\ taken \in Seq(Nat) /\ tasks \in Seq(Nat) /\ executed \in Seq(Nat)
      /\ submitted \in Nat
  BY DispatchAssumption DEF IInv, TypeOK
<1>2. ASSUME UNCHANGED <<executed, taken, tasks, submitted>> PROVE TasksRunInOrder'
  BY <1>2 DEF TasksRunInOrder
<1>3. CASE UNCHANGED vars
  BY <1>2, <1>3 DEF vars
<1>4. ASSUME NEW c \in Callers, Run(c) PROVE TasksRunInOrder'
  <2>1. /\ tasks' = Append(tasks, submitted + 1) /\ submitted' = submitted + 1
        /\ executed' = executed /\ taken' = taken
    BY <1>4 DEF Run
  <2>2. \A q, r \in Seq(Nat), x \in Nat :
            q \o Append(r, x) = Append(q \o r, x) /\ q \o r \in Seq(Nat)
    BY CatAppend
  <2>3. executed \o (taken \o Append(tasks, submitted + 1))
            = Append(executed \o (taken \o tasks), submitted + 1)
    <3>1. taken \o Append(tasks, submitted + 1) = Append(taken \o tasks, submitted + 1)
      BY <1>1, <2>2
    <3>2. taken \o tasks \in Seq(Nat) /\ submitted + 1 \in Nat
      BY <1>1, <2>2
    <3>3. executed \o Append(taken \o tasks, submitted + 1)
              = Append(executed \o (taken \o tasks), submitted + 1)
      BY <1>1, <2>2, <3>2
    <3> QED
      BY <3>1, <3>3
  <2> QED
    BY <1>1, <2>1, <2>3, NextInOrder DEF TasksRunInOrder
<1>5. CASE Pop
  <2>1. /\ tasks # <<>> /\ taken = <<>> /\ taken' = <<Head(tasks)>> /\ tasks' = Tail(tasks)
        /\ executed' = executed /\ submitted' = submitted
    BY <1>5 DEF Pop, IInv, TypeOK, DispatchInv, PopFindsTask
  <2>2. <<Head(tasks)>> \o Tail(tasks) = tasks /\ <<>> \o tasks = tasks
    BY <1>1, <2>1, HeadThenTail, CatEmpty
  <2> QED
    BY <2>1, <2>2 DEF TasksRunInOrder
<1>6. CASE EndTask
  <2>1. /\ executed' = executed \o taken /\ taken' = <<>>
        /\ tasks' = tasks /\ submitted' = submitted
    BY <1>6 DEF EndTask
  <2>2. (executed \o taken) \o (<<>> \o tasks) = executed \o (taken \o tasks)
    BY <1>1, CatEmpty, CatAssoc
  <2> QED
    BY <2>1, <2>2 DEF TasksRunInOrder
<1>7. ASSUME NEW c \in Callers, Notify(c) PROVE TasksRunInOrder'
  BY <1>2, <1>7 DEF Notify
<1>8. CASE Start \/ Stop \/ Join \/ StopFromTask
  BY <1>2, <1>8 DEF Start, Stop, Join, StopFromTask
<1>9. CASE Top \/ Test \/ Check \/ WakeSpuriously
  BY <1>2, <1>9 DEF Top, Test, Check, WakeSpuriously
<1> QED
  BY <1>3, <1>4, <1>5, <1>6, <1>7, <1>8, <1>9 DEF Next, Thread, Idle

\* The dispatcher runs every task it has accepted in turn, whoever submits it,
\* tasks among them, and whenever it is stopped and started.
THEOREM OrderOfTasks == Spec => []TasksRunInOrder
<1>1. Init => TasksRunInOrder
  <2>1. <<>> \o (<<>> \o <<>>) = <<>>
    BY CatEmpty
  <2>2. [n \in 1 .. 0 |-> n] = <<>>
    OBVIOUS
  <2> QED
    BY <2>1, <2>2 DEF Init, TasksRunInOrder
<1>2. IInv /\ TasksRunInOrder /\ [Next]_vars => TasksRunInOrder'
  BY OrderStep
<1> QED
  BY <1>1, <1>2, Invariance, PTL DEF Spec

-----------------------------------------------------------------------------
(* The end of the thread.                                                  *)

\* How many steps of its own a thread that is awake takes after stop() has
\* stored the flag, before its loop returns.
StepsLeft ==
    CASE worker = "pop" -> 3
      [] worker \in {"test", "run"} -> 2
      [] worker \in {"top", "check"} -> 1
      [] OTHER -> 0

\* stop() finds the thread on its way out, if it finds it awake: the flag stays,
\* the thread does not fall asleep, and whatever it does brings it nearer to the
\* end of its loop.
AwakeThreadEnds ==
    [][stopped /\ worker \notin {"off", "asleep", "exited"} =>
        /\ stopped'
        /\ worker' \notin {"off", "asleep"}
        /\ worker' # worker => StepsLeft' < StepsLeft]_vars

\* No wait() is entered after stop(), so join() waits for three steps and the
\* task between them, and never for a notification (StopReturnsUnlessAsleep).
THEOREM AwakeThreadIsJoined == Spec => AwakeThreadEnds
<1> DEFINE Nearer == stopped /\ worker \notin {"off", "asleep", "exited"} =>
                         /\ stopped'
                         /\ worker' \notin {"off", "asleep"}
                         /\ worker' # worker => StepsLeft' < StepsLeft
<1>1. ASSUME IInv, [Next]_vars PROVE [Nearer]_vars
  <2> USE DEF history, StepsLeft
  <2>1. ASSUME UNCHANGED <<stopped, worker>> PROVE Nearer
    BY <2>1
  <2>2. ASSUME NEW c \in Callers, Run(c) PROVE Nearer
    BY <2>1, <2>2 DEF Run
  <2>3. ASSUME NEW c \in Callers, Notify(c) PROVE Nearer
    BY <2>3 DEF Notify
  <2>4. CASE Start \/ Stop \/ Join \/ StopFromTask
    BY <2>4 DEF Start, Stop, Join, StopFromTask
  <2>5. CASE Top \/ Test \/ Check \/ Pop \/ EndTask
    BY <2>5 DEF Top, Test, Check, Pop, EndTask
  <2>6. CASE WakeSpuriously
    BY <2>6 DEF WakeSpuriously
  <2>7. CASE UNCHANGED vars
    BY <2>7
  <2> HIDE DEF Nearer
  <2> QED
    BY <1>1, <2>2, <2>3, <2>4, <2>5, <2>6, <2>7 DEF Next, Thread, Idle
<1> QED
  BY <1>1, Invariance, PTL DEF Spec, AwakeThreadEnds
=============================================================================
