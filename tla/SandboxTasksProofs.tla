------------------------- MODULE SandboxTasksProofs -------------------------
(***************************************************************************)
(* Proofs about SandboxTasks for every number of tasks, every capacity of  *)
(* the queue, and any number of retries and stops of the worker: what      *)
(* becomes of the tasks, and at the end that the queue with its consumer   *)
(* implements TaskService.                                                 *)
(***************************************************************************)
EXTENDS SandboxTasks, TLAPS, FiniteSetTheorems

\* What the drain loop does: it runs a task exactly when there is a current one,
\* and is in dequeue only while it polls.
LoopOK ==
    /\ loop = "runs" <=> cur # None
    /\ cur # None => cur \in 1..born
    /\ at # "out" => loop = "polls"

\* Ids that have not been given out are nowhere.
Unborn ==
    \A t \in Ids : t > born => copies[t] = 0 /\ handed[t] = 0 /\ status[t] = "none"

IInv ==
    /\ TypeOK
    /\ LoopOK
    /\ Unborn
    /\ OneRunPerRetry
    /\ AcceptedIsKept

LEMMA DefaultType == Default \in Priorities
BY QueueAssumption DEF Default

LEMMA BornType == TypeOK => 1..born \subseteq Ids
<1> SUFFICES ASSUME TypeOK PROVE 1..born \subseteq Ids
  OBVIOUS
<1>1. born \in 0..MaxTasks /\ MaxTasks \in Nat
  BY QueueAssumption DEF TypeOK, QueueTypeOK
<1> QED  BY <1>1 DEF Ids

\* The status of a task that has been accepted is no concern of the others.
LEMMA UnbornKept ==
    ASSUME IInv, NEW t \in 1..born, NEW s, UNCHANGED <<born, copies, handed>>,
           status' = status \/ status' = [status EXCEPT ![t] = s]
    PROVE  Unborn'
<1>1. ASSUME NEW x \in Ids, x > born PROVE status'[x] = status[x]
  <2>1. x # t /\ status \in [Ids -> Statuses]
    BY <1>1 DEF IInv, TypeOK, QueueTypeOK
  <2> QED  BY <2>1
<1> QED  BY <1>1 DEF IInv, Unborn

LEMMA InitIInv == Init => IInv
<1> SUFFICES ASSUME Init PROVE IInv
  OBVIOUS
<1> USE DEF Init, QueueInit
<1>1. TypeOK
  <2>1. 0 \in 0..MaxTasks /\ 0 \in 0..MaxRetries /\ 0 \in 0..MaxStops
    BY QueueAssumption, WorkerAssumption
  <2>2. QueueTypeOK
    BY <2>1, DefaultType DEF QueueTypeOK, Modes, Places
  <2> QED  BY <2>1, <2>2 DEF TypeOK, Statuses
<1>2. LoopOK /\ Unborn
  BY DEF LoopOK, Unborn
<1>3. OneRunPerRetry
  BY DEF OneRunPerRetry
<1>4. AcceptedIsKept
  <2>1. Cardinality(cut) = 0
    BY FS_EmptySet
  <2> QED  BY <2>1 DEF AcceptedIsKept
<1> QED  BY <1>1, <1>2, <1>3, <1>4 DEF IInv
-----------------------------------------------------------------------------
\* The step of every action that keeps the current task, the loop and the stops.
LEMMA SubmitStep ==
    ASSUME IInv, NEW p \in Priorities, SubmitTask(p)
    PROVE  IInv'
<1> USE DEF SubmitTask, Enqueue, Notified, Push
<1>1. 1..born \subseteq Ids /\ born' \in 1..MaxTasks /\ born' = born + 1 /\ born \in Nat
  BY BornType, QueueAssumption DEF IInv, TypeOK, QueueTypeOK
<1>2. 1..born \subseteq 1..born' /\ 1..born' = 1..born \union {born'}
  BY <1>1
<1>3. born' \in Ids
  BY <1>1 DEF Ids
<1>4. TypeOK'
  BY <1>1, <1>2, <1>3 DEF IInv, TypeOK, QueueTypeOK, Modes, Places, Statuses, worker, history
<1>5. LoopOK'
  BY <1>2 DEF IInv, LoopOK, worker
<1>6. copies[born'] = 0 /\ handed[born'] = 0
  BY <1>1, <1>3 DEF IInv, Unborn
<1>7. Unborn'
  BY <1>1, <1>3 DEF IInv, Unborn, TypeOK, QueueTypeOK, history, Ids
<1>8. OneRunPerRetry'
  BY <1>3, <1>6 DEF IInv, OneRunPerRetry, TypeOK, QueueTypeOK, history
<1>9. AcceptedIsKept'
  <2>1. ASSUME NEW t \in 1..born' PROVE
          t \in Queued' \/ t = cur' \/ status'[t] \in Final \/ t \in (dropped \union cut)'
    <3>1. CASE t = born'
      BY <3>1, <1>3, <1>6 DEF Queued, IInv, TypeOK, QueueTypeOK
    <3>2. CASE t # born'
      <4>1. t \in 1..born /\ t \in Ids
        BY <3>2, <1>1, <1>2
      <4>2. copies'[t] = copies[t] /\ status'[t] = status[t]
        BY <4>1, <3>2 DEF IInv, TypeOK, QueueTypeOK
      <4> QED  BY <4>1, <4>2 DEF IInv, AcceptedIsKept, Queued, worker, history
    <3> QED  BY <3>1, <3>2
  <2> QED  BY <2>1 DEF IInv, AcceptedIsKept, history
<1> QED  BY <1>4, <1>5, <1>7, <1>8, <1>9 DEF IInv

LEMMA ClearStep ==
    ASSUME IInv, ClearQueue
    PROVE  IInv'
<1> USE DEF ClearQueue, Clear
<1>1. Queued \subseteq 1..born /\ born \in Nat
  BY DEF Queued, IInv, Unborn, TypeOK, QueueTypeOK, Ids
<1>2. TypeOK'
  BY <1>1 DEF IInv, TypeOK, QueueTypeOK, worker
<1>3. LoopOK' /\ Unborn'
  BY DEF IInv, LoopOK, Unborn, worker
<1>4. OneRunPerRetry'
  BY DEF IInv, OneRunPerRetry, TypeOK, QueueTypeOK
<1>5. AcceptedIsKept'
  BY DEF IInv, AcceptedIsKept, worker
<1> QED  BY <1>2, <1>3, <1>4, <1>5 DEF IInv

LEMMA RemoveStep ==
    ASSUME IInv, NEW t \in Ids, Remove(t)
    PROVE  IInv'
<1> USE DEF Remove, RemoveTask, Drop
<1>1. TypeOK'
  BY DEF IInv, TypeOK, QueueTypeOK, worker
<1>2. LoopOK' /\ Unborn'
  BY DEF IInv, LoopOK, Unborn, worker, TypeOK, QueueTypeOK
<1>3. OneRunPerRetry'
  BY DEF IInv, OneRunPerRetry, TypeOK, QueueTypeOK
<1>4. AcceptedIsKept'
  BY BornType DEF IInv, AcceptedIsKept, worker, Queued, TypeOK, QueueTypeOK
<1> QED  BY <1>1, <1>2, <1>3, <1>4 DEF IInv

LEMMA RequeueStep ==
    ASSUME IInv, NEW t \in Ids, NEW p \in Priorities, RequeueTask(t, p),
           UNCHANGED <<status, worker, history>>
    PROVE  IInv'
<1> USE DEF RequeueTask, Retried, Push, Notified
<1>1. TypeOK'
  BY QueueAssumption DEF IInv, TypeOK, QueueTypeOK, worker, history, Places
<1>2. LoopOK'
  BY DEF IInv, LoopOK, worker
<1>3. t \in 1..born /\ born \in Nat
  BY DEF IInv, TypeOK, QueueTypeOK
<1>4. Unborn'
  <2>1. ASSUME NEW s \in Ids, s > born PROVE copies'[s] = 0 /\ handed[s] = 0 /\ status[s] = "none"
    <3>1. s # t
      BY <1>3, <2>1
    <3>2. copies'[s] = copies[s]
      BY <3>1 DEF IInv, TypeOK, QueueTypeOK
    <3> QED  BY <2>1, <3>2 DEF IInv, Unborn
  <2> QED  BY <2>1 DEF Unborn, history
<1>5. OneRunPerRetry'
  BY DEF IInv, OneRunPerRetry, TypeOK, QueueTypeOK, history
<1>6. AcceptedIsKept'
  BY BornType DEF IInv, AcceptedIsKept, worker, history, Queued, TypeOK, QueueTypeOK
<1> QED  BY <1>1, <1>2, <1>4, <1>5, <1>6 DEF IInv

LEMMA QueueCallStep ==
    ASSUME IInv, QueueCall
    PROVE  IInv'
<1> USE DEF QueueCall
<1>1. ASSUME NEW t \in Ids, NEW p \in Priorities, RequeueTask(t, p) PROVE IInv'
  BY <1>1, RequeueStep
<1>2. CASE Pause \/ Resume \/ Stop
  BY <1>2 DEF Pause, Resume, Stop, Notified, IInv, TypeOK, QueueTypeOK, tasks, worker,
     history, Modes, Places, LoopOK, Unborn, OneRunPerRetry, AcceptedIsKept, Queued
<1> QED  BY <1>1, <1>2
-----------------------------------------------------------------------------
LEMMA TakeStep ==
    ASSUME IInv, NEW t \in Ids, Take(t), loop = "polls"
    PROVE  IInv'
<1> USE DEF Take, Pop, MostUrgent, Drop
<1>1. copies[t] > 0 /\ t \in 1..born
  BY DEF Queued, IInv, Unborn, TypeOK, QueueTypeOK, Ids
<1>2. t # None
  BY WorkerAssumption
<1>3. TypeOK'
  BY <1>1 DEF IInv, TypeOK, QueueTypeOK, tasks, Places, Statuses
<1>4. LoopOK'
  BY <1>1, <1>2 DEF LoopOK, tasks
<1>5. Unborn'
  BY <1>1 DEF IInv, Unborn, TypeOK, QueueTypeOK, tasks, Ids
<1>6. OneRunPerRetry'
  BY <1>1 DEF IInv, OneRunPerRetry, TypeOK, QueueTypeOK, tasks
<1>7. cur = None
  BY DEF IInv, LoopOK
<1>8. AcceptedIsKept'
  <2>1. ASSUME NEW s \in 1..born PROVE
          s \in Queued' \/ s = t \/ status'[s] \in Final \/ s \in dropped \union cut
    <3>1. s \in Ids /\ s # None
      BY BornType, WorkerAssumption DEF IInv
    <3>2. CASE s # t
      <4>1. copies'[s] = copies[s] /\ status'[s] = status[s]
        BY <3>1, <3>2 DEF IInv, TypeOK, QueueTypeOK
      <4> QED  BY <4>1, <3>1, <1>7 DEF IInv, AcceptedIsKept, Queued
    <3> QED  BY <3>2
  <2> QED  BY <2>1 DEF IInv, AcceptedIsKept, tasks
<1> QED  BY <1>3, <1>4, <1>5, <1>6, <1>8 DEF IInv

LEMMA BlocksStep ==
    ASSUME IInv, Blocks, loop = "polls", UNCHANGED <<status, worker, history>>
    PROVE  IInv'
BY DEF Blocks, IInv, TypeOK, QueueTypeOK, tasks, worker, history, Places, LoopOK,
   Unborn, OneRunPerRetry, AcceptedIsKept, Queued

LEMMA DrainLoopStep ==
    ASSUME IInv, DrainLoop
    PROVE  IInv'
<1>1. CASE Dequeue
  <2>1. CASE Raises
    BY <1>1, <2>1 DEF Dequeue, Raises, queueVars, IInv, TypeOK, QueueTypeOK, tasks, history,
       LoopOK, Unborn, OneRunPerRetry, AcceptedIsKept, Queued
  <2>2. CASE \E t \in Ids : Take(t)
    BY <1>1, <2>2, TakeStep DEF Dequeue
  <2>3. CASE Blocks /\ UNCHANGED <<status, worker, history>>
    BY <1>1, <2>3, BlocksStep DEF Dequeue
  <2> QED  BY <1>1, <2>1, <2>2, <2>3 DEF Dequeue
<1>2. CASE Wakes
  <2>1. loop = "polls"
    BY <1>2 DEF Wakes, IInv, LoopOK
  <2> QED  BY <1>2, <2>1, TakeStep, BlocksStep DEF Wakes
<1>3. CASE PollsAgain
  BY <1>3 DEF PollsAgain, TimesOut, GoOn, IInv, TypeOK, QueueTypeOK, tasks, history, Places,
     LoopOK, Unborn, OneRunPerRetry, AcceptedIsKept, Queued
<1>4. CASE Finish
  <2> USE <1>4 DEF Finish, GoOn
  <2>1. cur \in Ids /\ cur # None /\ at = "out"
    BY BornType DEF IInv, LoopOK
  <2>2. PICK s \in Final : status' = [status EXCEPT ![cur] = s]
    OBVIOUS
  <2>3. TypeOK'
    BY <2>1, <2>2 DEF IInv, TypeOK, QueueTypeOK, queueVars, tasks, history, Statuses
  <2>4. LoopOK' /\ Unborn' /\ OneRunPerRetry'
    <3>1. LoopOK' /\ OneRunPerRetry'
      BY <2>1 DEF IInv, LoopOK, OneRunPerRetry, queueVars, tasks, history
    <3>2. Unborn'
      BY <2>2, UnbornKept DEF queueVars, tasks, history, IInv, LoopOK
    <3> QED  BY <3>1, <3>2
  <2>5. AcceptedIsKept'
    <3>1. ASSUME NEW t \in 1..born PROVE
            t \in Queued \/ status'[t] \in Final \/ t \in dropped \union cut
      <4>1. t \in Ids
        BY BornType DEF IInv
      <4>2. CASE t = cur
        BY <4>1, <4>2, <2>2 DEF IInv, TypeOK
      <4>3. CASE t # cur
        BY <4>1, <4>3, <2>2 DEF IInv, TypeOK, AcceptedIsKept
      <4> QED  BY <4>2, <4>3
    <3> QED  BY <3>1 DEF IInv, AcceptedIsKept, queueVars, tasks, history, Queued
  <2> QED  BY <2>3, <2>4, <2>5 DEF IInv
<1> QED  BY <1>1, <1>2, <1>3, <1>4 DEF DrainLoop

LEMMA StartStep ==
    ASSUME IInv, StartWorker
    PROVE  IInv'
BY DEF StartWorker, queueVars, tasks, IInv, TypeOK, QueueTypeOK, history,
   LoopOK, Unborn, OneRunPerRetry, AcceptedIsKept, Queued

LEMMA CutIsCounted ==
    ASSUME IInv
    PROVE  /\ IsFiniteSet(cut)
           /\ Cardinality(cut) \in Nat
           /\ Cardinality(cut) <= stops
<1>1. cut \subseteq 1..born /\ born \in Int
  BY DEF IInv, TypeOK, QueueTypeOK
<1>2. IsFiniteSet(1..born)
  BY <1>1, FS_Interval
<1>3. IsFiniteSet(cut)
  BY <1>1, <1>2, FS_Subset
<1> QED  BY <1>3, FS_CardinalityType DEF IInv, AcceptedIsKept

\* A stop costs at most one task.
LEMMA CutGrows ==
    ASSUME IInv, StopRunning
    PROVE  Cardinality(cut') <= stops'
<1>1. IsFiniteSet(cut)
  BY CutIsCounted
<1>2. Cardinality(cut) \in Nat /\ Cardinality(cut) <= stops /\ stops \in Nat
  BY CutIsCounted DEF IInv, TypeOK
<1>3. stops' = stops + 1
  BY DEF StopRunning, Stopping
<1>4. CASE cut' = cut
  BY <1>2, <1>3, <1>4
<1>5. CASE cut' = cut \union {cur}
  <2>1. Cardinality(cut \union {cur}) =
          IF cur \in cut THEN Cardinality(cut) ELSE Cardinality(cut) + 1
    BY <1>1, FS_AddElement
  <2> QED  BY <1>2, <1>3, <1>5, <2>1
<1> QED  BY <1>4, <1>5 DEF StopRunning

LEMMA StopStep ==
    ASSUME IInv, StopWorker
    PROVE  IInv'
<1>0. stops' \in 0..MaxStops /\ stops' = stops + 1 /\ stops \in Nat
  BY WorkerAssumption DEF StopWorker, StopTooLate, StopPolling, StopRunning, Stopping, IInv, TypeOK
<1>1. CASE StopTooLate
  <2>1. TypeOK' /\ LoopOK' /\ Unborn' /\ OneRunPerRetry'
    BY <1>0, <1>1 DEF StopTooLate, Stopping, queueVars, tasks, IInv, TypeOK, QueueTypeOK,
       LoopOK, Unborn, OneRunPerRetry
  <2>2. \A t \in 1..born : t \in Queued' \/ t = cur' \/ status'[t] \in Final
                              \/ t \in (dropped \union cut)'
    BY <1>1 DEF StopTooLate, queueVars, IInv, AcceptedIsKept, Queued
  <2>3. Cardinality(cut') <= stops'
    <3>1. cut' = cut
      BY <1>1 DEF StopTooLate
    <3> QED  BY <3>1, <1>0, CutIsCounted
  <2> QED  BY <1>1, <2>1, <2>2, <2>3 DEF IInv, AcceptedIsKept, StopTooLate, queueVars, tasks
<1>2. CASE StopPolling
  <2>1. TypeOK' /\ LoopOK' /\ Unborn' /\ OneRunPerRetry'
    BY <1>0, <1>2 DEF StopPolling, CancelDequeue, Stopping, tasks, IInv, TypeOK, QueueTypeOK,
       Places, LoopOK, Unborn, OneRunPerRetry
  <2>2. \A t \in 1..born : t \in Queued' \/ t = cur' \/ status'[t] \in Final
                              \/ t \in (dropped \union cut)'
    BY <1>2 DEF StopPolling, CancelDequeue, IInv, AcceptedIsKept, Queued
  <2>3. Cardinality(cut') <= stops'
    <3>1. cut' = cut
      BY <1>2 DEF StopPolling
    <3> QED  BY <3>1, <1>0, CutIsCounted
  <2> QED  BY <1>2, <2>1, <2>2, <2>3
              DEF IInv, AcceptedIsKept, StopPolling, CancelDequeue, tasks
<1>3. CASE StopRunning
  <2> USE <1>3 DEF StopRunning
  <2>1. cur \in Ids /\ cur # None /\ cur \in 1..born /\ at = "out"
    BY BornType DEF IInv, LoopOK
  <2>2. TypeOK'
    BY <1>0, <2>1 DEF Stopping, queueVars, tasks, IInv, TypeOK, QueueTypeOK, Statuses, Final
  <2>3. LoopOK' /\ Unborn' /\ OneRunPerRetry'
    <3>1. LoopOK' /\ OneRunPerRetry'
      BY <2>1 DEF IInv, LoopOK, OneRunPerRetry, queueVars, tasks
    <3>2. status' = status \/ status' = [status EXCEPT ![cur] = "error"]
      OBVIOUS
    <3>3. Unborn'
      BY <2>1, <3>2, UnbornKept DEF queueVars, tasks
    <3> QED  BY <3>1, <3>3
  <2>4. ASSUME NEW t \in 1..born PROVE
          t \in Queued \/ status'[t] \in Final \/ t \in dropped \union cut'
    <3>1. t \in Ids
      BY BornType DEF IInv
    <3>2. CASE t = cur
      BY <3>1, <3>2 DEF IInv, TypeOK, Final
    <3>3. CASE t # cur
      BY <3>1, <3>3 DEF IInv, TypeOK, AcceptedIsKept
    <3> QED  BY <3>2, <3>3
  <2>5. AcceptedIsKept'
    BY <2>4, CutGrows DEF AcceptedIsKept, queueVars, tasks, Queued
  <2> QED  BY <2>2, <2>3, <2>5 DEF IInv
<1> QED  BY <1>1, <1>2, <1>3 DEF StopWorker

LEMMA NextIInv == IInv /\ [Next]_vars => IInv'
<1> SUFFICES ASSUME IInv, [Next]_vars PROVE IInv'
  OBVIOUS
<1>1. CASE UNCHANGED vars
  BY <1>1 DEF vars, queueVars, tasks, worker, history, IInv, TypeOK, QueueTypeOK,
     LoopOK, Unborn, OneRunPerRetry, AcceptedIsKept, Queued
<1>2. CASE Next
  BY <1>2, SubmitStep, RemoveStep, ClearStep, QueueCallStep, DrainLoopStep, StartStep, StopStep
     DEF Next
<1> QED  BY <1>1, <1>2

THEOREM Invariance == Spec => []IInv
BY InitIInv, NextIInv, PTL DEF Spec

\* Every variable has its type, in every behaviour.
THEOREM TypeCorrect == Spec => []TypeOK
<1>1. IInv => TypeOK
  BY DEF IInv
<1> QED  BY <1>1, Invariance, PTL

\* A task is queued at most once and run at most once more than it was retried.
THEOREM RunsAreCounted == Spec => []OneRunPerRetry
<1>1. IInv => OneRunPerRetry
  BY DEF IInv
<1> QED  BY <1>1, Invariance, PTL

\* No accepted task is lost, but the one that each stop of the worker may cut short.
THEOREM NothingIsLost == Spec => []AcceptedIsKept
<1>1. IInv => AcceptedIsKept
  BY DEF IInv
<1> QED  BY <1>1, Invariance, PTL
-----------------------------------------------------------------------------
(***************************************************************************)
(* The queue with its drain loop implements the service.  A submission is  *)
(* an Accept, a requeue asks again, remove_task and clear withdraw, Take   *)
(* runs, Finish answers, a stop answers or interrupts, and the rest of the *)
(* queue's life is not seen.                                               *)
(***************************************************************************)

LEMMA InitRefines == Init => Service!ServiceInit
<1> SUFFICES ASSUME Init PROVE Service!ServiceInit
  OBVIOUS
<1> USE DEF Init, QueueInit
<1>1. 1..born = {} /\ Queued = {} /\ priority \in [Ids -> Priorities]
  BY DefaultType DEF Queued
<1>2. [t \in Ids |-> 1 + retries[t] - handed[t]] = [t \in Ids |-> 1]
  OBVIOUS
<1>3. {t \in Ids : status[t] \in Final} = {}
  BY DEF Final
<1> QED  BY <1>1, <1>2, <1>3 DEF Service!ServiceInit

\* What the service sees of the variables a step leaves alone.
LEMMA SeenSame ==
    /\ UNCHANGED copies => UNCHANGED Queued
    /\ UNCHANGED born => UNCHANGED (1..born)
    /\ UNCHANGED <<retries, handed>> => UNCHANGED [t \in Ids |-> 1 + retries[t] - handed[t]]
    /\ UNCHANGED status => UNCHANGED {t \in Ids : status[t] \in Final}
BY DEF Queued

\* A step that the service does not see.
LEMMA UnseenStep ==
    ASSUME UNCHANGED <<tasks, copies, status, cur, handed, dropped, cut>>
    PROVE  UNCHANGED Service!serviceVars
BY SeenSame DEF tasks, Service!serviceVars, Service!requests, Service!outcomes

LEMMA SubmitRefines ==
    ASSUME IInv, NEW p \in Priorities, SubmitTask(p)
    PROVE  Service!Accept(born', p) /\ born' \in Ids
<1> USE DEF SubmitTask, Enqueue, Push
<1>1. born \in Nat /\ born' = born + 1 /\ born' \in Ids /\ born' \notin 1..born
  BY QueueAssumption DEF IInv, TypeOK, QueueTypeOK, Ids
<1>2. 1..born' = 1..born \union {born'}
  BY <1>1
<1>3. copies[born'] = 0 /\ copies \in [Ids -> Nat]
  BY <1>1 DEF IInv, Unborn, TypeOK, QueueTypeOK
<1>4. Queued' = Queued \union {born'}
  BY <1>1, <1>3 DEF Queued
<1>5. {t \in Ids : status'[t] \in Final} = {t \in Ids : status[t] \in Final}
  <2>1. status[born'] \notin Final
    BY <1>1 DEF IInv, Unborn, Final
  <2> QED  BY <2>1, <1>1 DEF Final, IInv, TypeOK
<1> QED  BY <1>1, <1>2, <1>4, <1>5, SeenSame
            DEF Service!Accept, Service!outcomes, worker, history

\* A function that differs from another in one place.
LEMMA ChangedAt ==
    ASSUME NEW S, NEW t \in S, NEW f \in [S -> Int], NEW g \in [S -> Int], NEW v,
           \A x \in S : g[x] = IF x = t THEN v ELSE f[x]
    PROVE  g = [f EXCEPT ![t] = v]
OBVIOUS

LEMMA RequeueRefines ==
    ASSUME IInv, NEW t \in Ids, NEW p \in Priorities, RequeueTask(t, p),
           UNCHANGED <<status, worker, history>>
    PROVE  Service!AskAgain(t, p)
<1> USE DEF RequeueTask, Retried, Push
<1>1. t \in 1..born /\ born \in Nat
  BY DEF IInv, TypeOK, QueueTypeOK
<1>2. Queued' = Queued \union {t}
  <2>1. copies' \in [Ids -> Nat] /\ copies'[t] > 0
    BY DEF IInv, TypeOK, QueueTypeOK
  <2>2. \A x \in Ids : x # t => copies'[x] = copies[x]
    BY DEF IInv, TypeOK, QueueTypeOK
  <2> QED  BY <2>1, <2>2 DEF Queued
<1>3. [x \in Ids |-> 1 + retries'[x] - handed'[x]]
        = [[x \in Ids |-> 1 + retries[x] - handed[x]] EXCEPT ![t] = @ + 1]
  <2>1. \A x \in Ids : retries'[x] = IF x = t THEN retries[x] + 1 ELSE retries[x]
    BY DEF IInv, TypeOK, QueueTypeOK
  <2>2. \A x \in Ids : retries[x] \in Int /\ handed[x] \in Int
    BY QueueAssumption DEF IInv, TypeOK, QueueTypeOK
  <2> DEFINE f == [x \in Ids |-> 1 + retries[x] - handed[x]]
  <2> DEFINE g == [x \in Ids |-> 1 + retries'[x] - handed'[x]]
  <2>3. f \in [Ids -> Int] /\ g \in [Ids -> Int]
    BY <2>1, <2>2 DEF history
  <2>4. \A x \in Ids : g[x] = IF x = t THEN f[t] + 1 ELSE f[x]
    BY <2>1, <2>2 DEF history
  <2> HIDE DEF f, g
  <2>5. g = [f EXCEPT ![t] = f[t] + 1]
    BY <2>3, <2>4, ChangedAt
  <2> QED  BY <2>5 DEF f, g
<1> QED  BY <1>1, <1>2, <1>3, SeenSame DEF Service!AskAgain, Service!outcomes, worker, history

LEMMA RemoveRefines ==
    ASSUME IInv, NEW t \in Ids, Remove(t)
    PROVE  Service!Withdraw({t}) /\ t \in Queued
<1> USE DEF Remove, RemoveTask, Drop
<1>1. t \in Queued
  BY DEF Queued
<1>2. Queued' = Queued \ {t}
  BY DEF Queued, IInv, OneRunPerRetry, TypeOK, QueueTypeOK
<1> QED  BY <1>1, <1>2, SeenSame DEF Service!Withdraw, Service!outcomes, worker

LEMMA ClearRefines ==
    ASSUME IInv, ClearQueue
    PROVE  Service!Withdraw(Queued)
<1> USE DEF ClearQueue, Clear
<1>1. Queued' = {}
  BY DEF Queued
<1> QED  BY <1>1, SeenSame DEF Service!Withdraw, Service!outcomes, worker

LEMMA TakeRefines ==
    ASSUME IInv, NEW t \in Ids, Take(t), loop = "polls"
    PROVE  Service!Run(t) /\ t \in Queued
<1> USE DEF Take, Pop, Drop
<1>1. t \in Queued /\ copies[t] > 0 /\ cur = None
  BY DEF MostUrgent, Queued, IInv, LoopOK
<1>2. Queued' = Queued \ {t}
  BY <1>1 DEF Queued, IInv, OneRunPerRetry, TypeOK, QueueTypeOK
<1>3. \A s \in Queued : Service!NoLaterThan(t, s)
  <2>1. t <= t
    BY DEF Ids
  <2>2. \A s \in Ids : t < s => t <= s
    BY DEF Ids
  <2> QED  BY <2>1, <2>2 DEF MostUrgent, Before, Queued, Service!NoLaterThan
<1>4. 1 + retries[t] - handed[t] > 0
  BY <1>1, QueueAssumption DEF IInv, OneRunPerRetry, TypeOK, QueueTypeOK
<1>5. [x \in Ids |-> 1 + retries'[x] - handed'[x]]
        = [[x \in Ids |-> 1 + retries[x] - handed[x]] EXCEPT ![t] = @ - 1]
  <2>1. \A x \in Ids : handed'[x] = IF x = t THEN handed[x] + 1 ELSE handed[x]
    BY DEF IInv, TypeOK
  <2>2. \A x \in Ids : retries[x] \in Int /\ handed[x] \in Int
    BY QueueAssumption DEF IInv, TypeOK, QueueTypeOK
  <2> DEFINE f == [x \in Ids |-> 1 + retries[x] - handed[x]]
  <2> DEFINE g == [x \in Ids |-> 1 + retries'[x] - handed'[x]]
  <2>3. f \in [Ids -> Int] /\ g \in [Ids -> Int]
    BY <2>1, <2>2 DEF tasks
  <2>4. \A x \in Ids : g[x] = IF x = t THEN f[t] - 1 ELSE f[x]
    BY <2>1, <2>2 DEF tasks
  <2> HIDE DEF f, g
  <2>5. g = [f EXCEPT ![t] = f[t] - 1]
    BY <2>3, <2>4, ChangedAt
  <2> QED  BY <2>5 DEF f, g
<1>6. {x \in Ids : status'[x] \in Final} = {x \in Ids : status[x] \in Final} \ {t}
  BY DEF Final, IInv, TypeOK
<1> QED  BY <1>1, <1>2, <1>3, <1>4, <1>5, <1>6, SeenSame DEF Service!Run, tasks

LEMMA FinishRefines ==
    ASSUME IInv, Finish
    PROVE  Service!Answer
<1> USE DEF Finish
<1>1. cur \in Ids /\ cur # None
  BY BornType DEF IInv, LoopOK
<1>2. {x \in Ids : status'[x] \in Final} = {x \in Ids : status[x] \in Final} \union {cur}
  BY <1>1 DEF IInv, TypeOK
<1> QED  BY <1>1, <1>2, SeenSame DEF Service!Answer, Service!requests, queueVars, tasks, history

LEMMA StopRefines ==
    ASSUME IInv, StopRunning
    PROVE  Service!Answer \/ Service!Interrupt
<1> USE DEF StopRunning
<1>1. cur \in Ids /\ cur # None
  BY BornType DEF IInv, LoopOK
<1>2. CASE cut' = cut \union {cur} /\ UNCHANGED status
  BY <1>1, <1>2, SeenSame DEF Service!Interrupt, Service!requests, queueVars, tasks
<1>3. CASE status' = [status EXCEPT ![cur] = "error"] /\ UNCHANGED cut
  <2>1. {x \in Ids : status'[x] \in Final} = {x \in Ids : status[x] \in Final} \union {cur}
    BY <1>1, <1>3 DEF Final, IInv, TypeOK
  <2> QED  BY <1>1, <1>3, <2>1, SeenSame DEF Service!Answer, Service!requests, queueVars, tasks
<1> QED  BY <1>2, <1>3

LEMMA StepRefines ==
    IInv /\ [Next]_vars => [Service!ServiceNext]_(Service!serviceVars)
<1> SUFFICES ASSUME IInv, [Next]_vars PROVE [Service!ServiceNext]_(Service!serviceVars)
  OBVIOUS
<1> USE DEF Service!ServiceNext
<1>1. CASE UNCHANGED vars
  BY <1>1, UnseenStep DEF vars, queueVars, worker, history
<1>2. ASSUME NEW p \in Priorities, SubmitTask(p) PROVE Service!ServiceNext
  BY <1>2, SubmitRefines
<1>3. ASSUME NEW t \in Ids, Remove(t) PROVE Service!ServiceNext
  <2>1. Service!Withdraw({t}) /\ {t} \in SUBSET Queued
    BY <1>3, RemoveRefines
  <2> QED  BY <2>1
<1>4. CASE ClearQueue
  BY <1>4, ClearRefines
<1>5. CASE QueueCall
  <2>1. ASSUME NEW t \in Ids, NEW p \in Priorities, RequeueTask(t, p)
        PROVE  Service!ServiceNext
    BY <1>5, <2>1, RequeueRefines DEF QueueCall
  <2>2. CASE Pause \/ Resume \/ Stop
    BY <1>5, <2>2, UnseenStep DEF QueueCall, Pause, Resume, Stop, worker, history
  <2> QED  BY <1>5, <2>1, <2>2 DEF QueueCall
<1>6. CASE DrainLoop
  <2>1. ASSUME NEW t \in Ids, Take(t), loop = "polls" PROVE Service!ServiceNext
    BY <2>1, TakeRefines
  <2>2. Dequeue \/ Wakes => loop = "polls"
    BY DEF Dequeue, Wakes, IInv, LoopOK
  <2>3. CASE Raises
    BY <2>3, UnseenStep DEF Raises, queueVars, history
  <2>4. CASE Blocks /\ UNCHANGED <<status, worker, history>>
    BY <2>4, UnseenStep DEF Blocks, worker, history
  <2>5. CASE PollsAgain
    BY <2>5, UnseenStep DEF PollsAgain, TimesOut, history
  <2>6. CASE Finish
    BY <2>6, FinishRefines
  <2> QED  BY <1>6, <2>1, <2>2, <2>3, <2>4, <2>5, <2>6 DEF DrainLoop, Dequeue, Wakes
<1>7. CASE StartWorker
  BY <1>7, UnseenStep DEF StartWorker, queueVars, history
<1>8. CASE StopWorker
  <2>1. CASE StopTooLate
    BY <2>1, UnseenStep DEF StopTooLate, queueVars
  <2>2. CASE StopPolling
    BY <2>2, UnseenStep DEF StopPolling, CancelDequeue
  <2>3. CASE StopRunning
    BY <2>3, StopRefines
  <2> QED  BY <1>8, <2>1, <2>2, <2>3 DEF StopWorker
<1> QED  BY <1>1, <1>2, <1>3, <1>4, <1>5, <1>6, <1>7, <1>8 DEF Next

\* To those who submit and requeue, the queue, its lock and its loop are the service:
\* one task at a time, the most urgent first, as often as asked for, none unaccounted for.
THEOREM Refinement == Spec => ImplementsService
BY InitRefines, StepRefines, Invariance, PTL DEF Spec, ImplementsService, Service!ServiceSpec
=============================================================================
