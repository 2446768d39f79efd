------------------------ MODULE WorkflowRuntimeProofs ------------------------
(***************************************************************************)
(* The safety properties of WorkflowRuntime, for every workflow, every     *)
(* number of runs and callers, every order of their steps, executions of   *)
(* one run that overlap, writes that fail and crashes.                     *)
(***************************************************************************)
EXTENDS WorkflowRuntime, FiniteSetTheorems, TLAPS

(***************************************************************************)
(* What holds of an execution: it has results of the nodes it is past      *)
(* only; it has the event loop in the loop and past the checkpoint, and    *)
(* nowhere else; what is past the checkpoint is not paused; only a managed *)
(* task is canceled, and not while it has the loop.                        *)
(***************************************************************************)
JobInv(j) ==
    job[j] # Absent =>
        /\ job[j].ran \subseteq 1..(job[j].index - 1)
        /\ job[j].pc \in {"checkpoint", "go", "node", "failing"} => job[j].index <= NodeCount
        /\ job[j].pc = "created" => job[j].index = 1
        /\ job[j].pc \in {"loop", "go"} => turn = j
        /\ turn = j => job[j].pc \in {"loop", "go"}
        /\ job[j].pc = "go" => j \notin paused
        /\ j \in Runs => job[j].run = j
        /\ j \in Callers => job[j].pc \notin {"created", "checkpoint", "finished"}
        /\ job[j].canceling => j \in Runs /\ job[j].pc \notin {"loop", "go"}
        /\ records[job[j].run] # Absent

Managed ==
    /\ \A r \in Runs : r \in tasks <=> job[r] # Absent
    /\ paused \subseteq tasks
    /\ turn # None => job[turn] # Absent

Base == TypeOK /\ Managed /\ \A j \in Jobs : JobInv(j)

Kept == \A r \in Runs : records[r] # Absent => records'[r] # Absent

\* A step of one execution leaves the others as they are.
LEMMA Others ==
    ASSUME Base, NEW j \in Jobs, NEW v, job' = [job EXCEPT ![j] = v],
           turn \in {None, j}, turn' \in {None, j}, Kept,
           \A k \in Jobs \ {j} : k \in paused' => k \in paused
    PROVE  \A k \in Jobs \ {j} : JobInv(k)'
<1> SUFFICES ASSUME NEW k \in Jobs \ {j}, job'[k] # Absent PROVE JobInv(k)'
  BY DEF JobInv
<1>1. job'[k] = job[k] /\ job[k] \in Job
  BY DEF Base, TypeOK
<1>2. job[k].run \in Runs /\ JobInv(k)
  BY <1>1 DEF Job, Base
<1>3. turn # k /\ turn' # k
  BY SentinelAssumption
<1> QED  BY <1>1, <1>2, <1>3 DEF JobInv, Kept

\* There are fewer results than nodes that an execution is past.
LEMMA ResultCount ==
    ASSUME NEW n \in Nat, NEW ran, ran \subseteq 1..n
    PROVE  Cardinality(ran) \in 0..n
<1>1. IsFiniteSet(1..n) /\ Cardinality(1..n) = n
  BY FS_Interval
<1>2. Cardinality(ran) \in Nat /\ Cardinality(ran) <= n
  BY <1>1, FS_Subset, FS_CardinalityType
<1> QED  BY <1>2

LEMMA JobTypes ==
    ASSUME Base, NEW j \in Jobs, job[j] # Absent
    PROVE  /\ job[j] \in Job
           /\ job[j].run \in Runs /\ job[j].index \in 1..(NodeCount + 1)
           /\ job[j].ran \subseteq Nodes /\ job[j].attempt \in 1..MaxAttempts
           /\ job[j].canceling \in BOOLEAN /\ job[j].grant \in Grant \union {None}
           /\ JobInv(j)
BY DEF Base, TypeOK, Job

\* What an execution counts as results, with the node that failed or asked.
LEMMA Counted ==
    ASSUME Base, NEW j \in Jobs, job[j] # Absent
    PROVE  /\ Cardinality(job[j].ran) \in 0..(job[j].index - 1)
           /\ Cardinality(job[j].ran) \in 0..NodeCount
           /\ job[j].index <= NodeCount => Cardinality(job[j].ran) + 1 \in 0..NodeCount
<1>1. job[j].index \in 1..(NodeCount + 1) /\ job[j].ran \subseteq 1..(job[j].index - 1)
      /\ NodeCount \in Nat
  BY JobTypes, RuntimeAssumption DEF JobInv
<1>2. PICK n \in Nat : n = job[j].index - 1
  BY <1>1
<1>3. job[j].ran \subseteq 1..n
  BY <1>1, <1>2
<1>4. Cardinality(job[j].ran) \in 0..n
  BY <1>3, ResultCount
<1> QED  BY <1>1, <1>2, <1>4

LEMMA FreshRecordType == FreshRecord \in Record /\ FreshRecord # Absent
BY RuntimeAssumption, SentinelAssumption DEF FreshRecord, Record, Ended

LEMMA NewJobType ==
    ASSUME NEW r \in Runs, NEW pc \in {"created", "loop", "finished"}, NEW g \in Grant \union {None}
    PROVE  NewJob(r, pc, g) \in Job /\ NewJob(r, pc, g) # Absent
<1>1. 1 \in 1..(NodeCount + 1) /\ 1 \in 1..MaxAttempts
  BY RuntimeAssumption
<1>2. NewJob(r, pc, g) \in Job
  BY <1>1 DEF NewJob, Job
<1> QED  BY <1>2, SentinelAssumption

LEMMA RunsAreJobs == \A r \in Runs : r \in Jobs /\ r \notin Callers /\ r # None
BY RuntimeAssumption, SentinelAssumption DEF Jobs

LEMMA CallersAreJobs == \A c \in Callers : c \in Jobs /\ c \notin Runs /\ c # None
BY RuntimeAssumption, SentinelAssumption DEF Jobs

-----------------------------------------------------------------------------
(***************************************************************************)
(* What recording a run changes, whether or not it raises.                 *)
(***************************************************************************)
StoreTyped ==
    /\ records' \in [Runs -> Record \union {Absent}]
    /\ saved' \in [Runs -> Record \union {Absent}]
    /\ failures' \in 0..MaxFailures

Stores(r, rec) ==
    /\ records'[r] = rec /\ \A q \in Runs \ {r} : records'[q] = records[q]
    /\ saved'[r] \in {saved[r], rec} /\ \A q \in Runs \ {r} : saved'[q] = saved[q]

LEMMA WriteEffect ==
    ASSUME Base, NEW r \in Runs, NEW rec \in Record,
           Write(r, rec) \/ Recorded(r, rec) \/ RecordRaises(r, rec)
    PROVE  /\ StoreTyped /\ Kept /\ Stores(r, rec)
           /\ rec # Absent /\ records' = [records EXCEPT ![r] = rec]
           /\ Recorded(r, rec) => saved'[r] = rec
<1>1. rec # Absent
  BY SentinelAssumption
<1>2. /\ records' = [records EXCEPT ![r] = rec]
      /\ saved' \in {saved, [saved EXCEPT ![r] = rec]}
      /\ Recorded(r, rec) => saved' = [saved EXCEPT ![r] = rec]
  BY DEF Write, Recorded, RecordRaises
<1>3. failures' \in 0..MaxFailures
  BY RuntimeAssumption DEF Write, Recorded, RecordRaises, Base, TypeOK
<1>4. records \in [Runs -> Record \union {Absent}] /\ saved \in [Runs -> Record \union {Absent}]
  BY DEF Base, TypeOK
<1> QED  BY <1>1, <1>2, <1>3, <1>4 DEF StoreTyped, Kept, Stores

\* The records of an outcome.
Statuses == Ended \union {"running", "paused", "needs_approval"}

LEMMA OutcomeType ==
    ASSUME Base, NEW j \in Jobs, job[j] # Absent, NEW status \in Statuses,
           NEW results \in 0..NodeCount, NEW cursor \in 0..NodeCount,
           NEW pending \in Approval \union {None}
    PROVE  /\ Outcome(j, status, results, cursor, pending) \in Record
           /\ Outcome(j, status, results, cursor, pending) # Absent
           /\ Outcome(j, status, results, cursor, pending).status = status
           /\ Outcome(j, status, results, cursor, pending).results = results
           /\ Outcome(j, status, results, cursor, pending).cursor = cursor
<1>1. Outcome(j, status, results, cursor, pending) \in Record
  BY JobTypes DEF Outcome, Record, Statuses
<1> QED  BY <1>1, SentinelAssumption DEF Outcome

\* The other variables have their types.
RestTyped ==
    /\ known' \in BOOLEAN
    /\ asked' \subseteq Approvals /\ approved' \subseteq Approvals
    /\ crashes' \in 0..MaxCrashes
    /\ canceled' \subseteq Runs /\ outlived' \subseteq Runs /\ cut' \subseteq Runs
    /\ reached' \in [Runs -> SUBSET Nodes]

-----------------------------------------------------------------------------
(***************************************************************************)
(* The shapes of a step.  An execution moves on and records nothing, with  *)
(* d the node it has now been at; or it ends with its record; or it begins *)
(* with a fresh record.                                                    *)
(***************************************************************************)
Past(j) ==
    1..(job[j].index - 1)
        \union (IF job[j].pc \in {"node", "failing"} THEN {job[j].index} ELSE {})

Reaches(r, d) ==
    /\ \A q \in Runs : reached[q] \subseteq reached'[q]
    /\ d \subseteq reached'[r]

MovesOn(j, v, d) ==
    /\ v \in Job /\ job' = [job EXCEPT ![j] = v] /\ v.run = job[j].run
    /\ job[j] # Absent /\ job[j].pc \notin {"created", "finished"}
    /\ v.pc \in {"loop", "checkpoint", "go", "node", "failing"}
    /\ turn \in {None, j}
    /\ v.pc \in {"loop", "go"} => turn' = j
    /\ v.pc \notin {"loop", "go"} => turn' = None
    /\ v.pc = "go" => j \notin paused
    /\ v.pc = "checkpoint" => j \in Runs
    /\ v.pc # "loop" => v.index <= NodeCount
    /\ v.ran \subseteq Begun(j) \union d
    /\ \/ v.index = job[j].index /\ v.ran = job[j].ran
       \/ /\ v.index = job[j].index + 1 /\ v.ran \subseteq job[j].ran \union {job[j].index}
          /\ v.pc = "loop"
          /\ job[j].index \in Past(j) \union d \/ Behind(j)
    /\ v.pc \in {"node", "failing"} => v.index \in (Begun(j) \intersect Past(j)) \union d
    /\ d # {} => j \notin paused
    /\ v.canceling => job[j].canceling /\ v.pc \notin {"loop", "go"}
    /\ outlived \subseteq outlived'
    /\ job[j].canceling /\ ~v.canceling => job[j].run \in outlived'
    /\ RestTyped /\ Reaches(job[j].run, d)
    /\ UNCHANGED <<store, control, canceled, cut>>

\* The record of an end counts no node that the execution was not at.
Counts(j, rec, d) ==
    /\ 1..rec.results \subseteq Past(j) \union d
    /\ 1..rec.cursor \subseteq Past(j) \union d
    /\ rec.status = "completed" => Nodes \subseteq Past(j) \union d

EndsWith(j, rec, d) ==
    /\ job[j] # Absent /\ job[j].pc \notin {"created", "finished"}
    /\ turn \in {None, j} /\ Leave(j)
    /\ rec \in Record /\ records' = [records EXCEPT ![job[j].run] = rec] /\ StoreTyped
    /\ \A q \in Runs \ {job[j].run} : saved'[q] = saved[q]
    /\ \/ saved'[job[j].run] \in {saved[job[j].run], rec}
       \/ ~job[j].canceling /\ Counts(j, saved'[job[j].run], d)
    /\ rec.status \in Ended \union {"needs_approval"}
    /\ job[j].canceling => rec.status = "canceled"
    /\ Counts(j, rec, d)
    /\ RestTyped /\ Reaches(job[j].run, d)

-----------------------------------------------------------------------------
(***************************************************************************)
(* The steps of an execution have the first two shapes.                    *)
(***************************************************************************)
LEMMA ExecutingJob ==
    ASSUME Base, NEW j \in Jobs, job[j] # Absent
    PROVE  /\ job[j].index \in 1..(NodeCount + 1) /\ NodeCount \in Nat
           /\ job[j].run \in Runs /\ job[j].canceling \in BOOLEAN
           /\ job[j].ran \subseteq 1..(job[j].index - 1)
           /\ job[j].pc = "node" => /\ job[j].index \in Begun(j) \intersect Past(j)
                                    /\ job[j].index <= NodeCount
           /\ job[j].ran \subseteq Begun(j)
           /\ JobInv(j)
BY JobTypes, RuntimeAssumption DEF JobInv, Begun, Past

LEMMA AdvanceMoves ==
    ASSUME Base, NEW j \in Jobs, NEW done, NEW d, Advance(j, done),
           job[j] # Absent, job[j].pc \notin {"created", "finished"}, turn \in {None, j},
           job[j].index <= NodeCount, done \subseteq {job[j].index},
           done \subseteq Begun(j) \union d,
           job[j].index \in Past(j) \union d \/ Behind(j),
           d # {} => j \notin paused,
           reached' \in [Runs -> SUBSET Nodes], Reaches(job[j].run, d)
    PROVE  \E v \in Job : MovesOn(j, v, d)
<1> DEFINE v == [job[j] EXCEPT !.pc = "loop", !.index = @ + 1, !.attempt = 1,
                               !.ran = @ \union done, !.canceling = FALSE]
<1>1. /\ job[j] \in Job /\ job[j].index \in 1..(NodeCount + 1) /\ job[j].ran \subseteq Nodes
      /\ job[j].run \in Runs
  BY JobTypes
<1>2. job[j].index + 1 \in 1..(NodeCount + 1) /\ 1 \in 1..MaxAttempts
      /\ job[j].ran \union done \subseteq Nodes
  BY <1>1, RuntimeAssumption DEF Nodes
<1>3. v \in Job
  BY <1>1, <1>2 DEF Job
<1>4. job' = [job EXCEPT ![j] = v]
  BY DEF Advance
<1>5. /\ v.run = job[j].run /\ v.pc = "loop" /\ v.index = job[j].index + 1
      /\ v.ran = job[j].ran \union done /\ v.canceling = FALSE
  BY <1>1 DEF Job
<1> HIDE DEF v
<1>6. /\ turn' = j /\ UNCHANGED <<store, control, canceled, cut>>
      /\ outlived \subseteq outlived' /\ (job[j].canceling => job[j].run \in outlived')
  BY DEF Advance
<1>7. RestTyped
  BY <1>1 DEF Advance, RestTyped, Base, TypeOK, approvals
<1>8. v.ran \subseteq Begun(j) \union d
  BY <1>1, <1>5, ExecutingJob
<1>9. v.ran \subseteq job[j].ran \union {job[j].index}
  BY <1>5
<1> QED  BY <1>3, <1>4, <1>5, <1>6, <1>7, <1>8, <1>9 DEF MovesOn

LEMMA PcMoves ==
    ASSUME Base, NEW j \in Jobs, NEW d,
           NEW pc \in {"checkpoint", "go", "node", "failing"},
           job' = [job EXCEPT ![j].pc = pc], turn' = IF pc = "go" THEN j ELSE None,
           job[j] # Absent, job[j].pc \notin {"created", "finished"}, turn \in {None, j},
           job[j].index <= NodeCount,
           pc = "go" => j \notin paused /\ ~job[j].canceling, pc = "checkpoint" => j \in Runs,
           pc \in {"node", "failing"} => job[j].index \in d,
           d # {} => j \notin paused,
           UNCHANGED <<known, store, control, crashes, cancels, cut>>,
           asked' \subseteq Approvals, approved' \subseteq Approvals,
           reached' \in [Runs -> SUBSET Nodes], Reaches(job[j].run, d)
    PROVE  \E v \in Job : MovesOn(j, v, d)
<1> DEFINE v == [job[j] EXCEPT !.pc = pc]
<1>1. job[j] \in Job
  BY JobTypes
<1>2. v \in Job
  BY <1>1 DEF Job
<1>3. /\ v.run = job[j].run /\ v.pc = pc /\ v.index = job[j].index
      /\ v.ran = job[j].ran /\ v.canceling = job[j].canceling
  BY <1>1 DEF Job
<1>4. job' = [job EXCEPT ![j] = v]
  OBVIOUS
<1> HIDE DEF v
<1>5. RestTyped /\ UNCHANGED <<store, control, canceled, outlived, cut>>
  BY DEF RestTyped, Base, TypeOK, cancels
<1>6. v.ran \subseteq Begun(j) \union d
  BY <1>3, ExecutingJob
<1> QED  BY <1>2, <1>3, <1>4, <1>5, <1>6 DEF MovesOn

\* Where an execution is when it is at a node.
LEMMA NodeFacts ==
    ASSUME Base, NEW j \in Jobs, NEW n \in Nodes, AtNode(j, n)
    PROVE  /\ job[j] # Absent /\ job[j].pc \in {"loop", "go"} /\ turn = j
           /\ job[j].index = n /\ n <= NodeCount /\ ~job[j].canceling /\ j \notin paused
           /\ reached' \in [Runs -> SUBSET Nodes] /\ Reaches(job[j].run, {n})
<1>1. job[j] # Absent /\ job[j].pc \in {"loop", "go"} /\ turn = j /\ job[j].index = n
  BY DEF AtNode, At
<1>2. JobInv(j) /\ job[j].run \in Runs
  BY <1>1, ExecutingJob
<1>3. ~job[j].canceling /\ j \notin paused
  BY <1>1, <1>2 DEF AtNode, At, JobInv, Held
<1>4. reached' = [reached EXCEPT ![job[j].run] = @ \union {n}]
  BY DEF AtNode
<1>5. reached \in [Runs -> SUBSET Nodes]
  BY DEF Base, TypeOK
<1>6. reached' \in [Runs -> SUBSET Nodes] /\ Reaches(job[j].run, {n})
  BY <1>2, <1>4, <1>5 DEF Reaches
<1>7. n <= NodeCount
  BY RuntimeAssumption DEF Nodes
<1> QED  BY <1>1, <1>3, <1>6, <1>7

LEMMA NotReached ==
    ASSUME Base, NEW r \in Runs, UNCHANGED reached
    PROVE  reached' \in [Runs -> SUBSET Nodes] /\ Reaches(r, {})
BY DEF Base, TypeOK, Reaches

LEMMA NodesMoveOn ==
    ASSUME Base, NEW j \in Jobs,
           SkipNode(j) \/ StartSlow(j) \/ RunQuick(j) \/ PassApproval(j) \/ AskRaises(j)
    PROVE  \E d : \E v \in Job : MovesOn(j, v, d)
<1>1. Slow \subseteq Nodes /\ Approval \subseteq Nodes /\ Conditional \subseteq Nodes
  BY RuntimeAssumption
<1>2. PICK n \in Nodes :
        /\ AtNode(j, n)
        /\ \/ Advance(j, {}) \/ Advance(j, {n})
           \/ Suspend(j, "node") /\ UNCHANGED approvals
           \/ /\ Suspend(j, "failing")
              /\ \/ UNCHANGED approvals
                 \/ asked' \in {asked, asked \union {<<job[j].run, n>>}} /\ UNCHANGED approved
                    /\ n \in Approval
  BY <1>1 DEF SkipNode, StartSlow, RunQuick, PassApproval, AskRaises
<1>3. /\ job[j] # Absent /\ job[j].pc \in {"loop", "go"} /\ turn = j
      /\ job[j].index = n /\ n <= NodeCount /\ ~job[j].canceling /\ j \notin paused
      /\ reached' \in [Runs -> SUBSET Nodes] /\ Reaches(job[j].run, {n})
  BY <1>2, NodeFacts
<1>4. ASSUME NEW done \in {{}, {n}}, Advance(j, done)
      PROVE  \E v \in Job : MovesOn(j, v, {n})
  <2>1. done \subseteq {job[j].index} /\ done \subseteq Begun(j) \union {n}
        /\ job[j].index \in Past(j) \union {n}
    BY <1>3
  <2> QED  BY <1>3, <1>4, <2>1, AdvanceMoves
<1>5. ASSUME NEW pc \in {"node", "failing"}, Suspend(j, pc),
             asked' \subseteq Approvals, approved' \subseteq Approvals
      PROVE  \E v \in Job : MovesOn(j, v, {n})
  <2>1. /\ job' = [job EXCEPT ![j].pc = pc] /\ turn' = (IF pc = "go" THEN j ELSE None)
        /\ UNCHANGED <<known, store, control, crashes, cancels, cut>>
    BY <1>5 DEF Suspend
  <2> QED  BY <1>3, <1>5, <2>1, PcMoves
<1>6. UNCHANGED approvals => asked' \subseteq Approvals /\ approved' \subseteq Approvals
  BY DEF Base, TypeOK, approvals
<1>7. asked' \in {asked, asked \union {<<job[j].run, n>>}} /\ UNCHANGED approved /\ n \in Approval
        => asked' \subseteq Approvals /\ approved' \subseteq Approvals
  BY <1>3, ExecutingJob DEF Base, TypeOK, Approvals
<1> QED  BY <1>2, <1>4, <1>5, <1>6, <1>7

LEMMA OthersMoveOn ==
    ASSUME Base, NEW j \in Jobs,
           \/ SkipBehind(j) \/ WaitAtCheckpoint(j) \/ LeaveCheckpoint(j) \/ NodeReturns(j)
           \/ AttemptFails(j)
    PROVE  \E v \in Job : MovesOn(j, v, {})
<1>1. /\ job[j] # Absent /\ job[j].pc \in {"loop", "checkpoint", "node"} /\ turn \in {None, j}
      /\ job[j].index <= NodeCount /\ job[j].run \in Runs /\ JobInv(j)
  <2>1. job[j] # Absent /\ job[j].pc \in {"loop", "checkpoint", "node"} /\ turn \in {None, j}
    BY DEF SkipBehind, WaitAtCheckpoint, LeaveCheckpoint, NodeReturns, AttemptFails, OutcomeArrives,
       Looping, Woken, At
  <2>2. JobInv(j) /\ job[j].run \in Runs
    BY <2>1, ExecutingJob
  <2>3. job[j].pc = "loop" => job[j].index <= NodeCount
    BY <2>1 DEF SkipBehind, WaitAtCheckpoint, LeaveCheckpoint, NodeReturns, AttemptFails,
       OutcomeArrives, Woken, At
  <2> QED  BY <2>1, <2>2, <2>3 DEF JobInv
<1>2. UNCHANGED reached
  BY DEF SkipBehind, WaitAtCheckpoint, LeaveCheckpoint, NodeReturns, AttemptFails, history
<1>3. reached' \in [Runs -> SUBSET Nodes] /\ Reaches(job[j].run, {})
  BY <1>1, <1>2, NotReached
<1>4. UNCHANGED approvals => asked' \subseteq Approvals /\ approved' \subseteq Approvals
  BY DEF Base, TypeOK, approvals
<1>5. CASE SkipBehind(j)
  BY <1>1, <1>3, <1>5, AdvanceMoves DEF SkipBehind
<1>6. CASE WaitAtCheckpoint(j)
  <2>1. /\ job' = [job EXCEPT ![j].pc = "checkpoint"] /\ turn' = None
        /\ UNCHANGED <<known, store, control, crashes, cancels, cut, approvals>>
    BY <1>6 DEF WaitAtCheckpoint, Suspend
  <2>2. j \in Runs
    BY <1>6 DEF WaitAtCheckpoint, Held, Base, TypeOK
  <2> QED  BY <1>1, <1>3, <1>4, <2>1, <2>2, PcMoves
<1>7. CASE LeaveCheckpoint(j)
  <2>1. /\ job' = [job EXCEPT ![j].pc = "go"] /\ turn' = j /\ j \notin paused /\ ~job[j].canceling
        /\ UNCHANGED <<known, store, control, crashes, cancels, cut, approvals>>
    BY <1>7 DEF LeaveCheckpoint, Held, history
  <2> QED  BY <1>1, <1>3, <1>4, <2>1, PcMoves
<1>8. CASE NodeReturns(j)
  <2>1. job[j].pc = "node"
    BY <1>8 DEF NodeReturns, OutcomeArrives, Woken, At
  <2>2. job[j].index \in Begun(j) \intersect Past(j)
    BY <1>1, <2>1, ExecutingJob
  <2>3. {job[j].index} \subseteq Begun(j) \union {} /\ job[j].index \in Past(j) \union {}
    BY <2>2
  <2> QED  BY <1>1, <1>3, <1>8, <2>3, AdvanceMoves DEF NodeReturns
<1>9. CASE AttemptFails(j)
  <2> DEFINE v == [job[j] EXCEPT !.canceling = FALSE,
                     !.attempt = IF AttemptsLeft(j) THEN @ + 1 ELSE @,
                     !.pc = IF AttemptsLeft(j) THEN "node" ELSE "failing"]
  <2>1. job[j] \in Job /\ job[j].attempt \in 1..MaxAttempts
    BY <1>1, JobTypes
  <2>2. AttemptsLeft(j) => job[j].attempt + 1 \in 1..MaxAttempts
    BY <2>1, RuntimeAssumption DEF AttemptsLeft
  <2>3. v \in Job
    BY <2>1, <2>2 DEF Job
  <2>4. job' = [job EXCEPT ![j] = v]
    BY <1>9 DEF AttemptFails
  <2>5. /\ v.run = job[j].run /\ v.pc \in {"node", "failing"} /\ v.index = job[j].index
        /\ v.ran = job[j].ran /\ v.canceling = FALSE
    BY <2>1 DEF Job
  <2> HIDE DEF v
  <2>6. job[j].pc = "node" /\ turn = None
    BY <1>9 DEF AttemptFails, OutcomeArrives, Woken, At
  <2>7. job[j].index \in Begun(j) \intersect Past(j) /\ job[j].ran \subseteq Begun(j)
    BY <1>1, <2>6, ExecutingJob
  <2>8. /\ UNCHANGED <<known, store, control, turn, approvals, crashes, canceled, cut, reached>>
        /\ outlived' = IF job[j].canceling THEN outlived \union {job[j].run} ELSE outlived
    BY <1>9 DEF AttemptFails
  <2>9. RestTyped
    BY <1>1, <1>3, <1>4, <2>8 DEF RestTyped, Base, TypeOK
  <2>10. outlived \subseteq outlived' /\ (job[j].canceling => job[j].run \in outlived')
    BY <2>8
  <2> QED  BY <1>1, <1>3, <2>3, <2>4, <2>5, <2>6, <2>7, <2>8, <2>9, <2>10 DEF MovesOn
<1> QED  BY <1>5, <1>6, <1>7, <1>8, <1>9

\* As many results as nodes that the execution is past, or one more with the node
\* that failed or asked.
LEMMA CountedPast ==
    ASSUME Base, NEW j \in Jobs, NEW d, NEW extra \in {0, 1}, job[j] # Absent,
           extra = 1 => job[j].index \in Past(j) \union d /\ job[j].index <= NodeCount
    PROVE  /\ Cardinality(job[j].ran) + extra \in 0..NodeCount
           /\ 1..(Cardinality(job[j].ran) + extra) \subseteq Past(j) \union d
<1>1. /\ Cardinality(job[j].ran) \in 0..(job[j].index - 1)
      /\ Cardinality(job[j].ran) \in 0..NodeCount
      /\ job[j].index <= NodeCount => Cardinality(job[j].ran) + 1 \in 0..NodeCount
  BY Counted
<1>2. job[j].index \in Nat /\ job[j].index >= 1
  BY ExecutingJob
<1>3. 1..(job[j].index - 1) \subseteq Past(j) \union d
  BY DEF Past
<1>4. CASE extra = 0
  BY <1>1, <1>2, <1>3, <1>4
<1>5. CASE extra = 1
  <2>1. 1..(Cardinality(job[j].ran) + 1) \subseteq 1..(job[j].index - 1) \union {job[j].index}
    BY <1>1, <1>2
  <2> QED  BY <1>1, <1>3, <1>5, <2>1
<1> QED  BY <1>4, <1>5

\* An execution ends and its record is written, or that raises.
LEMMA WritesEnd ==
    ASSUME Base, NEW j \in Jobs, NEW d, NEW rec \in Record,
           job[j] # Absent, job[j].pc \notin {"created", "finished"}, turn \in {None, j}, Leave(j),
           Write(job[j].run, rec) \/ Recorded(job[j].run, rec),
           rec.status \in Ended \union {"needs_approval"},
           job[j].canceling => rec.status = "canceled", Counts(j, rec, d),
           asked' \subseteq Approvals, approved' \subseteq Approvals,
           reached' \in [Runs -> SUBSET Nodes], Reaches(job[j].run, d)
    PROVE  EndsWith(j, rec, d)
<1>1. job[j].run \in Runs
  BY ExecutingJob
<1>2. /\ StoreTyped /\ Stores(job[j].run, rec)
      /\ records' = [records EXCEPT ![job[j].run] = rec]
  BY <1>1, WriteEffect
<1>3. RestTyped
  BY DEF Leave, RestTyped, Base, TypeOK, cancels
<1> QED  BY <1>2, <1>3 DEF EndsWith, Stores

LEMMA CompletedCounts ==
    ASSUME Base, NEW j \in Jobs, AtEnd(j)
    PROVE  /\ job[j] # Absent /\ job[j].pc = "loop" /\ turn = j /\ ~job[j].canceling
           /\ Completed(j) \in Record /\ Completed(j).status = "completed"
           /\ Counts(j, Completed(j), {})
           /\ FailedWith(j, Cardinality(job[j].ran)) \in Record
           /\ FailedWith(j, Cardinality(job[j].ran)).status = "failed"
           /\ Counts(j, FailedWith(j, Cardinality(job[j].ran)), {})
<1> USE DEF Statuses, Ended
<1>1. job[j] # Absent /\ job[j].pc = "loop" /\ turn = j /\ job[j].index > NodeCount
  BY DEF AtEnd, Looping, At
<1>2. /\ JobInv(j) /\ NodeCount \in 0..NodeCount /\ NodeCount \in Nat
      /\ job[j].index \in 1..(NodeCount + 1) /\ job[j].index = NodeCount + 1
  BY <1>1, ExecutingJob
<1>3. PICK m \in 0..NodeCount : m = Cardinality(job[j].ran) /\ 1..m \subseteq Past(j) \union {}
  <2>1. /\ Cardinality(job[j].ran) + 0 \in 0..NodeCount
        /\ 1..(Cardinality(job[j].ran) + 0) \subseteq Past(j) \union {}
    BY <1>1, CountedPast
  <2>2. Cardinality(job[j].ran) \in 0..NodeCount
    BY <1>1, Counted
  <2> QED  BY <2>1, <2>2
<1>4. Nodes \subseteq Past(j) \union {} /\ 1..NodeCount \subseteq Past(j) \union {}
  BY <1>2 DEF Past, Nodes
<1>5. /\ Outcome(j, "completed", m, NodeCount, None) \in Record
      /\ Outcome(j, "completed", m, NodeCount, None).status = "completed"
      /\ Outcome(j, "completed", m, NodeCount, None).results = m
      /\ Outcome(j, "completed", m, NodeCount, None).cursor = NodeCount
  BY <1>1, <1>2, OutcomeType
<1>6. /\ Outcome(j, "failed", m, m, None) \in Record
      /\ Outcome(j, "failed", m, m, None).status = "failed"
      /\ Outcome(j, "failed", m, m, None).results = m
      /\ Outcome(j, "failed", m, m, None).cursor = m
  BY <1>1, OutcomeType
<1>7. ~job[j].canceling
  BY <1>1, <1>2 DEF JobInv
<1> QED  BY <1>1, <1>3, <1>4, <1>5, <1>6, <1>7 DEF Completed, FailedWith, Counts

LEMMA CompletionsEnd ==
    ASSUME Base, NEW j \in Jobs, Complete(j) \/ CompleteRaises(j)
    PROVE  \E rec : EndsWith(j, rec, {})
<1> DEFINE failed == FailedWith(j, Cardinality(job[j].ran))
<1>1. /\ job[j] # Absent /\ job[j].pc = "loop" /\ turn = j /\ ~job[j].canceling
      /\ Completed(j) \in Record /\ Completed(j).status = "completed"
      /\ Counts(j, Completed(j), {})
      /\ failed \in Record /\ failed.status = "failed" /\ Counts(j, failed, {})
  BY CompletedCounts DEF Complete, CompleteRaises
<1> HIDE DEF failed
<1>2. job[j].run \in Runs
  BY <1>1, ExecutingJob
<1>3. UNCHANGED <<approvals, reached>> /\ Leave(j)
  BY DEF Complete, CompleteRaises
<1>4. /\ asked' \subseteq Approvals /\ approved' \subseteq Approvals
      /\ reached' \in [Runs -> SUBSET Nodes] /\ Reaches(job[j].run, {})
  BY <1>2, <1>3, NotReached DEF approvals, Base, TypeOK
<1>5. CASE Complete(j)
  <2>1. EndsWith(j, Completed(j), {})
    BY <1>1, <1>3, <1>4, <1>5, WritesEnd DEF Complete, Ended
  <2> QED  BY <2>1
<1>6. CASE CompleteRaises(j)
  <2>1. /\ failures < MaxFailures /\ failures' = failures + 1
        /\ records' = [records EXCEPT ![job[j].run] = failed]
        /\ \/ UNCHANGED saved
           \/ \E line \in {Completed(j), failed} : saved' = [saved EXCEPT ![job[j].run] = line]
    BY <1>6 DEF CompleteRaises, failed
  <2>2. records \in [Runs -> Record \union {Absent}] /\ saved \in [Runs -> Record \union {Absent}]
        /\ failures \in 0..MaxFailures
    BY DEF Base, TypeOK
  <2>3. StoreTyped
    <3>1. failures' \in 0..MaxFailures
      BY <2>1, <2>2, RuntimeAssumption
    <3>2. PICK line \in Record \union {Absent} :
            saved' = saved \/ saved' = [saved EXCEPT ![job[j].run] = line]
      BY <1>1, <2>1
    <3>3. saved' \in [Runs -> Record \union {Absent}]
      BY <2>2, <3>2
    <3>4. records' \in [Runs -> Record \union {Absent}]
      BY <1>1, <2>1, <2>2
    <3> QED  BY <3>1, <3>3, <3>4 DEF StoreTyped
  <2>4. \A q \in Runs \ {job[j].run} : saved'[q] = saved[q]
    BY <2>1, <2>2
  <2>5. saved'[job[j].run] \in {saved[job[j].run], Completed(j), failed}
    BY <1>2, <2>1, <2>2
  <2>6. RestTyped
    BY <1>3, <1>4 DEF Leave, RestTyped, Base, TypeOK, cancels
  <2>7. EndsWith(j, failed, {})
    BY <1>1, <1>3, <1>4, <2>1, <2>3, <2>4, <2>5, <2>6 DEF EndsWith, Ended
  <2> QED  BY <2>7
<1> QED  BY <1>5, <1>6

\* The record of an end that is not a completion.
LEMMA OutcomeEnds ==
    ASSUME Base, NEW j \in Jobs, NEW d, NEW extra \in {0, 1},
           NEW status \in {"failed", "canceled", "needs_approval"},
           NEW pending \in Approval \union {None},
           job[j] # Absent, job[j].pc \notin {"created", "finished"}, turn \in {None, j}, Leave(j),
           Write(job[j].run, Outcome(j, status, Cardinality(job[j].ran) + extra,
                                     Cardinality(job[j].ran) + extra, pending)),
           job[j].canceling => status = "canceled",
           extra = 1 => job[j].index \in Past(j) \union d /\ job[j].index <= NodeCount,
           asked' \subseteq Approvals, approved' \subseteq Approvals,
           reached' \in [Runs -> SUBSET Nodes], Reaches(job[j].run, d)
    PROVE  \E rec : EndsWith(j, rec, d)
<1>1. PICK m \in 0..NodeCount :
        m = Cardinality(job[j].ran) + extra /\ 1..m \subseteq Past(j) \union d
  BY CountedPast
<1>2. PICK rec : rec = Outcome(j, status, m, m, pending)
  OBVIOUS
<1>3. status \in Statuses
  BY DEF Statuses, Ended
<1>4. rec \in Record /\ rec.status = status /\ rec.results = m /\ rec.cursor = m
  BY <1>1, <1>2, <1>3, OutcomeType
<1>5. Counts(j, rec, d) /\ rec.status \in Ended \union {"needs_approval"}
  BY <1>1, <1>4 DEF Counts, Ended
<1>6. Write(job[j].run, rec)
  BY <1>1, <1>2
<1>7. EndsWith(j, rec, d)
  BY <1>4, <1>5, <1>6, WritesEnd
<1> QED  BY <1>7

LEMMA FailuresEnd ==
    ASSUME Base, NEW j \in Jobs,
           NotStarted(j) \/ AskApproval(j) \/ Fail(j) \/ Interrupted(j)
    PROVE  \E d : \E rec : EndsWith(j, rec, d)
<1>1. CASE NotStarted(j)
  <2>1. PICK n \in Nodes : /\ AtNode(j, n) /\ Leave(j) /\ UNCHANGED approvals
                           /\ Write(job[j].run, FailedWith(j, Cardinality(job[j].ran)))
    BY <1>1 DEF NotStarted
  <2>2. /\ job[j] # Absent /\ job[j].pc \in {"loop", "go"} /\ turn = j /\ ~job[j].canceling
        /\ reached' \in [Runs -> SUBSET Nodes] /\ Reaches(job[j].run, {n})
    BY <2>1, NodeFacts
  <2>3. PICK extra \in {0, 1} : extra = 0
    OBVIOUS
  <2>4. Write(job[j].run, Outcome(j, "failed", Cardinality(job[j].ran) + extra,
                                  Cardinality(job[j].ran) + extra, None))
    <3>1. Cardinality(job[j].ran) = Cardinality(job[j].ran) + extra
      BY <2>2, <2>3, Counted
    <3> QED  BY <2>1, <3>1 DEF FailedWith
  <2>5. asked' \subseteq Approvals /\ approved' \subseteq Approvals
    BY <2>1 DEF approvals, Base, TypeOK
  <2> QED  BY <2>1, <2>2, <2>3, <2>4, <2>5, OutcomeEnds
<1>2. CASE AskApproval(j)
  <2>1. PICK n \in Approval :
          /\ AtNode(j, n) /\ Leave(j)
          /\ asked' = asked \union {<<job[j].run, n>>} /\ UNCHANGED approved
          /\ Write(job[j].run, Outcome(j, "needs_approval", Cardinality(job[j].ran) + 1,
                                       Cardinality(job[j].ran) + 1, n))
    BY <1>2 DEF AskApproval
  <2>2. n \in Nodes
    BY RuntimeAssumption
  <2>3. /\ job[j] # Absent /\ job[j].pc \in {"loop", "go"} /\ turn = j /\ ~job[j].canceling
        /\ job[j].index = n /\ n <= NodeCount
        /\ reached' \in [Runs -> SUBSET Nodes] /\ Reaches(job[j].run, {n})
    BY <2>1, <2>2, NodeFacts
  <2>4. asked' \subseteq Approvals /\ approved' \subseteq Approvals
    BY <2>1, <2>3, ExecutingJob DEF Approvals, Base, TypeOK
  <2> QED  BY <2>1, <2>3, <2>4, OutcomeEnds
<1>3. CASE Fail(j)
  <2>1. job[j] # Absent /\ job[j].pc = "failing" /\ turn = None /\ ~job[j].canceling
    BY <1>3 DEF Fail, Woken, At
  <2>2. job[j].index \in Past(j) \union {} /\ job[j].index <= NodeCount /\ job[j].run \in Runs
    BY <2>1, ExecutingJob DEF Past, JobInv
  <2>3. /\ asked' \subseteq Approvals /\ approved' \subseteq Approvals
        /\ reached' \in [Runs -> SUBSET Nodes] /\ Reaches(job[j].run, {})
    BY <1>3, <2>2, NotReached DEF Fail, approvals, Base, TypeOK
  <2>4. /\ Leave(j)
        /\ Write(job[j].run, Outcome(j, "failed", Cardinality(job[j].ran) + 1,
                                     Cardinality(job[j].ran) + 1, None))
    BY <1>3 DEF Fail, FailedWith
  <2> QED  BY <2>1, <2>2, <2>3, <2>4, OutcomeEnds
<1>4. CASE Interrupted(j)
  <2>1. /\ job[j] # Absent /\ job[j].pc \in {"checkpoint", "node", "failing"} /\ turn = None
    BY <1>4 DEF Interrupted, Awaiting, Woken, At
  <2>2. PICK extra \in {0, 1} :
          /\ extra = 1 => job[j].pc = "failing"
          /\ Write(job[j].run, Outcome(j, "canceled", Cardinality(job[j].ran) + extra,
                                       Cardinality(job[j].ran) + extra, None))
    BY <1>4 DEF Interrupted, At
  <2>3. /\ job[j].pc = "failing" => job[j].index \in Past(j) \union {}
        /\ job[j].index <= NodeCount /\ job[j].run \in Runs
    BY <2>1, ExecutingJob DEF Past, JobInv
  <2>4. /\ asked' \subseteq Approvals /\ approved' \subseteq Approvals
        /\ reached' \in [Runs -> SUBSET Nodes] /\ Reaches(job[j].run, {})
    BY <1>4, <2>3, NotReached DEF Interrupted, approvals, Base, TypeOK
  <2>5. Leave(j)
    BY <1>4 DEF Interrupted
  <2> QED  BY <2>1, <2>2, <2>3, <2>4, <2>5, OutcomeEnds
<1> QED  BY <1>1, <1>2, <1>3, <1>4

LEMMA ExecuteShape ==
    ASSUME Base, NEW j \in Jobs, Execute(j)
    PROVE  \/ \E d : \E v \in Job : MovesOn(j, v, d)
           \/ \E d : \E rec : EndsWith(j, rec, d)
<1>1. Complete(j) \/ CompleteRaises(j) => \E d : \E rec : EndsWith(j, rec, d)
  BY CompletionsEnd
<1>2. \/ SkipBehind(j) \/ WaitAtCheckpoint(j) \/ LeaveCheckpoint(j) \/ NodeReturns(j)
      \/ AttemptFails(j)
      => \E d : \E v \in Job : MovesOn(j, v, d)
  BY OthersMoveOn
<1> QED  BY <1>1, <1>2, NodesMoveOn, FailuresEnd DEF Execute

-----------------------------------------------------------------------------
(***************************************************************************)
(* Every step keeps Base.                                                  *)
(***************************************************************************)
LEMMA RestUnchanged ==
    ASSUME Base, UNCHANGED <<known, approvals, crashes, history>>
    PROVE  RestTyped
BY DEF Base, TypeOK, RestTyped, approvals, history, cancels

LEMMA StoreUnchanged ==
    ASSUME Base, UNCHANGED store
    PROVE  StoreTyped /\ Kept
BY DEF Base, TypeOK, StoreTyped, Kept, store

\* An execution goes from one place to another.
LEMMA StepKeeps ==
    ASSUME Base, NEW j \in Jobs, NEW v \in Job, job[j] # Absent,
           job' = [job EXCEPT ![j] = v], turn \in {None, j}, turn' \in {None, j},
           StoreTyped, Kept, UNCHANGED <<tasks, paused>>, RestTyped, JobInv(j)'
    PROVE  Base'
<1>0. v # Absent
  BY SentinelAssumption
<1>1. \A k \in Jobs : JobInv(k)'
  BY Others
<1>2. job' \in [Jobs -> Job \union {Absent}] /\ job'[j] = v /\ turn' \in Jobs \union {None}
  BY DEF Base, TypeOK
<1>3. \A k \in Jobs : job'[k] # Absent <=> job[k] # Absent
  BY <1>0, <1>2 DEF Base, TypeOK
<1>4. TypeOK'
  BY <1>2 DEF Base, TypeOK, RestTyped, StoreTyped
<1>5. Managed'
  BY <1>0, <1>3, <1>2 DEF Base, Managed, Jobs
<1> QED  BY <1>1, <1>4, <1>5 DEF Base

LEMMA MovesOnBase ==
    ASSUME Base, NEW j \in Jobs, NEW v, NEW d, MovesOn(j, v, d)
    PROVE  Base'
<1>1. /\ v \in Job /\ job' = [job EXCEPT ![j] = v] /\ v.run = job[j].run /\ job[j] # Absent
      /\ UNCHANGED <<store, control>> /\ RestTyped
      /\ turn \in {None, j} /\ turn' \in {None, j}
  BY DEF MovesOn
<1>2. StoreTyped /\ Kept /\ UNCHANGED <<tasks, paused>> /\ UNCHANGED records
  BY <1>1, StoreUnchanged DEF control, store
<1>3. job'[j] = v
  BY <1>1 DEF Base, TypeOK
<1>4. /\ job[j].index \in 1..(NodeCount + 1) /\ job[j].ran \subseteq 1..(job[j].index - 1)
      /\ JobInv(j)
  BY <1>1, ExecutingJob
<1>5. v.ran \subseteq 1..(v.index - 1)
  <2>1. CASE v.ran = job[j].ran /\ v.index = job[j].index
    BY <1>4, <2>1
  <2>2. CASE v.index = job[j].index + 1 /\ v.ran \subseteq job[j].ran \union {job[j].index}
    BY <1>4, <2>2, RuntimeAssumption
  <2> QED  BY <2>1, <2>2 DEF MovesOn
<1>6. None # j /\ (j \in Callers => j \notin Runs)
  BY RunsAreJobs, SentinelAssumption
<1>7. /\ v.pc \in {"loop", "checkpoint", "go", "node", "failing"}
      /\ v.pc \in {"loop", "go"} <=> turn' = j
      /\ v.pc = "go" => j \notin paused'
      /\ v.pc = "checkpoint" => j \in Runs
      /\ v.pc # "loop" => v.index <= NodeCount
  BY <1>2, <1>6 DEF MovesOn
<1>8. v.canceling => j \in Runs /\ v.pc \notin {"loop", "go"}
  BY <1>1, <1>4 DEF MovesOn, JobInv
<1>9. records'[v.run] # Absent /\ (j \in Runs => v.run = j)
  BY <1>1, <1>2, <1>4 DEF JobInv
<1>10. JobInv(j)'
  BY <1>3, <1>5, <1>6, <1>7, <1>8, <1>9 DEF JobInv
<1> QED  BY <1>1, <1>2, <1>10, StepKeeps

\* An execution is over: a managed task stays until its clean-up.
LEMMA GoneKeeps ==
    ASSUME Base, NEW j \in Jobs, job[j] # Absent, turn \in {None, j}, turn' = None,
           job' = IF j \in Runs THEN Finished(j) ELSE [job EXCEPT ![j] = Absent],
           StoreTyped, Kept, UNCHANGED <<tasks, paused>>, RestTyped
    PROVE  Base'
<1>0. turn' # j /\ None \notin Jobs
  BY SentinelAssumption
<1>1. CASE j \in Runs
  <2>1. PICK v : v = NewJob(j, "finished", None)
    OBVIOUS
  <2>2. v \in Job
    BY <1>1, <2>1, NewJobType
  <2>3. v.run = j /\ v.pc = "finished" /\ v.ran = {} /\ v.index = 1 /\ v.canceling = FALSE
    BY <2>1 DEF NewJob
  <2>4. job' = [job EXCEPT ![j] = v]
    BY <1>1, <2>1 DEF Finished
  <2>5. job'[j] = v
    BY <2>4 DEF Base, TypeOK
  <2>6. job[j].run = j /\ records[j] # Absent /\ j \notin Callers
    BY <1>1, JobTypes, RuntimeAssumption DEF JobInv
  <2>7. JobInv(j)'
    BY <1>0, <1>1, <2>3, <2>5, <2>6 DEF JobInv, Kept
  <2> QED  BY <2>2, <2>4, <2>7, <1>0, StepKeeps
<1>2. CASE j \notin Runs
  <2>1. job' = [job EXCEPT ![j] = Absent] /\ job'[j] = Absent
    BY <1>2 DEF Base, TypeOK
  <2>2. \A k \in Jobs : JobInv(k)'
    <3>1. \A k \in Jobs \ {j} : JobInv(k)'
      BY <2>1, <1>0, Others
    <3>2. JobInv(j)'
      BY <2>1 DEF JobInv
    <3> QED  BY <3>1, <3>2
  <2>3. TypeOK'
    BY <2>1 DEF Base, TypeOK, RestTyped, StoreTyped
  <2>4. Managed'
    BY <2>1, <1>2 DEF Base, Managed, Jobs, TypeOK
  <2> QED  BY <2>2, <2>3, <2>4 DEF Base
<1> QED  BY <1>1, <1>2

LEMMA EndsWithBase ==
    ASSUME Base, NEW j \in Jobs, NEW rec, NEW d, EndsWith(j, rec, d)
    PROVE  Base'
<1>1. /\ job[j] # Absent /\ turn \in {None, j} /\ turn' = None
      /\ job' = IF j \in Runs THEN Finished(j) ELSE [job EXCEPT ![j] = Absent]
      /\ UNCHANGED <<tasks, paused>>
  BY DEF EndsWith, Leave, control
<1>2. StoreTyped /\ RestTyped
  BY DEF EndsWith
<1>3. records' = [records EXCEPT ![job[j].run] = rec] /\ rec # Absent
  BY SentinelAssumption DEF EndsWith
<1>4. Kept
  BY <1>3 DEF Kept, Base, TypeOK
<1> QED  BY <1>1, <1>2, <1>4, GoneKeeps

LEMMA StartBase ==
    ASSUME Base, NEW r \in Runs, Start(r)
    PROVE  Base'
<1>1. /\ turn = None /\ records[r] = Absent /\ turn' = None
      /\ Recorded(r, FreshRecord)
      /\ tasks' = tasks \union {r} /\ paused' = paused
      /\ UNCHANGED <<known, approvals, crashes, history>>
  BY DEF Start, CanStart
<1>2. PICK v : v = NewJob(r, "created", None)
  OBVIOUS
<1>3. v \in Job /\ v # Absent
  BY <1>2, NewJobType
<1>4. v.run = r /\ v.pc = "created" /\ v.ran = {} /\ v.index = 1 /\ v.canceling = FALSE
  BY <1>2 DEF NewJob
<1>5. r \in Jobs /\ r \notin Callers /\ r # None
  BY RunsAreJobs
<1>6. job' = [job EXCEPT ![r] = v] /\ job'[r] = v
  BY <1>2, <1>5 DEF Start, Base, TypeOK
<1>7. Kept /\ records'[r] # Absent /\ StoreTyped
  BY <1>1, FreshRecordType, WriteEffect DEF Stores
<1>8. \A k \in Jobs : JobInv(k)'
  <2>1. \A k \in Jobs \ {r} : JobInv(k)'
    BY <1>1, <1>5, <1>6, <1>7, Others
  <2>2. JobInv(r)'
    BY <1>1, <1>4, <1>5, <1>6, <1>7 DEF JobInv
  <2> QED  BY <2>1, <2>2
<1>9. RestTyped
  BY <1>1, RestUnchanged
<1>10. TypeOK'
  BY <1>1, <1>3, <1>6, <1>7, <1>9 DEF RestTyped, StoreTyped, Base, TypeOK
<1>11. Managed'
  BY <1>1, <1>3, <1>5, <1>6 DEF Base, Managed, Jobs, TypeOK
<1> QED  BY <1>8, <1>10, <1>11 DEF Base

LEMMA BeginBase ==
    ASSUME Base, NEW r \in Runs, Begin(r)
    PROVE  Base'
<1>1. /\ turn = None /\ turn' = r /\ job[r] # Absent /\ job[r].pc = "created"
      /\ ~job[r].canceling /\ Recorded(r, FreshRecord)
      /\ UNCHANGED <<known, control, approvals, crashes, history>>
  BY DEF Begin, CanBegin, At, BeginRecord
<1>2. r \in Jobs /\ r \notin Callers
  BY RunsAreJobs
<1>3. PICK v : v = [job[r] EXCEPT !.pc = "loop"]
  OBVIOUS
<1>4. job[r] \in Job
  BY <1>1, <1>2, JobTypes
<1>5. /\ v \in Job /\ v.pc = "loop" /\ v.run = job[r].run /\ v.ran = job[r].ran
      /\ v.index = job[r].index /\ v.canceling = job[r].canceling
  BY <1>3, <1>4 DEF Job
<1>6. job' = [job EXCEPT ![r] = v] /\ job'[r] = v
  BY <1>2, <1>3 DEF Begin, Base, TypeOK
<1>7. Kept /\ records'[r] # Absent /\ StoreTyped
  BY <1>1, FreshRecordType, WriteEffect DEF Stores
<1>8. JobInv(r)
  BY <1>2 DEF Base
<1>9. JobInv(r)'
  BY <1>1, <1>2, <1>5, <1>6, <1>7, <1>8 DEF JobInv, control
<1>10. RestTyped /\ UNCHANGED <<tasks, paused>>
  BY <1>1, RestUnchanged DEF control
<1> QED  BY <1>1, <1>2, <1>5, <1>6, <1>7, <1>9, <1>10, StepKeeps

LEMMA OversBase ==
    ASSUME Base, NEW r \in Runs, BeginRaises(r) \/ NeverRan(r)
    PROVE  Base'
<1>1. /\ turn = None /\ turn' = None /\ job[r] # Absent /\ job' = Finished(r)
      /\ UNCHANGED <<known, control, approvals, crashes, cancels, reached>>
      /\ cut' \in {cut, cut \union {r}}
      /\ UNCHANGED store \/ RecordRaises(r, FreshRecord)
  BY DEF BeginRaises, CanBegin, NeverRan, At, history, BeginRecord
<1>2. RestTyped
  BY <1>1 DEF RestTyped, Base, TypeOK, approvals, cancels
<1>3. StoreTyped /\ Kept /\ UNCHANGED <<tasks, paused>>
  BY <1>1, StoreUnchanged, FreshRecordType, WriteEffect DEF control
<1>4. r \in Jobs
  BY RunsAreJobs
<1> QED  BY <1>1, <1>2, <1>3, <1>4, GoneKeeps

LEMMA CleanupBase ==
    ASSUME Base, NEW r \in Runs, Cleanup(r)
    PROVE  Base'
<1>1. /\ turn = None /\ turn' = None
      /\ tasks' = tasks \ {r} /\ paused' = paused \ {r}
      /\ job' = [job EXCEPT ![r] = Absent]
      /\ UNCHANGED <<known, store, approvals, crashes, history>>
  BY DEF Cleanup, Woken
<1>2. r \in Jobs /\ job'[r] = Absent
  BY <1>1, RunsAreJobs DEF Base, TypeOK
<1>3. StoreTyped /\ Kept /\ RestTyped
  BY <1>1, StoreUnchanged, RestUnchanged
<1>4. \A k \in Jobs : JobInv(k)'
  <2>1. \A k \in Jobs \ {r} : JobInv(k)'
    BY <1>1, <1>2, <1>3, Others
  <2>2. JobInv(r)'
    BY <1>2 DEF JobInv
  <2> QED  BY <2>1, <2>2
<1>5. TypeOK'
  BY <1>1, <1>3 DEF RestTyped, StoreTyped, Base, TypeOK
<1>6. Managed'
  BY <1>1, <1>2 DEF Base, Managed, Jobs, TypeOK
<1> QED  BY <1>4, <1>5, <1>6 DEF Base

\* An API call begins an execution of its own.
LEMMA CallKeeps ==
    ASSUME Base, NEW c \in Callers, NEW r \in Runs, NEW g \in Grant \union {None},
           turn = None, turn' = c, job[c] = Absent, Recorded(r, FreshRecord),
           job' = [job EXCEPT ![c] = NewJob(r, "loop", g)],
           UNCHANGED <<tasks, paused>>, RestTyped
    PROVE  Base'
<1>1. PICK v : v = NewJob(r, "loop", g)
  OBVIOUS
<1>2. v \in Job /\ v # Absent
  BY <1>1, NewJobType
<1>3. v.run = r /\ v.pc = "loop" /\ v.ran = {} /\ v.index = 1 /\ v.canceling = FALSE
  BY <1>1 DEF NewJob
<1>4. c \in Jobs /\ c \notin Runs /\ c # None
  BY CallersAreJobs
<1>5. job' = [job EXCEPT ![c] = v] /\ job'[c] = v
  BY <1>1, <1>4 DEF Base, TypeOK
<1>6. Kept /\ records'[r] # Absent /\ StoreTyped
  BY FreshRecordType, WriteEffect DEF Stores
<1>7. \A k \in Jobs : JobInv(k)'
  <2>1. \A k \in Jobs \ {c} : JobInv(k)'
    BY <1>4, <1>5, <1>6, Others
  <2>2. JobInv(c)'
    BY <1>3, <1>4, <1>5, <1>6 DEF JobInv
  <2> QED  BY <2>1, <2>2
<1>8. TypeOK'
  BY <1>2, <1>4, <1>5, <1>6 DEF RestTyped, StoreTyped, Base, TypeOK
<1>9. Managed'
  BY <1>2, <1>4, <1>5 DEF Base, Managed, Jobs, TypeOK
<1> QED  BY <1>7, <1>8, <1>9 DEF Base

LEMMA CallsBase ==
    ASSUME Base, NEW c \in Callers, NEW r \in Runs,
           RunSync(c, r) \/ \E a \in Approvals : ResumeApproved(c, r, a)
    PROVE  Base'
<1>1. CASE RunSync(c, r)
  <2>1. RestTyped /\ UNCHANGED <<tasks, paused>>
    BY <1>1, RestUnchanged DEF RunSync, control
  <2> QED  BY <1>1, <2>1, CallKeeps DEF RunSync, CanStart
<1>2. ASSUME NEW a \in Approvals, ResumeApproved(c, r, a) PROVE Base'
  <2>1. records[r] \in Record
    BY <1>2 DEF ResumeApproved, CanResume, Base, TypeOK
  <2>2. GrantFor(r, a) \in Grant \union {None}
    BY <2>1 DEF GrantFor, Grant, Record
  <2>3. RestTyped /\ UNCHANGED <<tasks, paused>>
    BY <1>2 DEF ResumeApproved, control, approvals, RestTyped, Base, TypeOK
  <2> QED  BY <1>2, <2>2, <2>3, CallKeeps DEF ResumeApproved, CanResume, BeginRecord
<1> QED  BY <1>1, <1>2

LEMMA RaisesBase ==
    ASSUME Base, NEW r \in Runs, StartRaises(r) \/ \E a \in Approvals : ResumeRaises(r, a)
    PROVE  Base'
<1>1. /\ RecordRaises(r, FreshRecord)
      /\ UNCHANGED <<known, control, job, turn, approvals, crashes, reached>>
      /\ canceled' \subseteq canceled /\ outlived' \subseteq outlived /\ cut' = cut \union {r}
  BY DEF StartRaises, ResumeRaises, BeginRecord, cancels
<1>2. StoreTyped /\ Kept
  BY <1>1, FreshRecordType, WriteEffect
<1>3. TypeOK'
  BY <1>1, <1>2 DEF Base, TypeOK, StoreTyped, control, approvals
<1>4. Managed' /\ \A k \in Jobs : JobInv(k)'
  BY <1>1, <1>2, JobTypes DEF Base, Managed, JobInv, Kept, control
<1> QED  BY <1>3, <1>4 DEF Base

(***************************************************************************)
(* A control call restates the record of a managed run, and leaves every   *)
(* execution where it is; a cancellation marks the task.                   *)
(***************************************************************************)
CancelsTask(r) ==
    \E v \in Job :
        /\ job' = [job EXCEPT ![r] = v] /\ v.canceling
        /\ v.run = job[r].run /\ v.pc = job[r].pc /\ v.index = job[r].index /\ v.ran = job[r].ran

Controls(r, rec) ==
    /\ r \in tasks /\ turn = None /\ turn' = None /\ rec \in Record
    /\ StoreTyped /\ RestTyped /\ Stores(r, rec)
    /\ rec.results = records[r].results /\ rec.cursor \in {records[r].cursor, records[r].results}
    /\ UNCHANGED <<tasks, cut, reached>>
    /\ \/ /\ rec.status \in {"running", "paused"} /\ ~Done(r)
          /\ paused' \subseteq paused \union {r}
          /\ Status(r) = "running" \/ r \in paused
          /\ UNCHANGED <<job, cancels>>
       \/ /\ rec.status = "canceled" /\ paused' = paused \ {r}
          /\ (Done(r) /\ UNCHANGED job) \/ (~Done(r) /\ CancelsTask(r))
          /\ \/ UNCHANGED cancels
             \/ /\ saved'[r] = rec /\ canceled' = canceled \union {r}
                /\ outlived' = IF CallerLive(r) THEN outlived \union {r} ELSE outlived \ {r}

\* The task that a control call finds.
LEMMA ManagedTask ==
    ASSUME Base, NEW r \in tasks
    PROVE  /\ r \in Runs /\ r \in Jobs /\ job[r] # Absent /\ job[r] \in Job /\ job[r].run = r
           /\ records[r] # Absent /\ records[r] \in Record /\ JobInv(r)
           /\ ~Done(r) => job[r].pc # "finished" /\ Live(r)
<1>1. r \in Runs /\ r \in Jobs /\ job[r] # Absent
  BY RunsAreJobs DEF Base, TypeOK, Managed
<1>2. job[r] \in Job /\ JobInv(r)
  BY <1>1, JobTypes
<1>3. job[r].run = r /\ records[r] # Absent
  BY <1>1, <1>2 DEF JobInv
<1>4. records[r] \in Record
  BY <1>1, <1>3 DEF Base, TypeOK
<1> QED  BY <1>1, <1>2, <1>3, <1>4 DEF Done, At, Live

LEMMA CancelingMarks ==
    ASSUME Base, NEW r \in tasks, job' = [job EXCEPT ![r].canceling = TRUE]
    PROVE  CancelsTask(r)
<1> DEFINE v == [job[r] EXCEPT !.canceling = TRUE]
<1>1. job[r] \in Job
  BY ManagedTask
<1>2. v \in Job /\ job' = [job EXCEPT ![r] = v]
  BY <1>1 DEF Job
<1>3. /\ v.canceling /\ v.run = job[r].run /\ v.pc = job[r].pc /\ v.index = job[r].index
      /\ v.ran = job[r].ran
  BY <1>1 DEF Job
<1> QED  BY <1>2, <1>3 DEF CancelsTask

LEMMA ControlShape ==
    ASSUME Base, NEW r \in Runs, Control(r)
    PROVE  \E rec : Controls(r, rec)
<1> USE DEF Statuses, Ended
<1>0. r \in tasks
  BY DEF Control, Pause, Resume, Cancel, CancelRaises, CancelTask, Active
<1>1. /\ records[r] # Absent /\ records[r] \in Record /\ records[r].results \in 0..NodeCount
      /\ 0 \in 0..NodeCount
  BY <1>0, ManagedTask, RuntimeAssumption DEF Record
<1>2. CASE Pause(r)
  <2>1. PICK rec : rec = [records[r] EXCEPT !.status = "paused", !.cursor = PauseCursor(r)]
    OBVIOUS
  <2>2. /\ rec \in Record /\ rec.status = "paused" /\ rec.results = records[r].results
        /\ rec.cursor \in {records[r].cursor, records[r].results}
    BY <1>1, <2>1 DEF PauseCursor, Record
  <2>3. StoreTyped /\ Stores(r, rec)
    BY <1>2, <2>1, <2>2, WriteEffect DEF Pause
  <2>4. RestTyped
    BY <1>2, RestUnchanged DEF Pause
  <2>5. /\ turn = None /\ turn' = None /\ ~Done(r) /\ paused' = paused \union {r}
        /\ UNCHANGED <<tasks, cut, reached, job, cancels>> /\ Status(r) = "running"
    BY <1>2 DEF Pause, history, Active
  <2>6. Controls(r, rec)
    BY <1>0, <2>2, <2>3, <2>4, <2>5 DEF Controls
  <2> QED  BY <2>6
<1>3. CASE Resume(r)
  <2>1. PICK rec : rec = [records[r] EXCEPT !.status = "running"]
    OBVIOUS
  <2>2. /\ rec \in Record /\ rec.status = "running" /\ rec.results = records[r].results
        /\ rec.cursor = records[r].cursor
    BY <1>1, <2>1 DEF Record
  <2>3. StoreTyped /\ Stores(r, rec)
    BY <1>3, <2>1, <2>2, WriteEffect DEF Resume
  <2>4. RestTyped
    BY <1>3, RestUnchanged DEF Resume
  <2>5. /\ turn = None /\ turn' = None /\ ~Done(r) /\ paused' = paused \ {r}
        /\ UNCHANGED <<tasks, cut, reached, job, cancels>> /\ r \in paused
    BY <1>3 DEF Resume, history
  <2>6. Controls(r, rec)
    BY <1>0, <2>2, <2>3, <2>4, <2>5 DEF Controls
  <2> QED  BY <2>6
<1>4. CASE Cancel(r) \/ CancelRaises(r)
  <2>1. PICK rec : rec = CanceledRecord(r)
    OBVIOUS
  <2>2. /\ rec \in Record /\ rec.status = "canceled" /\ rec.results = records[r].results
        /\ rec.cursor = records[r].cursor
    BY <1>1, <2>1 DEF CanceledRecord, Record
  <2>3. StoreTyped /\ Stores(r, rec) /\ (Recorded(r, rec) => saved'[r] = rec)
    BY <1>4, <2>1, <2>2, WriteEffect DEF Cancel, CancelRaises
  <2>4. /\ turn = None /\ turn' = None /\ paused' = paused \ {r}
        /\ job' = (IF Done(r) THEN job ELSE [job EXCEPT ![r].canceling = TRUE])
        /\ UNCHANGED <<known, tasks, approvals, crashes, cut, reached>>
    BY <1>4 DEF Cancel, CancelRaises, CancelTask
  <2>5. \/ UNCHANGED cancels
        \/ /\ Recorded(r, rec) /\ canceled' = canceled \union {r}
           /\ outlived' = IF CallerLive(r) THEN outlived \union {r} ELSE outlived \ {r}
    BY <1>4, <2>1 DEF Cancel, CancelRaises
  <2>6. RestTyped
    BY <2>4, <2>5 DEF RestTyped, Base, TypeOK, approvals, cancels
  <2>7. (Done(r) /\ UNCHANGED job) \/ (~Done(r) /\ CancelsTask(r))
    BY <1>0, <2>4, CancelingMarks
  <2>8. Controls(r, rec)
    BY <1>0, <2>2, <2>3, <2>4, <2>5, <2>6, <2>7 DEF Controls
  <2> QED  BY <2>8
<1> QED  BY <1>2, <1>3, <1>4 DEF Control

\* Where the executions are after a control call.
LEMMA ControlPlaces ==
    ASSUME Base, NEW r \in Runs, NEW rec, Controls(r, rec)
    PROVE  /\ job' \in [Jobs -> Job \union {Absent}] /\ r \in Jobs
           /\ \A k \in Jobs \ {r} : job'[k] = job[k]
           /\ job'[r] # Absent /\ job'[r].run = job[r].run /\ job'[r].pc = job[r].pc
           /\ job'[r].index = job[r].index /\ job'[r].ran = job[r].ran
           /\ \/ job'[r] = job[r]
              \/ job'[r].canceling /\ job[r].pc # "finished" /\ rec.status = "canceled"
<1>1. r \in tasks /\ job \in [Jobs -> Job \union {Absent}]
  BY DEF Controls, Base, TypeOK
<1>2. r \in Jobs /\ job[r] # Absent /\ (~Done(r) => job[r].pc # "finished")
  BY <1>1, ManagedTask
<1>3. CASE job' = job
  BY <1>1, <1>2, <1>3
<1>4. CASE ~Done(r) /\ CancelsTask(r) /\ rec.status = "canceled"
  BY <1>1, <1>2, <1>4, SentinelAssumption DEF CancelsTask
<1> QED  BY <1>3, <1>4 DEF Controls

LEMMA ControlBase ==
    ASSUME Base, NEW r \in Runs, NEW rec, Controls(r, rec)
    PROVE  Base'
<1>1. /\ job' \in [Jobs -> Job \union {Absent}]
      /\ \A k \in Jobs \ {r} : job'[k] = job[k]
      /\ job'[r] # Absent /\ job'[r].run = job[r].run /\ job'[r].pc = job[r].pc
      /\ job'[r].index = job[r].index /\ job'[r].ran = job[r].ran
  BY ControlPlaces
<1>2. /\ job[r] # Absent /\ JobInv(r) /\ r \in Jobs /\ r \in tasks
  BY ManagedTask DEF Controls
<1>3. /\ turn = None /\ turn' = None /\ UNCHANGED tasks /\ paused' \subseteq tasks
      /\ StoreTyped /\ RestTyped /\ Stores(r, rec) /\ rec # Absent
  <2>1. paused \subseteq tasks
    BY DEF Base, Managed
  <2> QED  BY <1>2, <2>1, SentinelAssumption DEF Controls
<1>4. Kept /\ \A j \in Jobs : turn # j /\ turn' # j
  BY <1>3, SentinelAssumption DEF Stores, Kept
<1>5. \A j \in Jobs : JobInv(j) /\ (job[j] # Absent => job[j].run \in Runs)
  BY JobTypes DEF Base
<1>6. ASSUME NEW j \in Jobs PROVE JobInv(j)'
  <2>1. CASE j = r
    BY <1>1, <1>2, <1>3, <1>4, <1>5, <2>1, RunsAreJobs DEF JobInv, Kept
  <2>2. CASE j # r
    <3>1. job'[j] = job[j] /\ (j \in paused' => j \in paused \/ j = r)
      BY <1>1, <2>2 DEF Controls
    <3>2. job[j] # Absent => job[j].pc \notin {"loop", "go"}
      BY <1>4, <1>5 DEF JobInv
    <3> QED  BY <1>4, <1>5, <3>1, <3>2 DEF JobInv, Kept
  <2> QED  BY <2>1, <2>2
<1>7. TypeOK'
  BY <1>1, <1>3 DEF Base, TypeOK, RestTyped, StoreTyped
<1>8. Managed'
  <2>1. \A q \in Runs : q \in tasks' <=> job'[q] # Absent
    BY <1>1, <1>2, <1>3, RunsAreJobs DEF Base, Managed
  <2> QED  BY <1>3, <2>1 DEF Managed
<1> QED  BY <1>6, <1>7, <1>8 DEF Base

\* What people and the deletion of the definition change is outside of Base.
LEMMA OutsideBase ==
    ASSUME Base, (\E a \in Approvals : Approve(a) \/ Reject(a)) \/ Delete
    PROVE  Base'
<1>1. /\ UNCHANGED <<store, control, job, turn, crashes, history>>
      /\ known' \in BOOLEAN /\ asked' \subseteq Approvals /\ approved' \subseteq Approvals
  BY DEF Approve, Reject, Delete, Base, TypeOK, approvals
<1>2. UNCHANGED <<records, saved, failures, tasks, paused, canceled, outlived, cut, reached>>
  BY <1>1 DEF control, store, history, cancels
<1> QED  BY <1>1, <1>2 DEF Base, TypeOK, Managed, JobInv

LEMMA CrashBase ==
    ASSUME Base, Crash
    PROVE  Base'
<1>1. TypeOK'
  BY RuntimeAssumption DEF Crash, Base, TypeOK, approvals, cancels
<1>2. job' = [j \in Jobs |-> Absent] /\ tasks' = {} /\ paused' = {} /\ turn' = None
  BY DEF Crash
<1>3. Managed'
  BY <1>2, RunsAreJobs DEF Managed
<1> QED  BY <1>1, <1>2, <1>3 DEF Base, JobInv

LEMMA InitBase == Init => Base
<1> SUFFICES ASSUME Init PROVE Base
  OBVIOUS
<1>1. TypeOK
  BY RuntimeAssumption DEF Init, TypeOK
<1>2. Managed
  BY RunsAreJobs DEF Init, Managed
<1> QED  BY <1>1, <1>2 DEF Base, Init, JobInv

LEMMA ExecuteBase ==
    ASSUME Base, NEW j \in Jobs, Execute(j)
    PROVE  Base'
BY ExecuteShape, MovesOnBase, EndsWithBase

LEMMA NextBase == Base /\ [Next]_vars => Base'
<1> SUFFICES ASSUME Base, [Next]_vars PROVE Base'
  OBVIOUS
<1>1. CASE UNCHANGED vars
  BY <1>1 DEF vars, store, control, approvals, history, cancels, Base, TypeOK, Managed, JobInv
<1>2. ASSUME NEW r \in Runs, Control(r) PROVE Base'
  BY <1>2, ControlShape, ControlBase
<1>3. CASE Next
  BY <1>2, <1>3, StartBase, BeginBase, OversBase, CleanupBase, CallsBase, RaisesBase,
     ExecuteBase, OutsideBase, CrashBase DEF Next, Manage
<1> QED  BY <1>1, <1>3

LEMMA BaseHolds == Spec => []Base
BY InitBase, NextBase, PTL DEF Spec

\* The types of the records, the executions and the manager's sets, for every
\* workflow, number of runs and callers, number of attempts, failures and crashes.
THEOREM TypeCorrect == Spec => []TypeOK
<1>1. Base => TypeOK
  BY DEF Base
<1> QED  BY <1>1, BaseHolds, PTL

-----------------------------------------------------------------------------
(***************************************************************************)
(* What the other shapes of a step leave behind.                           *)
(***************************************************************************)

\* The execution of a managed run is over, or it is a call and gone.
OverAt(j) ==
    job'[j] # Absent =>
        /\ job'[j].pc = "finished" /\ job'[j].ran = {} /\ ~job'[j].canceling
        /\ job'[j].run = job[j].run /\ j \in Runs

LEMMA FinishedJob ==
    ASSUME Base, NEW r \in Runs, job[r] # Absent,
           job' = Finished(r) \/ job' = [job EXCEPT ![r] = Absent]
    PROVE  OverAt(r) /\ job[r].run = r /\ \A k \in Jobs \ {r} : job'[k] = job[k]
<1>1. PICK v : v = NewJob(r, "finished", None)
  OBVIOUS
<1>2. v.run = r /\ v.pc = "finished" /\ v.ran = {} /\ ~v.canceling
  BY <1>1 DEF NewJob
<1>3. r \in Jobs /\ job[r].run = r
  BY RunsAreJobs DEF Base, JobInv
<1>4. CASE job' = Finished(r)
  <2>1. job' = [job EXCEPT ![r] = v]
    BY <1>1, <1>4 DEF Finished
  <2> QED  BY <1>2, <1>3, <2>1 DEF OverAt, Base, TypeOK
<1>5. CASE job' = [job EXCEPT ![r] = Absent]
  BY <1>3, <1>5 DEF OverAt, Base, TypeOK
<1> QED  BY <1>4, <1>5

LEMMA EndEffect ==
    ASSUME Base, NEW j \in Jobs, NEW rec, NEW d, EndsWith(j, rec, d)
    PROVE  /\ job[j].run \in Runs /\ rec # Absent
           /\ records'[job[j].run] = rec
           /\ \A q \in Runs \ {job[j].run} : records'[q] = records[q]
           /\ \A k \in Jobs \ {j} : job'[k] = job[k]
           /\ OverAt(j)
           /\ UNCHANGED <<paused, canceled, outlived, cut>>
<1>1. job[j] # Absent /\ job[j].run \in Runs
  BY JobTypes DEF EndsWith
<1>2. records'[job[j].run] = rec /\ \A q \in Runs \ {job[j].run} : records'[q] = records[q]
  BY <1>1 DEF EndsWith, Base, TypeOK
<1>3. /\ job' = IF j \in Runs THEN Finished(j) ELSE [job EXCEPT ![j] = Absent]
      /\ UNCHANGED <<control, cancels, cut>>
  BY DEF EndsWith, Leave
<1>4. (\A k \in Jobs \ {j} : job'[k] = job[k]) /\ OverAt(j)
  <2>1. CASE j \in Runs
    BY <1>1, <1>3, <2>1, FinishedJob
  <2>2. CASE j \notin Runs
    BY <1>3, <2>2 DEF OverAt, Base, TypeOK
  <2> QED  BY <2>1, <2>2
<1>5. rec # Absent
  BY SentinelAssumption DEF EndsWith
<1> QED  BY <1>1, <1>2, <1>3, <1>4, <1>5 DEF control, cancels

\* An execution j of run r begins with a fresh record.
BeginsWith(j, r) ==
    /\ j \in Jobs /\ (j \in Runs => j = r) /\ job'[j] # Absent
    /\ job'[j].run = r /\ job'[j].pc \in {"created", "loop"} /\ job'[j].index = 1
    /\ job'[j].ran = {} /\ ~job'[j].canceling
    /\ \A k \in Jobs \ {j} : job'[k] = job[k]
    /\ records' = [records EXCEPT ![r] = FreshRecord]
    /\ saved' = [saved EXCEPT ![r] = FreshRecord]
    /\ UNCHANGED paused
    /\ \/ /\ records[r] = Absent /\ job[j] = Absent /\ UNCHANGED history
          /\ job'[j].pc = "created" => j = r
       \/ /\ j = r /\ At(r, "created") /\ ~job[r].canceling /\ job'[j].pc = "loop"
          /\ UNCHANGED history
       \/ /\ records[r] # Absent /\ job[j] = Absent /\ ~At(r, "created") /\ job'[j].pc = "loop"
          /\ canceled' = canceled \ {r} /\ outlived' = outlived \ {r} /\ cut' = cut \ {r}
          /\ \A q \in Runs : reached'[q] = reached[q] \/ (q = r /\ ~Live(r))

LEMMA BeginShape ==
    ASSUME Base, NEW r \in Runs,
           \/ Start(r) \/ Begin(r)
           \/ \E c \in Callers : RunSync(c, r) \/ \E a \in Approvals : ResumeApproved(c, r, a)
    PROVE  \E j \in Jobs : BeginsWith(j, r)
<1>0. r \in Jobs /\ job \in [Jobs -> Job \union {Absent}] /\ reached \in [Runs -> SUBSET Nodes]
  BY RunsAreJobs DEF Base, TypeOK
<1>1. CASE Start(r)
  <2>1. PICK v : v = NewJob(r, "created", None)
    OBVIOUS
  <2>2. v # Absent
    BY <2>1, NewJobType
  <2>3. v.run = r /\ v.pc = "created" /\ ~v.canceling /\ v.index = 1 /\ v.ran = {}
    BY <2>1 DEF NewJob
  <2>4. records[r] = Absent /\ job[r] = Absent
    BY <1>0, <1>1 DEF Start, CanStart, Base, JobInv
  <2>5. BeginsWith(r, r)
    BY <1>0, <1>1, <2>1, <2>2, <2>3, <2>4 DEF BeginsWith, Start, Recorded, FreshRecord
  <2> QED  BY <1>0, <2>5
<1>2. CASE Begin(r)
  <2>1. /\ job[r] # Absent /\ job[r].pc = "created" /\ ~job[r].canceling /\ At(r, "created")
        /\ job' = [job EXCEPT ![r].pc = "loop"] /\ Recorded(r, FreshRecord)
        /\ UNCHANGED <<control, history>>
    BY <1>2 DEF Begin, CanBegin, At, BeginRecord
  <2>2. job[r] \in Job /\ job[r].run = r
    BY <1>0, <2>1, JobTypes DEF JobInv
  <2>3. job[r].index = 1 /\ job[r].ran = {}
    BY <1>0, <2>1, ExecutingJob DEF JobInv
  <2>4. /\ job'[r] # Absent /\ job'[r].run = r /\ job'[r].pc = "loop" /\ job'[r].index = 1
        /\ job'[r].ran = {} /\ ~job'[r].canceling
        /\ \A k \in Jobs \ {r} : job'[k] = job[k]
    <3>1. PICK v : v = [job[r] EXCEPT !.pc = "loop"]
      OBVIOUS
    <3>2. /\ v \in Job /\ v.run = job[r].run /\ v.pc = "loop" /\ v.index = job[r].index
          /\ v.ran = job[r].ran /\ v.canceling = job[r].canceling
      BY <2>2, <3>1 DEF Job
    <3>3. job' = [job EXCEPT ![r] = v]
      BY <1>0, <2>1, <3>1
    <3> QED  BY <1>0, <2>1, <2>2, <2>3, <3>2, <3>3, SentinelAssumption
  <2>5. BeginsWith(r, r)
    BY <1>0, <2>1, <2>4 DEF BeginsWith, Recorded, control
  <2> QED  BY <1>0, <2>5
<1>3. ASSUME NEW c \in Callers, NEW g \in Grant \union {None}, job[c] = Absent,
             job' = [job EXCEPT ![c] = NewJob(r, "loop", g)]
      PROVE  /\ c \in Jobs /\ c \notin Runs /\ job'[c] # Absent
             /\ job'[c].run = r /\ job'[c].pc = "loop" /\ job'[c].index = 1
             /\ job'[c].ran = {} /\ ~job'[c].canceling
             /\ \A k \in Jobs \ {c} : job'[k] = job[k]
  <2>1. PICK v : v = NewJob(r, "loop", g)
    OBVIOUS
  <2>2. v # Absent
    BY <2>1, NewJobType
  <2>3. v.run = r /\ v.pc = "loop" /\ ~v.canceling /\ v.index = 1 /\ v.ran = {}
    BY <2>1 DEF NewJob
  <2>4. c \in Jobs /\ c \notin Runs /\ job' = [job EXCEPT ![c] = v]
    BY <1>3, <2>1, CallersAreJobs
  <2> QED  BY <1>0, <2>2, <2>3, <2>4
<1>4. ASSUME NEW c \in Callers, RunSync(c, r) PROVE \E j \in Jobs : BeginsWith(j, r)
  <2>1. /\ records[r] = Absent /\ job[c] = Absent /\ Recorded(r, FreshRecord)
        /\ UNCHANGED <<control, history>>
        /\ job' = [job EXCEPT ![c] = NewJob(r, "loop", None)] /\ None \in Grant \union {None}
    BY <1>4 DEF RunSync, CanStart
  <2>2. BeginsWith(c, r)
    BY <1>3, <2>1 DEF BeginsWith, Recorded, control
  <2> QED  BY <2>2 DEF BeginsWith
<1>5. ASSUME NEW c \in Callers, NEW a \in Approvals, ResumeApproved(c, r, a)
      PROVE  \E j \in Jobs : BeginsWith(j, r)
  <2>1. /\ records[r] # Absent /\ ~At(r, "created") /\ job[c] = Absent
        /\ Recorded(r, FreshRecord) /\ UNCHANGED control
        /\ job' = [job EXCEPT ![c] = NewJob(r, "loop", GrantFor(r, a))]
        /\ canceled' = canceled \ {r} /\ outlived' = outlived \ {r} /\ cut' = cut \ {r}
        /\ reached' = [reached EXCEPT ![r] = IF Live(r) THEN @ ELSE {}]
    BY <1>5 DEF ResumeApproved, CanResume, BeginRecord
  <2>2. records[r] \in Record
    BY <2>1 DEF Base, TypeOK
  <2>3. GrantFor(r, a) \in Grant \union {None}
    BY <2>2 DEF GrantFor, Grant, Record
  <2>4. \A q \in Runs : reached'[q] = reached[q] \/ (q = r /\ ~Live(r))
    <3>1. ASSUME NEW q \in Runs, q # r PROVE reached'[q] = reached[q]
      BY <1>0, <2>1, <3>1
    <3>2. Live(r) => reached'[r] = reached[r]
      BY <1>0, <2>1
    <3> QED  BY <3>1, <3>2
  <2>5. /\ c \in Jobs /\ c \notin Runs /\ job'[c] # Absent
        /\ job'[c].run = r /\ job'[c].pc = "loop" /\ job'[c].index = 1
        /\ job'[c].ran = {} /\ ~job'[c].canceling
        /\ \A k \in Jobs \ {c} : job'[k] = job[k]
    BY <1>3, <2>1, <2>3
  <2>6. BeginsWith(c, r)
    BY <2>1, <2>4, <2>5 DEF BeginsWith, Recorded, control
  <2> QED  BY <2>5, <2>6
<1> QED  BY <1>1, <1>2, <1>4, <1>5

\* Executions begin, but the first record raises: nothing executes the run.
BeginsNot(r) ==
    /\ records[r] = Absent \/ ~At(r, "created")
    /\ records' = [records EXCEPT ![r] = FreshRecord]
    /\ saved' \in {saved, [saved EXCEPT ![r] = FreshRecord]}
    /\ cut' = cut \union {r}
    /\ UNCHANGED <<job, paused, reached>>
    /\ \/ records[r] = Absent /\ UNCHANGED cancels
       \/ canceled' = canceled \ {r} /\ outlived' = outlived \ {r}

LEMMA RaisesShape ==
    ASSUME Base, NEW r \in Runs, StartRaises(r) \/ \E a \in Approvals : ResumeRaises(r, a)
    PROVE  BeginsNot(r)
BY DEF StartRaises, ResumeRaises, CanStart, CanResume, RecordRaises, BeginRecord, BeginsNot,
   control

\* A managed task that ends without a record of its own, or is cleaned up.
Over(r) ==
    /\ job[r] # Absent /\ OverAt(r) /\ job[r].run = r /\ \A k \in Jobs \ {r} : job'[k] = job[k]
    /\ paused' \subseteq paused
    /\ UNCHANGED <<canceled, outlived, reached>>
    /\ \/ /\ UNCHANGED <<records, saved, cut>>
          /\ At(r, "finished") \/ (At(r, "created") /\ job[r].canceling)
       \/ /\ At(r, "created") /\ ~job[r].canceling /\ cut' = cut \union {r}
          /\ \/ UNCHANGED <<records, saved>>
             \/ /\ records' = [records EXCEPT ![r] = FreshRecord]
                /\ saved' \in {saved, [saved EXCEPT ![r] = FreshRecord]}

LEMMA OverShape ==
    ASSUME Base, NEW r \in Runs, BeginRaises(r) \/ NeverRan(r) \/ Cleanup(r)
    PROVE  Over(r)
<1>1. job[r] # Absent /\ (job' = Finished(r) \/ job' = [job EXCEPT ![r] = Absent])
  BY DEF BeginRaises, CanBegin, NeverRan, Cleanup, Woken, At
<1>2. OverAt(r) /\ job[r].run = r /\ \A k \in Jobs \ {r} : job'[k] = job[k]
  BY <1>1, FinishedJob
<1>3. CASE BeginRaises(r)
  <2>1. /\ At(r, "created") /\ ~job[r].canceling /\ cut' = cut \union {r}
        /\ UNCHANGED <<paused, canceled, outlived, reached>>
    BY <1>3 DEF BeginRaises, CanBegin, control, cancels
  <2>2. \/ UNCHANGED <<records, saved>>
        \/ /\ records' = [records EXCEPT ![r] = FreshRecord]
           /\ saved' \in {saved, [saved EXCEPT ![r] = FreshRecord]}
    BY <1>3 DEF BeginRaises, RecordRaises, BeginRecord, store
  <2> QED  BY <1>1, <1>2, <2>1, <2>2 DEF Over
<1>4. CASE NeverRan(r) \/ Cleanup(r)
  <2>1. /\ At(r, "finished") \/ (At(r, "created") /\ job[r].canceling)
        /\ UNCHANGED <<records, saved, cut, canceled, outlived, reached>>
        /\ paused' \subseteq paused
    <3>1. CASE NeverRan(r)
      BY <3>1 DEF NeverRan, control, store, history, cancels
    <3>2. CASE Cleanup(r)
      <4>1. At(r, "finished")
        BY <3>2 DEF Cleanup, Woken
      <4>2. paused' = paused \ {r} /\ UNCHANGED <<store, history>>
        BY <3>2 DEF Cleanup
      <4> QED  BY <4>1, <4>2 DEF store, history, cancels
    <3> QED  BY <1>4, <3>1, <3>2
  <2> QED  BY <1>1, <1>2, <2>1 DEF Over
<1> QED  BY <1>3, <1>4

\* What neither executions nor the records of runs see.
LEMMA OutsideUnchanged ==
    ASSUME UNCHANGED vars \/ Delete \/ \E a \in Approvals : Approve(a) \/ Reject(a)
    PROVE  UNCHANGED <<records, saved, job, paused, canceled, outlived, cut, reached>>
BY DEF vars, Delete, Approve, Reject, store, control, history, cancels

-----------------------------------------------------------------------------
(***************************************************************************)
(* A paused run begins no node.                                            *)
(***************************************************************************)
LEMMA PausedNext ==
    ASSUME Base, Next
    PROVE  \A r \in paused : Begun(r)' \subseteq Begun(r)
<1> SUFFICES ASSUME NEW r \in paused PROVE Begun(r)' \subseteq Begun(r)
  OBVIOUS
<1>1. r \in tasks
  BY DEF Base, Managed
<1>2. r \in Runs /\ r \in Jobs /\ job[r] # Absent /\ records[r] # Absent
  BY <1>1, ManagedTask
<1>3. ASSUME job'[r] = job[r] PROVE Begun(r)' \subseteq Begun(r)
  BY <1>3 DEF Begun
<1>4. ASSUME OverAt(r) PROVE Begun(r)' \subseteq Begun(r)
  BY <1>4 DEF Begun, OverAt
<1>5. ASSUME NEW q \in Runs,
             \/ Start(q) \/ Begin(q)
             \/ \E c \in Callers : RunSync(c, q) \/ \E a \in Approvals : ResumeApproved(c, q, a)
      PROVE  Begun(r)' \subseteq Begun(r)
  <2>1. PICK j \in Jobs : BeginsWith(j, q)
    BY <1>5, BeginShape
  <2>2. CASE j = r
    BY <2>1, <2>2 DEF BeginsWith, Begun
  <2> QED  BY <1>2, <1>3, <2>1, <2>2 DEF BeginsWith
<1>6. ASSUME NEW j \in Jobs, Execute(j) PROVE Begun(r)' \subseteq Begun(r)
  <2>1. ASSUME NEW v, NEW d, MovesOn(j, v, d) PROVE Begun(r)' \subseteq Begun(r)
    <3>1. job'[j] = v /\ \A k \in Jobs \ {j} : job'[k] = job[k]
      BY <2>1 DEF MovesOn, Base, TypeOK
    <3>2. CASE j = r
      BY <1>2, <2>1, <3>1, <3>2 DEF MovesOn, Begun
    <3> QED  BY <1>2, <1>3, <3>1, <3>2
  <2>2. ASSUME NEW rec, NEW d, EndsWith(j, rec, d) PROVE Begun(r)' \subseteq Begun(r)
    <3>1. OverAt(j) /\ \A k \in Jobs \ {j} : job'[k] = job[k]
      BY <2>2, EndEffect
    <3> QED  BY <1>2, <1>3, <1>4, <3>1
  <2> QED  BY <1>6, <2>1, <2>2, ExecuteShape
<1>7. ASSUME NEW q \in Runs, BeginRaises(q) \/ NeverRan(q) \/ Cleanup(q)
      PROVE  Begun(r)' \subseteq Begun(r)
  <2>1. Over(q)
    BY <1>7, OverShape
  <2> QED  BY <1>2, <1>3, <1>4, <2>1 DEF Over
<1>8. ASSUME NEW q \in Runs, StartRaises(q) \/ \E a \in Approvals : ResumeRaises(q, a)
      PROVE  Begun(r)' \subseteq Begun(r)
  BY <1>3, <1>8, RaisesShape DEF BeginsNot
<1>9. ASSUME NEW q \in Runs, Control(q) PROVE Begun(r)' \subseteq Begun(r)
  <2>1. PICK rec : Controls(q, rec)
    BY <1>9, ControlShape
  <2>2. CASE q = r
    <3>1. /\ job'[r] # Absent /\ job'[r].pc = job[r].pc
          /\ job'[r].index = job[r].index /\ job'[r].ran = job[r].ran
      BY <2>1, <2>2, ControlPlaces
    <3> QED  BY <1>2, <3>1 DEF Begun
  <2>3. CASE q # r
    <3>1. job'[r] = job[r]
      BY <1>2, <2>1, <2>3, ControlPlaces
    <3> QED  BY <1>3, <3>1
  <2> QED  BY <2>2, <2>3
<1>10. CASE (\E a \in Approvals : Approve(a) \/ Reject(a)) \/ Delete
  BY <1>3, <1>10, OutsideUnchanged
<1>11. CASE Crash
  <2>1. job'[r] = Absent
    BY <1>2, <1>11 DEF Crash
  <2> QED  BY <2>1 DEF Begun
<1> QED  BY <1>5, <1>6, <1>7, <1>8, <1>9, <1>10, <1>11 DEF Next, Manage

\* While a run is in the manager's paused set its task begins no node, wherever the
\* pause finds it; for every workflow, and also when executions of a run overlap
\* and records cannot be written.
THEOREM PauseHolds == Spec => PausedBeginsNoNode
<1>1. Base /\ [Next]_vars => [\A r \in paused : Begun(r)' \subseteq Begun(r)]_vars
  BY PausedNext
<1> QED  BY <1>1, BaseHolds, PTL DEF Spec, PausedBeginsNoNode

-----------------------------------------------------------------------------
(***************************************************************************)
(* A run in progress has an execution.  A task that has not run yet is the *)
(* only execution of its run, and when it is canceled its record says so,  *)
(* for it will never record anything itself.                               *)
(***************************************************************************)
Waiting(r) ==
    At(r, "created") =>
        /\ ~CallerLive(r)
        /\ job[r].canceling => Status(r) = "canceled" /\ r \notin paused

LiveInv == InProgressIsLive /\ \A r \in Runs : Waiting(r)

Witness(r, k) == k \in Jobs /\ job[k] # Absent /\ job[k].run = r /\ job[k].pc # "finished"

\* The run has an execution when it is in progress, unless the step changed it.
LEMMA StillLive ==
    ASSUME LiveInv, NEW q \in Runs \ cut, Status(q) \in {"running", "paused"}
    PROVE  \E k : Witness(q, k)
BY DEF LiveInv, InProgressIsLive, Live, Witness

LEMMA MovesLive ==
    ASSUME Base, LiveInv, NEW j \in Jobs, NEW v, NEW d, MovesOn(j, v, d)
    PROVE  LiveInv'
<1>1. /\ job'[j] = v /\ v # Absent /\ \A k \in Jobs \ {j} : job'[k] = job[k]
      /\ UNCHANGED <<records, paused, cut>>
      /\ v.run = job[j].run /\ v.pc \notin {"created", "finished"} /\ job[j] # Absent
  BY SentinelAssumption DEF MovesOn, Base, TypeOK, store, control
<1>2. \A q \in Runs : Live(q) => Live(q)'
  BY <1>1 DEF Live
<1>3. \A q \in Runs : CallerLive(q)' => CallerLive(q)
  BY <1>1, CallersAreJobs DEF CallerLive
<1>4. InProgressIsLive'
  BY <1>1, <1>2 DEF LiveInv, InProgressIsLive, Status
<1>5. ASSUME NEW q \in Runs PROVE Waiting(q)'
  BY <1>1, <1>3, RunsAreJobs DEF LiveInv, Waiting, At, Status
<1> QED  BY <1>4, <1>5 DEF LiveInv

LEMMA EndsLive ==
    ASSUME Base, LiveInv, NEW j \in Jobs, NEW rec, NEW d, EndsWith(j, rec, d)
    PROVE  LiveInv'
<1>0. PICK r : r = job[j].run
  OBVIOUS
<1>1. /\ r \in Runs /\ rec # Absent
      /\ records'[r] = rec /\ \A q \in Runs \ {r} : records'[q] = records[q]
      /\ \A k \in Jobs \ {j} : job'[k] = job[k]
      /\ OverAt(j) /\ UNCHANGED <<paused, cut>>
  BY <1>0, EndEffect
<1>2. /\ job[j] # Absent /\ job[j].pc \notin {"created", "finished"} /\ JobInv(j)
      /\ rec.status \notin {"running", "paused"}
  BY ExecutingJob DEF EndsWith, Ended
<1>3. InProgressIsLive'
  <2> SUFFICES ASSUME NEW q \in Runs \ cut', Status(q)' \in {"running", "paused"}
               PROVE  Live(q)'
    BY DEF InProgressIsLive
  <2>1. q # r /\ q \notin cut /\ Status(q) \in {"running", "paused"}
    BY <1>1, <1>2 DEF Status
  <2>2. PICK k : Witness(q, k)
    BY <2>1, StillLive
  <2>3. k # j
    BY <1>0, <2>1, <2>2 DEF Witness
  <2> QED  BY <1>1, <2>2, <2>3 DEF Live, Witness
<1>4. \A q \in Runs : CallerLive(q)' => CallerLive(q)
  BY <1>1, <1>2, CallersAreJobs DEF CallerLive, OverAt
<1>5. ASSUME NEW q \in Runs PROVE Waiting(q)'
  <2> SUFFICES ASSUME At(q, "created")' PROVE Waiting(q)'
    BY DEF Waiting
  <2>1. q # j /\ job'[q] = job[q] /\ At(q, "created") /\ q \in Jobs
    BY <1>1, RunsAreJobs DEF At, OverAt
  <2>2. q # r
    <3>1. CASE q = r /\ j \in Callers
      BY <1>0, <1>2, <2>1, <3>1 DEF LiveInv, Waiting, CallerLive
    <3>2. CASE j \in Runs
      BY <1>0, <1>2, <2>1, <3>2 DEF JobInv
    <3> QED  BY <3>1, <3>2 DEF Jobs
  <2> QED  BY <1>1, <1>4, <2>1, <2>2 DEF LiveInv, Waiting, Status
<1> QED  BY <1>3, <1>5 DEF LiveInv

LEMMA BeginsLive ==
    ASSUME Base, LiveInv, NEW j \in Jobs, NEW r \in Runs, BeginsWith(j, r)
    PROVE  LiveInv'
<1>1. /\ job'[j] # Absent /\ job'[j].run = r /\ job'[j].pc \in {"created", "loop"}
      /\ ~job'[j].canceling
      /\ \A k \in Jobs \ {j} : job'[k] = job[k]
      /\ \A q \in Runs \ {r} : records'[q] = records[q]
      /\ UNCHANGED paused /\ cut \ {r} \subseteq cut'
      /\ job[j] = Absent \/ (j = r /\ At(r, "created"))
      /\ job'[j].pc = "created" => j = r /\ records[r] = Absent
      /\ records[r] = Absent \/ j = r \/ ~At(r, "created")
  BY DEF BeginsWith, Base, TypeOK, history
<1>2. \A k \in Jobs : job[k] # Absent => job[k].run \in Runs /\ records[job[k].run] # Absent
  BY JobTypes DEF JobInv
<1>3. job[j] # Absent => job[j].run = r
  BY <1>1 DEF Base, JobInv
<1>4. InProgressIsLive'
  <2> SUFFICES ASSUME NEW q \in Runs \ cut', Status(q)' \in {"running", "paused"}
               PROVE  Live(q)'
    BY DEF InProgressIsLive
  <2>1. CASE q = r
    BY <1>1, <2>1 DEF Live
  <2>2. CASE q # r
    <3>1. q \notin cut /\ Status(q) \in {"running", "paused"}
      BY <1>1, <2>2 DEF Status
    <3>2. PICK k : Witness(q, k)
      BY <3>1, StillLive
    <3>3. k # j
      BY <1>3, <2>2, <3>2 DEF Witness
    <3> QED  BY <1>1, <3>2, <3>3 DEF Live, Witness
  <2> QED  BY <2>1, <2>2
<1>5. ASSUME NEW q \in Runs \ {r} PROVE Waiting(q)'
  <2>1. CallerLive(q)' => CallerLive(q)
    BY <1>1, CallersAreJobs DEF CallerLive
  <2>2. q # j => job'[q] = job[q]
    BY <1>1, RunsAreJobs
  <2>3. q = j => job'[q].pc # "created"
    BY <1>1
  <2> QED  BY <1>1, <2>1, <2>2, <2>3 DEF LiveInv, Waiting, At, Status
<1>6. Waiting(r)'
  <2> SUFFICES ASSUME At(r, "created")' PROVE ~CallerLive(r)' /\ ~job'[r].canceling
    BY DEF Waiting
  <2>1. CASE j = r
    <3>1. records[r] = Absent
      BY <1>1, <2>1 DEF At
    <3>2. ~CallerLive(r)
      BY <1>2, <3>1, CallersAreJobs DEF CallerLive
    <3> QED  BY <1>1, <2>1, <3>2, CallersAreJobs DEF CallerLive
  <2>2. CASE j # r
    <3>1. At(r, "created") /\ r \in Jobs /\ job[r].run = r
      BY <1>1, <2>2, RunsAreJobs DEF At, Base, JobInv
    <3> QED  BY <1>1, <1>2, <2>2, <3>1 DEF At
  <2> QED  BY <2>1, <2>2
<1> QED  BY <1>4, <1>5, <1>6 DEF LiveInv

LEMMA NotBegunLive ==
    ASSUME Base, LiveInv, NEW r \in Runs, BeginsNot(r)
    PROVE  LiveInv'
<1>1. /\ UNCHANGED <<job, paused>> /\ cut' = cut \union {r}
      /\ \A q \in Runs \ {r} : records'[q] = records[q]
      /\ records[r] = Absent \/ ~At(r, "created")
  BY DEF BeginsNot, Base, TypeOK
<1>2. ~At(r, "created")
  BY <1>1, RunsAreJobs DEF At, Base, JobInv
<1>3. InProgressIsLive'
  BY <1>1 DEF LiveInv, InProgressIsLive, Live, Status
<1>4. ASSUME NEW q \in Runs PROVE Waiting(q)'
  BY <1>1, <1>2 DEF LiveInv, Waiting, At, Status, CallerLive
<1> QED  BY <1>3, <1>4 DEF LiveInv

LEMMA OverLive ==
    ASSUME Base, LiveInv, NEW r \in Runs, Over(r)
    PROVE  LiveInv'
<1>1. /\ job[r] # Absent /\ OverAt(r) /\ job[r].run = r
      /\ \A k \in Jobs \ {r} : job'[k] = job[k]
      /\ paused' \subseteq paused /\ cut \subseteq cut'
      /\ \A q \in Runs \ {r} : records'[q] = records[q]
  BY DEF Over, Base, TypeOK
<1>2. r \in cut' \/ (records' = records /\ (At(r, "finished") \/ Status(r) = "canceled"))
  BY DEF Over, LiveInv, Waiting
<1>3. InProgressIsLive'
  <2> SUFFICES ASSUME NEW q \in Runs \ cut', Status(q)' \in {"running", "paused"}
               PROVE  Live(q)'
    BY DEF InProgressIsLive
  <2>1. q \notin cut /\ Status(q) \in {"running", "paused"} /\ (q = r => At(r, "finished"))
    BY <1>1, <1>2 DEF Status
  <2>2. PICK k : Witness(q, k)
    BY <2>1, StillLive
  <2>3. k # r
    BY <1>1, <2>1, <2>2 DEF Witness, At
  <2> QED  BY <1>1, <2>2, <2>3 DEF Live, Witness
<1>4. \A q \in Runs : CallerLive(q)' => CallerLive(q)
  BY <1>1, CallersAreJobs DEF CallerLive
<1>5. ASSUME NEW q \in Runs PROVE Waiting(q)'
  <2>1. q # r => job'[q] = job[q]
    BY <1>1, RunsAreJobs
  <2>2. ~At(r, "created")'
    BY <1>1 DEF At, OverAt
  <2> QED  BY <1>1, <1>4, <2>1, <2>2 DEF LiveInv, Waiting, At, Status
<1> QED  BY <1>3, <1>5 DEF LiveInv

LEMMA ControlLive ==
    ASSUME Base, LiveInv, NEW r \in Runs, NEW rec, Controls(r, rec)
    PROVE  LiveInv'
<1>1. /\ \A k \in Jobs \ {r} : job'[k] = job[k]
      /\ job'[r] # Absent /\ job'[r].run = job[r].run /\ job'[r].pc = job[r].pc
      /\ \/ job'[r] = job[r]
         \/ job'[r].canceling /\ rec.status = "canceled"
  BY ControlPlaces
<1>2. /\ job[r] # Absent /\ r \in Jobs /\ (~Done(r) => Live(r)) /\ job[r].run = r
  BY ManagedTask DEF Controls
<1>3. /\ UNCHANGED cut /\ rec # Absent
      /\ records'[r] = rec /\ \A q \in Runs \ {r} : records'[q] = records[q]
      /\ \/ rec.status = "canceled" /\ paused' = paused \ {r}
         \/ /\ rec.status \in {"running", "paused"} /\ ~Done(r) /\ job' = job
            /\ paused' \subseteq paused \union {r} /\ (Status(r) = "running" \/ r \in paused)
  BY SentinelAssumption DEF Controls, Stores
<1>4. \A q \in Runs : Live(q) => Live(q)'
  BY <1>1, <1>2 DEF Live
<1>5. \A q \in Runs : CallerLive(q)' => CallerLive(q)
  BY <1>1, CallersAreJobs DEF CallerLive
<1>6. InProgressIsLive'
  BY <1>2, <1>3, <1>4 DEF LiveInv, InProgressIsLive, Status
<1>7. ASSUME NEW q \in Runs PROVE Waiting(q)'
  <2>1. CASE q = r
    <3>1. At(r, "created")' => At(r, "created")
      BY <1>1, <1>2 DEF At
    <3>2. rec.status = "canceled" => Status(r)' = "canceled" /\ r \notin paused'
      BY <1>3 DEF Status
    <3>3. rec.status # "canceled" => job' = job /\ (Status(r) = "running" \/ r \in paused)
      BY <1>3
    <3> QED  BY <1>5, <2>1, <3>1, <3>2, <3>3 DEF LiveInv, Waiting
  <2>2. CASE q # r
    <3>1. job'[q] = job[q] /\ (q \in paused' => q \in paused) /\ records'[q] = records[q]
      BY <1>1, <1>3, <2>2, RunsAreJobs
    <3> QED  BY <1>5, <3>1 DEF LiveInv, Waiting, At, Status
  <2> QED  BY <2>1, <2>2
<1> QED  BY <1>6, <1>7 DEF LiveInv

LEMMA CrashLive ==
    ASSUME Base, LiveInv, Crash
    PROVE  LiveInv'
<1>1. /\ \A k \in Jobs : job'[k] = Absent
      /\ records' = saved /\ cut' = cut \union {r \in Runs : Live(r) \/ saved[r] # records[r]}
  BY DEF Crash
<1>2. InProgressIsLive'
  BY <1>1 DEF LiveInv, InProgressIsLive, Status
<1> QED  BY <1>1, <1>2, RunsAreJobs DEF LiveInv, Waiting, At

LEMMA OutsideLive ==
    ASSUME LiveInv, UNCHANGED <<records, job, paused, cut>>
    PROVE  LiveInv'
BY DEF LiveInv, InProgressIsLive, Live, Status, Waiting, At, CallerLive

-----------------------------------------------------------------------------
(***************************************************************************)
(* An execution is past no node that no execution of its run was at, and   *)
(* no record, in memory or in the file, counts such a node: so the cursor  *)
(* that an execution reads takes it past no such node either.              *)
(***************************************************************************)
Unfinished(j) == job[j] # Absent /\ job[j].pc # "finished"

Covered(rec, nodes) ==
    rec # Absent =>
        /\ 1..rec.cursor \subseteq nodes /\ 1..rec.results \subseteq nodes
        /\ rec.status = "completed" => Nodes \subseteq nodes

Covers(j) == Unfinished(j) => Past(j) \subseteq reached[job[j].run]

CoverInv ==
    /\ \A j \in Jobs : Covers(j)
    /\ \A r \in Runs : Covered(records[r], reached[r]) /\ Covered(saved[r], reached[r])

LEMMA FreshCovered == \A nodes : Covered(FreshRecord, nodes)
BY DEF Covered, FreshRecord

LEMMA MoreCovered ==
    ASSUME NEW rec, NEW nodes, NEW more, nodes \subseteq more, Covered(rec, nodes)
    PROVE  Covered(rec, more)
BY DEF Covered

LEMMA CountedCovered ==
    ASSUME NEW j \in Jobs, NEW rec, NEW d, NEW nodes, Counts(j, rec, d),
           Past(j) \union d \subseteq nodes
    PROVE  Covered(rec, nodes)
BY DEF Counts, Covered

LEMMA MovesCover ==
    ASSUME Base, CoverInv, NEW j \in Jobs, NEW v, NEW d, MovesOn(j, v, d)
    PROVE  CoverInv'
<1>1. /\ job'[j] = v /\ v # Absent /\ \A k \in Jobs \ {j} : job'[k] = job[k]
      /\ UNCHANGED <<records, saved>> /\ v.run = job[j].run
      /\ job[j] # Absent /\ job[j].pc # "finished"
      /\ \A q \in Runs : reached[q] \subseteq reached'[q]
      /\ d \subseteq reached'[job[j].run]
  BY SentinelAssumption DEF MovesOn, Base, TypeOK, store, Reaches
<1>2. /\ job[j].index \in 1..(NodeCount + 1) /\ NodeCount \in Nat /\ job[j].run \in Runs
      /\ records[job[j].run] # Absent /\ records[job[j].run] \in Record
  BY <1>1, ExecutingJob DEF JobInv, Base, TypeOK
<1>3. Past(j) \subseteq reached'[job[j].run]
  BY <1>1, <1>2 DEF CoverInv, Covers, Unfinished
<1>4. Behind(j) => job[j].index \in reached'[job[j].run]
  <2>1. records[job[j].run].cursor \in 0..NodeCount
    BY <1>2 DEF Record
  <2>2. Behind(j) => job[j].index \in 1..records[job[j].run].cursor
    BY <1>2, <2>1 DEF Behind
  <2>3. 1..records[job[j].run].cursor \subseteq reached[job[j].run]
    BY <1>2 DEF CoverInv, Covered
  <2> QED  BY <1>1, <1>2, <2>2, <2>3
<1>5. Covers(j)'
  <2>1. v.pc \in {"node", "failing"} => v.index \in reached'[job[j].run]
    BY <1>1, <1>3 DEF MovesOn
  <2>2. 1..(job[j].index - 1) \subseteq reached'[job[j].run]
    BY <1>3 DEF Past
  <2>3. 1..(v.index - 1) \subseteq reached'[job[j].run]
    <3>1. CASE v.index = job[j].index
      BY <2>2, <3>1
    <3>2. CASE /\ v.index = job[j].index + 1
               /\ job[j].index \in Past(j) \union d \/ Behind(j)
      <4>1. job[j].index \in reached'[job[j].run]
        BY <1>1, <1>3, <1>4, <3>2
      <4>2. 1..(v.index - 1) = 1..(job[j].index - 1) \union {job[j].index}
        BY <1>2, <3>2
      <4> QED  BY <2>2, <4>1, <4>2
    <3> QED  BY <3>1, <3>2 DEF MovesOn
  <2> QED  BY <1>1, <2>1, <2>3 DEF Covers, Past
<1>6. ASSUME NEW k \in Jobs, k # j PROVE Covers(k)'
  <2>1. job'[k] = job[k] /\ (job[k] # Absent => job[k].run \in Runs)
    BY <1>1, <1>6, JobTypes
  <2> QED  BY <1>1, <2>1 DEF CoverInv, Covers, Unfinished, Past
<1>7. ASSUME NEW q \in Runs
      PROVE  Covered(records'[q], reached'[q]) /\ Covered(saved'[q], reached'[q])
  BY <1>1, MoreCovered DEF CoverInv
<1> QED  BY <1>5, <1>6, <1>7 DEF CoverInv

LEMMA EndsCover ==
    ASSUME Base, CoverInv, NEW j \in Jobs, NEW rec, NEW d, EndsWith(j, rec, d)
    PROVE  CoverInv'
<1>0. PICK r : r = job[j].run
  OBVIOUS
<1>1. /\ r \in Runs
      /\ records'[r] = rec /\ \A q \in Runs \ {r} : records'[q] = records[q]
      /\ \A k \in Jobs \ {j} : job'[k] = job[k]
      /\ OverAt(j)
  BY <1>0, EndEffect
<1>2. /\ job[j] # Absent /\ job[j].pc # "finished"
      /\ \A q \in Runs : reached[q] \subseteq reached'[q]
      /\ d \subseteq reached'[r]
      /\ \A q \in Runs \ {r} : saved'[q] = saved[q]
      /\ saved'[r] \in {saved[r], rec} \/ Counts(j, saved'[r], d)
      /\ Counts(j, rec, d)
  BY <1>0 DEF EndsWith, Reaches
<1>3. Past(j) \union d \subseteq reached'[r]
  BY <1>0, <1>1, <1>2 DEF CoverInv, Covers, Unfinished
<1>4. Covered(rec, reached'[r])
  BY <1>2, <1>3, CountedCovered
<1>5. Covered(saved'[r], reached'[r])
  <2>1. CASE saved'[r] = saved[r]
    BY <1>1, <1>2, <2>1, MoreCovered DEF CoverInv
  <2>2. CASE Counts(j, saved'[r], d)
    BY <1>3, <2>2, CountedCovered
  <2> QED  BY <1>2, <1>4, <2>1, <2>2
<1>6. ASSUME NEW q \in Runs
      PROVE  Covered(records'[q], reached'[q]) /\ Covered(saved'[q], reached'[q])
  <2>1. CASE q = r
    BY <1>1, <1>4, <1>5, <2>1
  <2>2. CASE q # r
    BY <1>1, <1>2, <2>2, MoreCovered DEF CoverInv
  <2> QED  BY <2>1, <2>2
<1>7. ASSUME NEW k \in Jobs PROVE Covers(k)'
  <2>1. CASE k = j
    BY <1>1, <2>1 DEF Covers, Unfinished, OverAt
  <2>2. CASE k # j
    <3>1. job'[k] = job[k] /\ (job[k] # Absent => job[k].run \in Runs)
      BY <1>1, <2>2, JobTypes
    <3> QED  BY <1>2, <3>1 DEF CoverInv, Covers, Unfinished, Past
  <2> QED  BY <2>1, <2>2
<1> QED  BY <1>6, <1>7 DEF CoverInv

LEMMA BeginsCover ==
    ASSUME Base, CoverInv, NEW j \in Jobs, NEW r \in Runs, BeginsWith(j, r)
    PROVE  CoverInv'
<1>1. /\ job'[j].index = 1 /\ job'[j].pc \notin {"node", "failing"}
      /\ \A k \in Jobs \ {j} : job'[k] = job[k]
      /\ records'[r] = FreshRecord /\ \A q \in Runs \ {r} : records'[q] = records[q]
      /\ saved'[r] = FreshRecord /\ \A q \in Runs \ {r} : saved'[q] = saved[q]
      /\ \A q \in Runs : reached'[q] = reached[q] \/ (q = r /\ ~Live(r))
  BY DEF BeginsWith, Base, TypeOK, history
<1>2. ASSUME NEW q \in Runs
      PROVE  Covered(records'[q], reached'[q]) /\ Covered(saved'[q], reached'[q])
  BY <1>1, FreshCovered DEF CoverInv
<1>3. ASSUME NEW k \in Jobs PROVE Covers(k)'
  <2>1. CASE k = j
    BY <1>1, <2>1 DEF Covers, Past
  <2>2. CASE k # j
    <3>1. job'[k] = job[k] /\ (job[k] # Absent => job[k].run \in Runs)
      BY <1>1, <2>2, JobTypes
    <3>2. Unfinished(k) => job[k].run # r \/ Live(r)
      BY DEF Unfinished, Live
    <3> QED  BY <1>1, <3>1, <3>2 DEF CoverInv, Covers, Unfinished, Past
  <2> QED  BY <2>1, <2>2
<1> QED  BY <1>2, <1>3 DEF CoverInv

\* No execution moves, and a record is fresh or as it was.
LEMMA FreshCover ==
    ASSUME Base, CoverInv, UNCHANGED reached, NEW r \in Runs,
           \A k \in Jobs : Unfinished(k)' => job'[k] = job[k],
           records' \in {records, [records EXCEPT ![r] = FreshRecord]},
           saved' \in {saved, [saved EXCEPT ![r] = FreshRecord]}
    PROVE  CoverInv'
<1>1. ASSUME NEW q \in Runs
      PROVE  /\ records'[q] \in {records[q], FreshRecord} /\ saved'[q] \in {saved[q], FreshRecord}
  BY DEF Base, TypeOK
<1>2. ASSUME NEW q \in Runs
      PROVE  Covered(records'[q], reached'[q]) /\ Covered(saved'[q], reached'[q])
  BY <1>1, FreshCovered DEF CoverInv
<1>3. ASSUME NEW k \in Jobs PROVE Covers(k)'
  BY DEF CoverInv, Covers, Unfinished, Past
<1> QED  BY <1>2, <1>3 DEF CoverInv

LEMMA NotBegunCover ==
    ASSUME Base, CoverInv, NEW r \in Runs, BeginsNot(r)
    PROVE  CoverInv'
BY FreshCover DEF BeginsNot

LEMMA OverCover ==
    ASSUME Base, CoverInv, NEW r \in Runs, Over(r)
    PROVE  CoverInv'
<1>1. \A k \in Jobs : Unfinished(k)' => job'[k] = job[k]
  BY DEF Over, OverAt, Unfinished
<1>2. /\ UNCHANGED reached
      /\ records' \in {records, [records EXCEPT ![r] = FreshRecord]}
      /\ saved' \in {saved, [saved EXCEPT ![r] = FreshRecord]}
  BY DEF Over
<1> QED  BY <1>1, <1>2, FreshCover

LEMMA ControlCover ==
    ASSUME Base, CoverInv, NEW r \in Runs, NEW rec, Controls(r, rec)
    PROVE  CoverInv'
<1>1. /\ \A k \in Jobs \ {r} : job'[k] = job[k]
      /\ job'[r] # Absent /\ job'[r].run = job[r].run /\ job'[r].pc = job[r].pc
      /\ job'[r].index = job[r].index
  BY ControlPlaces
<1>2. /\ job[r] # Absent /\ records[r] # Absent
  BY ManagedTask DEF Controls
<1>3. /\ UNCHANGED reached /\ rec # Absent /\ rec.status # "completed"
      /\ records'[r] = rec /\ \A q \in Runs \ {r} : records'[q] = records[q]
      /\ saved'[r] \in {saved[r], rec} /\ \A q \in Runs \ {r} : saved'[q] = saved[q]
      /\ rec.results = records[r].results /\ rec.cursor \in {records[r].cursor, records[r].results}
  BY SentinelAssumption DEF Controls, Stores
<1>4. Covered(rec, reached[r])
  BY <1>2, <1>3 DEF CoverInv, Covered
<1>5. ASSUME NEW q \in Runs
      PROVE  Covered(records'[q], reached'[q]) /\ Covered(saved'[q], reached'[q])
  BY <1>3, <1>4 DEF CoverInv
<1>6. ASSUME NEW k \in Jobs PROVE Covers(k)'
  BY <1>1, <1>2, <1>3 DEF CoverInv, Covers, Unfinished, Past
<1> QED  BY <1>5, <1>6 DEF CoverInv

LEMMA CrashCover ==
    ASSUME CoverInv, Crash
    PROVE  CoverInv'
<1>1. /\ \A k \in Jobs : job'[k] = Absent
      /\ records' = saved /\ UNCHANGED <<saved, reached>>
  BY DEF Crash
<1> QED  BY <1>1 DEF CoverInv, Covers, Unfinished

LEMMA OutsideCover ==
    ASSUME CoverInv, UNCHANGED <<records, saved, job, reached>>
    PROVE  CoverInv'
BY DEF CoverInv, Covers, Unfinished, Past

-----------------------------------------------------------------------------
(***************************************************************************)
(* A run that is canceled and not outlived is canceled in memory and in    *)
(* the file; no call executes it, and its task, if there is one, is over   *)
(* or will be told of the cancellation.                                    *)
(***************************************************************************)
Gone(r) ==
    /\ records[r] # Absent /\ records[r].status = "canceled"
    /\ saved[r] # Absent /\ saved[r].status = "canceled"
    /\ ~CallerLive(r) /\ r \notin paused
    /\ job[r] = Absent \/ job[r].pc = "finished" \/ job[r].canceling

CancelInv == \A r \in canceled \ outlived : Gone(r)

LEMMA CanceledRuns == Base => canceled \subseteq Runs /\ Runs \subseteq Jobs
BY DEF Base, TypeOK, Jobs

LEMMA MovesCancel ==
    ASSUME Base, CancelInv, NEW j \in Jobs, NEW v, NEW d, MovesOn(j, v, d)
    PROVE  CancelInv'
<1> SUFFICES ASSUME NEW r \in canceled' \ outlived' PROVE Gone(r)'
  BY DEF CancelInv
<1>1. /\ job'[j] = v /\ v # Absent /\ \A k \in Jobs \ {j} : job'[k] = job[k]
      /\ UNCHANGED <<records, saved, paused, canceled>> /\ v.run = job[j].run
      /\ job[j] # Absent /\ job[j].pc # "finished" /\ outlived \subseteq outlived'
      /\ job[j].canceling /\ ~v.canceling => job[j].run \in outlived'
  BY SentinelAssumption DEF MovesOn, Base, TypeOK, store, control
<1>2. Gone(r) /\ r \in Runs /\ r \in Jobs
  BY <1>1, CanceledRuns DEF CancelInv
<1>3. ~CallerLive(r)'
  BY <1>1, <1>2, CallersAreJobs DEF Gone, CallerLive
<1>4. j = r => job[j].run = r
  BY <1>1, <1>2 DEF Base, JobInv
<1> QED  BY <1>1, <1>2, <1>3, <1>4 DEF Gone

LEMMA EndsCancel ==
    ASSUME Base, CancelInv, NEW j \in Jobs, NEW rec, NEW d, EndsWith(j, rec, d)
    PROVE  CancelInv'
<1> SUFFICES ASSUME NEW r \in canceled' \ outlived' PROVE Gone(r)'
  BY DEF CancelInv
<1>1. /\ job[j].run \in Runs /\ rec # Absent
      /\ records'[job[j].run] = rec
      /\ \A q \in Runs \ {job[j].run} : records'[q] = records[q]
      /\ \A k \in Jobs \ {j} : job'[k] = job[k]
      /\ OverAt(j) /\ UNCHANGED <<paused, canceled, outlived>>
  BY EndEffect
<1>2. Gone(r) /\ r \in Runs /\ r \in Jobs
  BY <1>1, CanceledRuns DEF CancelInv
<1>3. /\ job[j] # Absent /\ job[j].pc # "finished"
      /\ job[j].canceling => rec.status = "canceled"
      /\ \A q \in Runs \ {job[j].run} : saved'[q] = saved[q]
      /\ job[j].canceling => saved'[job[j].run] \in {saved[job[j].run], rec}
  BY DEF EndsWith
<1>4. ~CallerLive(r)'
  BY <1>1, <1>2, CallersAreJobs DEF Gone, CallerLive, OverAt
<1>5. CASE job[j].run = r
  <2>1. j = r
    <3>1. j \notin Callers
      BY <1>2, <1>3, <1>5 DEF Gone, CallerLive
    <3> QED  BY <1>3, <1>5, <3>1 DEF Base, JobInv, Jobs
  <2>2. job[j].canceling
    BY <1>2, <1>3, <2>1 DEF Gone
  <2> QED  BY <1>1, <1>2, <1>3, <1>4, <1>5, <2>1, <2>2 DEF Gone, OverAt
<1>6. CASE job[j].run # r
  <2>1. j # r
    BY <1>2, <1>3, <1>6 DEF Base, JobInv
  <2> QED  BY <1>1, <1>2, <1>3, <1>4, <1>6, <2>1 DEF Gone
<1> QED  BY <1>5, <1>6

LEMMA BeginsCancel ==
    ASSUME Base, CancelInv, NEW j \in Jobs, NEW r \in Runs, BeginsWith(j, r)
    PROVE  CancelInv'
<1> SUFFICES ASSUME NEW q \in canceled' \ outlived' PROVE Gone(q)'
  BY DEF CancelInv
<1>1. q \in canceled \ outlived /\ q # r
  <2>1. CASE UNCHANGED history
    <3>1. q \in canceled \ outlived
      BY <2>1 DEF history, cancels
    <3>2. Gone(q)
      BY <3>1 DEF CancelInv
    <3>3. records[r] = Absent \/ (At(r, "created") /\ ~job[r].canceling) \/ r \notin canceled'
      BY DEF BeginsWith
    <3> QED  BY <3>1, <3>2, <3>3 DEF Gone, At
  <2>2. CASE canceled' = canceled \ {r} /\ outlived' = outlived \ {r}
    BY <2>2
  <2> QED  BY <2>1, <2>2 DEF BeginsWith
<1>2. /\ job'[j].run = r /\ \A k \in Jobs \ {j} : job'[k] = job[k]
      /\ \A p \in Runs \ {r} : records'[p] = records[p] /\ saved'[p] = saved[p]
      /\ UNCHANGED paused /\ (j \in Runs => j = r)
  BY DEF BeginsWith, Base, TypeOK
<1>3. Gone(q) /\ q \in Runs /\ q \in Jobs
  BY <1>1, CanceledRuns DEF CancelInv
<1>4. ~CallerLive(q)'
  BY <1>1, <1>2, <1>3, CallersAreJobs DEF Gone, CallerLive
<1> QED  BY <1>1, <1>2, <1>3, <1>4 DEF Gone

LEMMA NotBegunCancel ==
    ASSUME Base, CancelInv, NEW r \in Runs, BeginsNot(r)
    PROVE  CancelInv'
<1> SUFFICES ASSUME NEW q \in canceled' \ outlived' PROVE Gone(q)'
  BY DEF CancelInv
<1>1. q \in canceled \ outlived /\ q # r
  <2>1. CASE records[r] = Absent /\ UNCHANGED cancels
    BY <2>1 DEF cancels, CancelInv, Gone
  <2>2. CASE canceled' = canceled \ {r} /\ outlived' = outlived \ {r}
    BY <2>2
  <2> QED  BY <2>1, <2>2 DEF BeginsNot
<1>2. Gone(q) /\ q \in Runs
  BY <1>1, CanceledRuns DEF CancelInv
<1>3. records'[q] = records[q] /\ saved'[q] = saved[q] /\ UNCHANGED <<job, paused>>
  BY <1>1, <1>2 DEF BeginsNot, Base, TypeOK
<1> QED  BY <1>2, <1>3 DEF Gone, CallerLive

LEMMA OverCancel ==
    ASSUME Base, CancelInv, NEW r \in Runs, Over(r)
    PROVE  CancelInv'
<1> SUFFICES ASSUME NEW q \in canceled' \ outlived' PROVE Gone(q)'
  BY DEF CancelInv
<1>1. /\ OverAt(r) /\ \A k \in Jobs \ {r} : job'[k] = job[k]
      /\ paused' \subseteq paused /\ UNCHANGED <<canceled, outlived>>
      /\ UNCHANGED <<records, saved>> \/ (At(r, "created") /\ ~job[r].canceling)
      /\ \A p \in Runs \ {r} : records'[p] = records[p] /\ saved'[p] = saved[p]
  BY DEF Over, Base, TypeOK
<1>2. Gone(q) /\ q \in Runs /\ q \in Jobs
  BY <1>1, CanceledRuns DEF CancelInv
<1>3. ~CallerLive(q)'
  BY <1>1, <1>2, CallersAreJobs DEF Gone, CallerLive
<1>4. q = r => UNCHANGED <<records, saved>>
  BY <1>1, <1>2 DEF Gone, At
<1> QED  BY <1>1, <1>2, <1>3, <1>4 DEF Gone, OverAt

LEMMA ControlCancel ==
    ASSUME Base, CancelInv, NEW r \in Runs, NEW rec, Controls(r, rec)
    PROVE  CancelInv'
<1> SUFFICES ASSUME NEW q \in canceled' \ outlived' PROVE Gone(q)'
  BY DEF CancelInv
<1>1. /\ \A k \in Jobs \ {r} : job'[k] = job[k]
      /\ \/ job'[r] = job[r]
         \/ job'[r].canceling
  BY ControlPlaces
<1>2. \A p \in Runs : CallerLive(p)' => CallerLive(p)
  BY <1>1, CallersAreJobs DEF CallerLive
<1>3. /\ rec # Absent
      /\ records'[r] = rec /\ \A p \in Runs \ {r} : records'[p] = records[p]
      /\ saved'[r] \in {saved[r], rec} /\ \A p \in Runs \ {r} : saved'[p] = saved[p]
  BY SentinelAssumption DEF Controls, Stores
<1>4. CASE /\ rec.status \in {"running", "paused"} /\ paused' \subseteq paused \union {r}
           /\ Status(r) = "running" \/ r \in paused
           /\ UNCHANGED cancels
  <2>1. Gone(q) /\ q \in Runs /\ q \in Jobs
    BY <1>4, CanceledRuns DEF cancels, CancelInv
  <2>2. q # r
    BY <1>4, <2>1 DEF Gone, Status
  <2> QED  BY <1>1, <1>2, <1>3, <1>4, <2>1, <2>2 DEF Gone
<1>5. CASE /\ rec.status = "canceled" /\ paused' = paused \ {r}
           /\ \/ UNCHANGED cancels
              \/ /\ saved'[r] = rec /\ canceled' = canceled \union {r}
                 /\ outlived' = IF CallerLive(r) THEN outlived \union {r} ELSE outlived \ {r}
           /\ (Done(r) /\ UNCHANGED job) \/ (~Done(r) /\ CancelsTask(r))
  <2>1. job'[r].pc = "finished" \/ job'[r].canceling
    <3>1. CASE Done(r) /\ UNCHANGED job
      BY <3>1 DEF Done, At
    <3>2. CASE CancelsTask(r)
      BY <3>2, RunsAreJobs DEF CancelsTask, Base, TypeOK
    <3> QED  BY <1>5, <3>1, <3>2
  <2>2. CASE q # r
    <3>1. q \in canceled \ outlived
      BY <1>5, <2>2 DEF cancels
    <3>2. Gone(q) /\ q \in Runs /\ q \in Jobs
      BY <3>1, CanceledRuns DEF CancelInv
    <3> QED  BY <1>1, <1>2, <1>3, <1>5, <2>2, <3>2 DEF Gone
  <2>3. CASE q = r
    <3>1. ~CallerLive(r) /\ (saved'[r] = rec \/ (saved[r] # Absent /\ saved[r].status = "canceled"))
      BY <1>5, <2>3 DEF cancels, CancelInv, Gone
    <3> QED  BY <1>2, <1>3, <1>5, <2>1, <2>3, <3>1 DEF Gone
  <2> QED  BY <2>2, <2>3
<1> QED  BY <1>4, <1>5 DEF Controls

LEMMA CrashCancel ==
    ASSUME Base, CancelInv, Crash
    PROVE  CancelInv'
<1>1. /\ \A k \in Jobs : job'[k] = Absent
      /\ records' = saved /\ UNCHANGED <<saved, cancels>> /\ paused' = {}
  BY DEF Crash
<1> QED  BY <1>1, CanceledRuns, CallersAreJobs DEF CancelInv, Gone, CallerLive, cancels

LEMMA OutsideCancel ==
    ASSUME CancelInv, UNCHANGED <<records, saved, job, paused, canceled, outlived>>
    PROVE  CancelInv'
BY DEF CancelInv, Gone, CallerLive

-----------------------------------------------------------------------------
(***************************************************************************)
(* The shapes together, and the invariants with every step.                *)
(***************************************************************************)
LEMMA NextShape ==
    ASSUME Base, [Next]_vars
    PROVE  \/ \E j \in Jobs : \E d : \E v \in Job : MovesOn(j, v, d)
           \/ \E j \in Jobs : \E d : \E rec : EndsWith(j, rec, d)
           \/ \E r \in Runs : \E j \in Jobs : BeginsWith(j, r)
           \/ \E r \in Runs : BeginsNot(r) \/ Over(r) \/ \E rec : Controls(r, rec)
           \/ Crash
           \/ UNCHANGED <<records, saved, job, paused, canceled, outlived, cut, reached>>
<1>1. CASE UNCHANGED vars \/ Delete \/ \E a \in Approvals : Approve(a) \/ Reject(a)
  BY <1>1, OutsideUnchanged
<1>2. CASE \E j \in Jobs : Execute(j)
  BY <1>2, ExecuteShape
<1>3. ASSUME NEW r \in Runs, Start(r) \/ StartRaises(r) \/ Manage(r) \/ Control(r)
      PROVE  \/ \E j \in Jobs : BeginsWith(j, r)
             \/ BeginsNot(r) \/ Over(r) \/ \E rec : Controls(r, rec)
  <2>1. CASE Start(r) \/ Begin(r)
    BY <2>1, BeginShape
  <2>2. CASE StartRaises(r)
    BY <2>2, RaisesShape
  <2>3. CASE BeginRaises(r) \/ NeverRan(r) \/ Cleanup(r)
    BY <2>3, OverShape
  <2>4. CASE Control(r)
    BY <2>4, ControlShape
  <2> QED  BY <1>3, <2>1, <2>2, <2>3, <2>4 DEF Manage
<1>4. ASSUME NEW c \in Callers, NEW r \in Runs,
             RunSync(c, r) \/ \E a \in Approvals : ResumeApproved(c, r, a)
      PROVE  \E j \in Jobs : BeginsWith(j, r)
  BY <1>4, BeginShape
<1>5. ASSUME NEW r \in Runs, NEW a \in Approvals, ResumeRaises(r, a)
      PROVE  BeginsNot(r)
  BY <1>5, RaisesShape
<1> QED  BY <1>1, <1>2, <1>3, <1>4, <1>5 DEF Next

Inv == Base /\ LiveInv /\ CoverInv /\ CancelInv

LEMMA InitInv == Init => Inv
<1> SUFFICES ASSUME Init PROVE Inv
  OBVIOUS
<1>1. /\ \A j \in Jobs : job[j] = Absent
      /\ \A r \in Runs : records[r] = Absent /\ saved[r] = Absent
      /\ canceled = {}
  BY DEF Init
<1>2. LiveInv
  BY <1>1, RunsAreJobs DEF LiveInv, InProgressIsLive, Status, Waiting, At
<1>3. CoverInv
  BY <1>1 DEF CoverInv, Covers, Unfinished, Covered
<1>4. CancelInv
  BY <1>1 DEF CancelInv
<1> QED  BY <1>2, <1>3, <1>4, InitBase DEF Inv

LEMMA NextInv == Inv /\ [Next]_vars => Inv'
<1> SUFFICES ASSUME Inv, [Next]_vars PROVE Inv'
  OBVIOUS
<1>1. Base /\ LiveInv /\ CoverInv /\ CancelInv /\ Base'
  BY NextBase DEF Inv
<1>2. ASSUME NEW j \in Jobs, NEW d, NEW v \in Job, MovesOn(j, v, d)
      PROVE  LiveInv' /\ CoverInv' /\ CancelInv'
  BY <1>1, <1>2, MovesLive, MovesCover, MovesCancel
<1>3. ASSUME NEW j \in Jobs, NEW d, NEW rec, EndsWith(j, rec, d)
      PROVE  LiveInv' /\ CoverInv' /\ CancelInv'
  BY <1>1, <1>3, EndsLive, EndsCover, EndsCancel
<1>4. ASSUME NEW j \in Jobs, NEW r \in Runs, BeginsWith(j, r)
      PROVE  LiveInv' /\ CoverInv' /\ CancelInv'
  BY <1>1, <1>4, BeginsLive, BeginsCover, BeginsCancel
<1>5. ASSUME NEW r \in Runs, BeginsNot(r)
      PROVE  LiveInv' /\ CoverInv' /\ CancelInv'
  BY <1>1, <1>5, NotBegunLive, NotBegunCover, NotBegunCancel
<1>6. ASSUME NEW r \in Runs, Over(r)
      PROVE  LiveInv' /\ CoverInv' /\ CancelInv'
  BY <1>1, <1>6, OverLive, OverCover, OverCancel
<1>7. ASSUME NEW r \in Runs, NEW rec, Controls(r, rec)
      PROVE  LiveInv' /\ CoverInv' /\ CancelInv'
  BY <1>1, <1>7, ControlLive, ControlCover, ControlCancel
<1>8. CASE Crash
  BY <1>1, <1>8, CrashLive, CrashCover, CrashCancel DEF Inv
<1>9. CASE UNCHANGED <<records, saved, job, paused, canceled, outlived, cut, reached>>
  BY <1>1, <1>9, OutsideLive, OutsideCover, OutsideCancel DEF Inv
<1> QED  BY <1>1, <1>2, <1>3, <1>4, <1>5, <1>6, <1>7, <1>8, <1>9, NextShape DEF Inv

LEMMA InvHolds == Spec => []Inv
BY InitInv, NextInv, PTL DEF Spec

\* A run in progress has an execution that will record its end, unless a crash, a
\* deleted definition or a first record that could not be written cut it off; also
\* when executions of it overlap, nodes have timeouts and records cannot be written.
THEOREM InProgressLives == Spec => []InProgressIsLive
<1>1. Inv => InProgressIsLive
  BY DEF Inv, LiveInv
<1> QED  BY <1>1, InvHolds, PTL

\* A completed run had an execution at every node, wherever pauses, approvals,
\* failures, crashes and overlapping executions left the cursor that others read.
THEOREM CompletedCovers == Spec => []CompletedCoversAll
<1>1. Inv => CompletedCoversAll
  <2> SUFFICES ASSUME Inv, NEW r \in Runs, Status(r) = "completed" PROVE reached[r] = Nodes
    BY DEF CompletedCoversAll
  <2>1. records[r] # Absent /\ records[r].status = "completed"
    BY DEF Status
  <2>2. reached[r] \subseteq Nodes
    BY DEF Inv, Base, TypeOK
  <2> QED  BY <2>1, <2>2 DEF Inv, CoverInv, Covered
<1> QED  BY <1>1, InvHolds, PTL

\* A confirmed cancellation stays, in memory and in the file, unless an execution
\* of the run outlives it.
THEOREM CancelHolds == Spec => []CanceledStays
<1>1. Inv => CanceledStays
  BY DEF Inv, CancelInv, Gone, CanceledStays, Status
<1> QED  BY <1>1, InvHolds, PTL

LEMMA EndedNext ==
    ASSUME Base, Next, NEW r \in Runs, Status(r) \in Ended, ~Live(r), saved[r] = records[r]
    PROVE  \/ Status(r)' \in Ended
           \/ \E a \in Approvals :
                 ResumeRaises(r, a) \/ \E c \in Callers : ResumeApproved(c, r, a)
<1>0. records[r] # Absent /\ r \in Jobs
  BY RunsAreJobs DEF Status, Ended
<1>1. ASSUME records'[r] = records[r] PROVE Status(r)' \in Ended
  BY <1>1 DEF Status
<1>2. \A j \in Jobs : job[j] # Absent /\ job[j].run = r => job[j].pc = "finished"
  BY DEF Live
<1>3. ~At(r, "created")
  BY <1>0, <1>2 DEF At, Base, JobInv
<1>4. ASSUME NEW j \in Jobs, Execute(j) PROVE Status(r)' \in Ended
  <2>1. ASSUME NEW d, NEW v \in Job, MovesOn(j, v, d) PROVE Status(r)' \in Ended
    BY <1>1, <2>1 DEF MovesOn, store
  <2>2. ASSUME NEW d, NEW rec, EndsWith(j, rec, d) PROVE Status(r)' \in Ended
    <3>1. job[j].run # r
      BY <1>2, <2>2 DEF EndsWith
    <3> QED  BY <1>1, <2>2, <3>1, EndEffect
  <2> QED  BY <1>4, <2>1, <2>2, ExecuteShape
<1>5. ASSUME NEW q \in Runs, \/ Start(q) \/ Begin(q)
                             \/ \E c \in Callers : RunSync(c, q)
      PROVE  Status(r)' \in Ended
  <2>1. q # r
    BY <1>0, <1>3, <1>5 DEF Start, Begin, RunSync, CanStart, CanBegin
  <2>2. records'[r] = records[r]
    <3>1. PICK j \in Jobs : BeginsWith(j, q)
      BY <1>5, BeginShape
    <3> QED  BY <2>1, <3>1 DEF BeginsWith, Base, TypeOK
  <2> QED  BY <1>1, <2>2
<1>6. ASSUME NEW c \in Callers, NEW q \in Runs \ {r}, NEW a \in Approvals, ResumeApproved(c, q, a)
      PROVE  Status(r)' \in Ended
  <2>1. PICK j \in Jobs : BeginsWith(j, q)
    BY <1>6, BeginShape
  <2>2. records'[r] = records[r]
    BY <2>1 DEF BeginsWith, Base, TypeOK
  <2> QED  BY <1>1, <2>2
<1>7. ASSUME NEW q \in Runs,
             StartRaises(q) \/ (q # r /\ \E a \in Approvals : ResumeRaises(q, a))
      PROVE  Status(r)' \in Ended
  <2>1. q # r
    BY <1>0, <1>7 DEF StartRaises, CanStart
  <2>2. BeginsNot(q)
    BY <1>7, RaisesShape
  <2>3. records'[r] = records[r]
    BY <2>1, <2>2 DEF BeginsNot, Base, TypeOK
  <2> QED  BY <1>1, <2>3
<1>8. ASSUME NEW q \in Runs, BeginRaises(q) \/ NeverRan(q) \/ Cleanup(q)
      PROVE  Status(r)' \in Ended
  <2>1. Over(q)
    BY <1>8, OverShape
  <2>2. records'[r] = records[r]
    BY <1>3, <2>1 DEF Over, Base, TypeOK
  <2> QED  BY <1>1, <2>2
<1>9. ASSUME NEW q \in Runs, Control(q) PROVE Status(r)' \in Ended
  <2>1. PICK rec : Controls(q, rec)
    BY <1>9, ControlShape
  <2>2. /\ rec # Absent /\ q \in tasks
        /\ records'[q] = rec /\ \A p \in Runs \ {q} : records'[p] = records[p]
        /\ rec.status = "canceled" \/ ~Done(q)
    BY <2>1, SentinelAssumption DEF Controls, Stores
  <2>3. CASE q = r
    <3>1. Done(r)
      BY <2>2, <2>3, ManagedTask
    <3>2. records'[r] = rec /\ rec.status = "canceled"
      BY <2>2, <2>3, <3>1 DEF Base, TypeOK
    <3> QED  BY <2>2, <3>2 DEF Status, Ended
  <2>4. CASE q # r
    BY <1>1, <2>2, <2>4
  <2> QED  BY <2>3, <2>4
<1>10. CASE (\E a \in Approvals : Approve(a) \/ Reject(a)) \/ Delete
  BY <1>1, <1>10, OutsideUnchanged
<1>11. CASE Crash
  BY <1>1, <1>11 DEF Crash
<1> QED  BY <1>4, <1>5, <1>6, <1>7, <1>8, <1>9, <1>10, <1>11 DEF Next, Manage

\* A run that has ended, that nobody executes and whose end is in the file is not
\* running or paused again, except by resume-approved.
THEOREM EndedHolds == Spec => EndedStays
<1> DEFINE Keeps == \A r \in Runs :
          Status(r) \in Ended /\ ~Live(r) /\ saved[r] = records[r] =>
              \/ Status(r)' \in Ended
              \/ \E a \in Approvals :
                    ResumeRaises(r, a) \/ \E c \in Callers : ResumeApproved(c, r, a)
<1>1. Base /\ [Next]_vars => [Keeps]_vars
  BY EndedNext
<1> QED  BY <1>1, BaseHolds, PTL DEF Spec, EndedStays
=============================================================================
