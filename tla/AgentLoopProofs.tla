--------------------------- MODULE AgentLoopProofs --------------------------
(***************************************************************************)
(* Proofs about AgentLoop for any set of tools, any number of subtasks,    *)
(* and any bounds on plans, iterations and runs.                           *)
(***************************************************************************)
EXTENDS AgentLoop, SequenceTheorems, FiniteSetTheorems, FunctionTheorems, TLAPS

\* What is owed to the run is what is left in its plan.
Owed == \A s \in Step : owed[s] = Count(s, plan)

\* A run that is answered early has left nothing, or one step that may be held back.
Holdable == Guarded \union Desktop \union Browser
LeftOver ==
    state = "answered" /\ iteration < MaxIterations =>
        plan = <<>> \/ \E h \in Step : plan = <<h>> /\ h.tool \in Holdable

IInv == TypeOK /\ SubtasksInOrder /\ Owed /\ LeftOver

LEMMA Steps ==
    /\ Observe \in Step /\ Reflect \in Step /\ Final \in Step
    /\ \A t \in Tools \union {None} : Tool(t) \in Step /\ Tool(t).tool = t /\ Tool(t).kind = "tool"
BY DEF Step, Observe, Reflect, Final, Tool

\* A single step, and two, put in front of a plan leave a plan.
LEMMA Prepended ==
    ASSUME NEW s \in Step, NEW r \in Step, NEW rest \in Seq(Step)
    PROVE  <<s>> \o rest \in Seq(Step) /\ <<s, r>> \o rest \in Seq(Step)
<1>1. <<s>> \in Seq(Step) /\ <<s, r>> \in Seq(Step)
  OBVIOUS
<1> QED  BY <1>1, ConcatProperties

LEMMA PlannedType ==
    ASSUME NEW n \in Nat, NEW steps \in [1..n -> Step]
    PROVE  Planned(steps) \in Seq(Step)
<1>1. steps \in Seq(Step)
  BY IsASeq
<1> QED  BY <1>1, Steps, AppendProperties DEF Planned

LEMMA CurrentType ==
    ASSUME TypeOK, Looping
    PROVE  Current \in Step /\ Tail(plan) \in Seq(Step)
<1>1. Head(plan) \in Step /\ Tail(plan) \in Seq(Step)
  BY HeadTailProperties DEF TypeOK, Looping
<1> QED  BY <1>1, Steps DEF Current, TypeOK
-----------------------------------------------------------------------------
(***************************************************************************)
(* Counting the steps of a plan.                                           *)
(***************************************************************************)
LEMMA CountType ==
    ASSUME NEW s \in Step, NEW p \in Seq(Step)
    PROVE  Count(s, p) \in Nat /\ IsFiniteSet({i \in 1..Len(p) : p[i] = s})
<1>1. Len(p) \in Nat
  BY LenProperties
<1>2. IsFiniteSet(1..Len(p))
  BY <1>1, FS_Interval
<1>3. IsFiniteSet({i \in 1..Len(p) : p[i] = s})
  BY <1>2, FS_Subset
<1> QED  BY <1>3, FS_CardinalityType DEF Count

LEMMA CountEmpty ==
    ASSUME NEW s \in Step
    PROVE  Count(s, <<>>) = 0
<1>1. {i \in 1..Len(<<>>) : <<>>[i] = s} = {}
  OBVIOUS
<1> QED  BY <1>1, FS_EmptySet DEF Count

LEMMA CountOne ==
    ASSUME NEW s \in Step, NEW h \in Step
    PROVE  Count(s, <<h>>) = IF s = h THEN 1 ELSE 0
<1>1. CASE s = h
  <2>1. {i \in 1..Len(<<h>>) : <<h>>[i] = s} = {1}
    BY <1>1
  <2> QED  BY <1>1, <2>1, FS_Singleton DEF Count
<1>2. CASE s # h
  <2>1. {i \in 1..Len(<<h>>) : <<h>>[i] = s} = {}
    BY <1>2
  <2> QED  BY <1>2, <2>1, FS_EmptySet DEF Count
<1> QED  BY <1>1, <1>2

\* A step occurs in two plans, one behind the other, as often as in both.
LEMMA CountConcat ==
    ASSUME NEW s \in Step, NEW p \in Seq(Step), NEW q \in Seq(Step)
    PROVE  Count(s, p \o q) = Count(s, p) + Count(s, q)
<1> DEFINE m == Len(p)
           n == Len(q)
           A == {i \in 1..Len(p) : p[i] = s}
           B == {i \in 1..Len(q) : q[i] = s}
           C == {i \in m + 1..m + n : (p \o q)[i] = s}
           shift == [i \in B |-> i + m]
<1>1. m \in Nat /\ n \in Nat
  BY LenProperties
<1>2. /\ Len(p \o q) = m + n
      /\ \A i \in 1..m + n : (p \o q)[i] = IF i <= m THEN p[i] ELSE q[i - m]
  BY ConcatProperties
<1>3. {i \in 1..Len(p \o q) : (p \o q)[i] = s} = A \union C
  BY <1>1, <1>2
<1>4. A \intersect C = {}
  BY <1>1
<1>5. IsFiniteSet(A) /\ IsFiniteSet(B)
  BY CountType
<1>6. IsFiniteSet(C) /\ Cardinality(C) = Cardinality(B)
  <2>1. \A i \in B : shift[i] \in C
    BY <1>1, <1>2
  <2>2. \A i, j \in B : i # j => shift[i] # shift[j]
    BY <1>1
  <2>3. \A c \in C : \E i \in B : shift[i] = c
    <3>1. ASSUME NEW c \in C PROVE c - m \in B /\ shift[c - m] = c
      <4>1. c \in m + 1..m + n /\ (p \o q)[c] = s
        OBVIOUS
      <4>2. c - m \in 1..n /\ c \in 1..m + n /\ ~(c <= m) /\ c - m + m = c
        BY <1>1, <4>1
      <4>3. q[c - m] = s
        BY <1>2, <4>1, <4>2
      <4> QED  BY <4>2, <4>3
    <3> QED  BY <3>1
  <2>4. shift \in Bijection(B, C)
    <3>1. shift \in [B -> C]
      BY <2>1
    <3> QED  BY <3>1, <2>2, <2>3 DEF Bijection, Injection, Surjection, IsInjective
  <2> HIDE DEF B, C, shift
  <2>5. ExistsBijection(B, C)
    BY <2>4 DEF ExistsBijection
  <2> QED  BY <1>5, <2>5, FS_Bijection
<1>7. Cardinality(A \union C) = Cardinality(A) + Cardinality(C) - Cardinality({})
  <2> HIDE DEF A, B, C
  <2> QED  BY <1>4, <1>5, <1>6, FS_Union
<1>8. Cardinality({}) = 0 /\ Cardinality(A) \in Nat /\ Cardinality(B) \in Nat
  BY <1>5, FS_EmptySet, FS_CardinalityType
<1>9. /\ Count(s, p \o q) = Cardinality(A \union C)
      /\ Count(s, p) = Cardinality(A) /\ Count(s, q) = Cardinality(B)
  BY <1>3 DEF Count
<1> HIDE DEF A, B, C
<1> QED  BY <1>6, <1>7, <1>8, <1>9

LEMMA CountHead ==
    ASSUME NEW s \in Step, NEW p \in Seq(Step), p # <<>>
    PROVE  Count(s, p) = (IF s = Head(p) THEN 1 ELSE 0) + Count(s, Tail(p))
<1>1. Head(p) \in Step /\ Tail(p) \in Seq(Step) /\ Len(Tail(p)) = Len(p) - 1
      /\ \A i \in 1..Len(Tail(p)) : Tail(p)[i] = p[i + 1]
  BY HeadTailProperties
<1>2. <<Head(p)>> \in Seq(Step) /\ Len(<<Head(p)>>) = 1 /\ <<Head(p)>>[1] = Head(p)
  BY <1>1
<1>3. p = <<Head(p)>> \o Tail(p)
  <2> DEFINE q == <<Head(p)>> \o Tail(p)
  <2>1. Len(p) \in Nat /\ Len(p) >= 1 /\ Head(p) = p[1]
    BY EmptySeq, LenProperties
  <2>2. q \in Seq(Step) /\ Len(q) = Len(p)
    BY <1>1, <1>2, <2>1, ConcatProperties
  <2>3. ASSUME NEW i \in 1..Len(p) PROVE p[i] = q[i]
    <3>1. q[i] = IF i <= 1 THEN <<Head(p)>>[i] ELSE Tail(p)[i - 1]
      BY <1>1, <1>2, <2>1, ConcatProperties
    <3>2. CASE i = 1
      BY <1>2, <2>1, <3>1, <3>2
    <3>3. CASE i # 1
      <4>1. i - 1 \in 1..Len(Tail(p)) /\ ~(i <= 1) /\ i - 1 + 1 = i
        BY <1>1, <2>1, <3>3
      <4> QED  BY <1>1, <3>1, <4>1
    <3> QED  BY <3>2, <3>3
  <2> HIDE DEF q
  <2> QED  BY <2>2, <2>3, SeqEqual
<1>4. Count(s, <<Head(p)>> \o Tail(p)) = Count(s, <<Head(p)>>) + Count(s, Tail(p))
  BY <1>1, <1>2, CountConcat
<1>5. Count(s, <<Head(p)>>) = IF s = Head(p) THEN 1 ELSE 0
  BY <1>1, CountOne
<1>6. Count(s, p) = Count(s, <<Head(p)>> \o Tail(p))
  BY <1>3
<1> QED  BY <1>4, <1>5, <1>6

\* The first step of the plan is taken, and what is put into the plan is owed.
LEMMA SettlesKeeps ==
    ASSUME TypeOK, Owed, plan # <<>>, NEW put \in Seq(Step), Settles(put),
           \/ plan' = put \o Tail(plan)
           \/ \E x \in Step : put = <<x>> /\ plan' = Append(Tail(plan), x)
    PROVE  plan' \in Seq(Step) /\ Owed' /\ owed' \in [Step -> Nat]
<1>1. Tail(plan) \in Seq(Step) /\ plan \in Seq(Step)
  BY HeadTailProperties DEF TypeOK
<1>2. plan' = put \o Tail(plan) \/ plan' = Tail(plan) \o put
  BY <1>1, AppendIsConcat
<1>3. plan' \in Seq(Step)
  BY <1>1, <1>2, ConcatProperties
<1>4. ASSUME NEW s \in Step
      PROVE  owed'[s] = Count(s, plan') /\ owed'[s] \in Nat
  <2>1. Count(s, plan') = Count(s, put) + Count(s, Tail(plan))
    <3>1. Count(s, put) \in Nat /\ Count(s, Tail(plan)) \in Nat
      BY <1>1, CountType
    <3>2. /\ Count(s, put \o Tail(plan)) = Count(s, put) + Count(s, Tail(plan))
          /\ Count(s, Tail(plan) \o put) = Count(s, Tail(plan)) + Count(s, put)
      BY <1>1, CountConcat
    <3>3. CASE plan' = put \o Tail(plan)
      BY <3>2, <3>3
    <3>4. CASE plan' = Tail(plan) \o put
      BY <3>1, <3>2, <3>4
    <3> QED  BY <1>2, <3>3, <3>4
  <2>2. owed[s] = (IF s = Head(plan) THEN 1 ELSE 0) + Count(s, Tail(plan))
    BY <1>1, CountHead DEF Owed
  <2>3. owed'[s] = owed[s] + Count(s, put) - (IF s = Head(plan) THEN 1 ELSE 0)
    BY DEF Settles
  <2>4. Count(s, put) \in Nat /\ Count(s, Tail(plan)) \in Nat
    BY <1>1, CountType
  <2> QED  BY <2>1, <2>2, <2>3, <2>4
<1>5. owed' = [s \in Step |-> owed'[s]]
  BY DEF Settles
<1>6. owed' \in [Step -> Nat]
  BY <1>4, <1>5
<1>7. Owed'
  BY <1>4 DEF Owed, Count
<1> QED  BY <1>3, <1>6, <1>7

\* Nothing is put into the plan.
LEMMA TailSettles ==
    ASSUME TypeOK, Owed, plan # <<>>, plan' = Tail(plan), Settles(<<>>)
    PROVE  plan' \in Seq(Step) /\ Owed' /\ owed' \in [Step -> Nat]
<1>1. <<>> \in Seq(Step) /\ Tail(plan) \in Seq(Step) /\ Tail(plan) = <<>> \o Tail(plan)
  BY EmptySeq, HeadTailProperties, ConcatEmptySeq DEF TypeOK
<1> QED  BY <1>1, SettlesKeeps
-----------------------------------------------------------------------------
(***************************************************************************)
(* The subtasks.                                                           *)
(***************************************************************************)
LEMMA IndexType ==
    ASSUME TypeOK, Subtasks > 0
    PROVE  index \in 1..Subtasks /\ index \in Nat
BY AgentAssumption DEF TypeOK

\* A status set at the current subtask disturbs no other.
LEMMA SetCurrentKeeps ==
    ASSUME TypeOK, SubtasksInOrder, Subtasks > 0,
           NEW s \in SubtaskStatus, SetCurrent(s), UNCHANGED index
    PROVE  /\ status' \in [1..Subtasks -> SubtaskStatus]
           /\ SubtasksInOrder'
<1>1. index \in 1..Subtasks /\ index \in Nat
  BY IndexType
<1> QED  BY <1>1, AgentAssumption DEF TypeOK, SubtasksInOrder, SetCurrent

\* The current subtask is done, and the first one behind it that is open is next.
LEMMA AdvanceKeeps ==
    ASSUME TypeOK, SubtasksInOrder, Subtasks > 0, SetCurrent("done"), Advance
    PROVE  /\ status' \in [1..Subtasks -> SubtaskStatus]
           /\ index' \in 1..Subtasks
           /\ SubtasksInOrder'
<1>1. index \in 1..Subtasks /\ index \in Nat /\ Subtasks \in Nat
  BY IndexType, AgentAssumption
<1>2. status' \in [1..Subtasks -> SubtaskStatus]
  BY <1>1 DEF TypeOK, SetCurrent, SubtaskStatus
<1>3. CASE LaterOpen = {}
  BY <1>1, <1>2, <1>3, SetCurrentKeeps DEF Advance, SubtaskStatus
<1>4. CASE LaterOpen # {}
  <2>1. index + 1 \in LaterOpen /\ \A j \in LaterOpen : index + 1 <= j
    BY <1>1, <1>4 DEF LaterOpen, SubtasksInOrder
  <2>2. index' \in LaterOpen /\ \A j \in LaterOpen : index' <= j
    BY <1>4, <2>1 DEF Advance
  <2>3. index' = index + 1 /\ index + 1 \in 1..Subtasks
    BY <1>1, <2>1, <2>2 DEF LaterOpen
  <2>4. SubtasksInOrder'
    BY <1>1, <2>3 DEF SubtasksInOrder, SetCurrent, TypeOK
  <2> QED  BY <1>2, <2>3, <2>4
<1> QED  BY <1>3, <1>4, <1>2

\* What the subtasks keep in every step.
SubtasksKept ==
    /\ status' \in [1..Subtasks -> SubtaskStatus]
    /\ index' \in 1..(Subtasks + 1) /\ (Subtasks > 0 => index' <= Subtasks)
    /\ SubtasksInOrder'

LEMMA UnchangedKept ==
    ASSUME TypeOK, SubtasksInOrder, UNCHANGED <<status, index>>
    PROVE  SubtasksKept
BY DEF TypeOK, SubtasksInOrder, SubtasksKept

LEMMA SetKept ==
    ASSUME TypeOK, SubtasksInOrder, Subtasks > 0,
           NEW s \in SubtaskStatus, SetCurrent(s), UNCHANGED index
    PROVE  SubtasksKept
BY SetCurrentKeeps DEF TypeOK, SubtasksKept

LEMMA ProgressKept ==
    ASSUME TypeOK, SubtasksInOrder, NEW by, Progress(by)
    PROVE  SubtasksKept
<1>1. CASE Subtasks = 0
  BY <1>1, UnchangedKept DEF Progress
<1>2. CASE Subtasks # 0
  <2>1. Subtasks > 0 /\ Subtasks \in Nat
    BY <1>2, AgentAssumption
  <2>2. "observed" \in SubtaskStatus /\ "in_progress" \in SubtaskStatus
    BY DEF SubtaskStatus
  <2>3. CASE SetCurrent("observed") /\ UNCHANGED index
    BY <2>1, <2>2, <2>3, SetKept
  <2>4. CASE SetCurrent("in_progress") /\ UNCHANGED index
    BY <2>1, <2>2, <2>4, SetKept
  <2>5. CASE SetCurrent("done") /\ Advance
    <3>1. /\ status' \in [1..Subtasks -> SubtaskStatus]
          /\ index' \in 1..Subtasks
          /\ SubtasksInOrder'
      BY <2>1, <2>5, AdvanceKeeps
    <3> QED  BY <3>1, <2>1 DEF SubtasksKept
  <2> QED  BY <1>2, <2>3, <2>4, <2>5 DEF Progress
<1> QED  BY <1>1, <1>2

LEMMA BlockedKept ==
    ASSUME TypeOK, SubtasksInOrder, Blocked
    PROVE  SubtasksKept
<1>1. CASE Subtasks = 0
  BY <1>1, UnchangedKept DEF Blocked
<1>2. CASE Subtasks # 0
  BY <1>2, AgentAssumption, SetKept DEF Blocked, SubtaskStatus
<1> QED  BY <1>1, <1>2

LEMMA MainlineKept ==
    ASSUME TypeOK, SubtasksInOrder, CheckMainline
    PROVE  SubtasksKept
BY UnchangedKept, SetKept DEF CheckMainline, SubtaskStatus
-----------------------------------------------------------------------------
(***************************************************************************)
(* The steps.                                                              *)
(***************************************************************************)
\* What a plan and what is owed to it keep in every step.
PlanKept == plan' \in Seq(Step) /\ Owed' /\ owed' \in [Step -> Nat]

\* A step that takes an iteration is made by a run that is not over.
LEMMA TakeKeeps ==
    ASSUME TypeOK, NEW k, Take(k)
    PROVE  /\ state = "running" /\ plan # <<>>
           /\ iteration' \in 0..MaxIterations
           /\ decision' \in Tools \union {None}
           /\ budget' \in Nat
           /\ active' \subseteq Occasions
           /\ runs' \in 0..MaxRuns
           /\ workflow' \in BOOLEAN
           /\ approval' \in {"nothing", "required", "else"}
           /\ Current \in Step
           /\ Tail(plan) \in Seq(Step)
BY CurrentType, AgentAssumption DEF Take, Looping, TypeOK

LEMMA Conclude ==
    ASSUME TypeOK, SubtasksKept, PlanKept, NEW k, Take(k),
           state' \in {"running", "raised"},
           retries' \in Nat, replanned' \in BOOLEAN, mutated' \in BOOLEAN,
           evidence' \in BOOLEAN
    PROVE  IInv'
<1>1. TypeOK'
  BY TakeKeeps DEF TypeOK, SubtasksKept, PlanKept
<1>2. LeftOver'
  BY DEF LeftOver
<1> QED  BY <1>1, <1>2 DEF IInv, SubtasksKept, PlanKept

LEMMA QuietSteps ==
    ASSUME IInv, ObserveStep \/ FinalStep \/ NamelessStep
    PROVE  IInv'
<1> PICK k \in {"observe", "final", "tool"} :
        TakeQuietly(k) /\ plan' = Tail(plan) /\ Settles(<<>>)
  BY DEF ObserveStep, FinalStep, NamelessStep
<1>1. SubtasksKept
  BY ProgressKept, UnchangedKept DEF IInv, ObserveStep, FinalStep, NamelessStep
<1>2. Take(k) /\ UNCHANGED <<state, retries, mutated, evidence, replanned>>
  BY DEF TakeQuietly, ObserveStep, FinalStep, NamelessStep
<1>3. TypeOK /\ state = "running" /\ plan # <<>>
  BY <1>2, TakeKeeps DEF IInv
<1>4. PlanKept
  BY <1>3, TailSettles DEF PlanKept, IInv
<1> QED  BY <1>1, <1>2, <1>3, <1>4, Conclude DEF TypeOK

LEMMA ReflectStepKeeps ==
    ASSUME IInv, ReflectStep
    PROVE  IInv'
<1>1. Take("reflect") /\ UNCHANGED <<state, retries, mutated, evidence>>
  BY DEF ReflectStep, TakeQuietly
<1>2. SubtasksKept
  BY MainlineKept DEF IInv, ReflectStep
<1>3. TypeOK /\ Owed /\ state = "running" /\ plan # <<>>
  BY <1>1, TakeKeeps DEF IInv
<1>4. PlanKept /\ replanned' \in BOOLEAN
  <2>1. ASSUME NEW n \in 0..NewSteps, NEW tools \in [1..n -> Mutating],
               plan' = [i \in 1..n |-> Tool(tools[i])] \o Tail(plan),
               Settles([i \in 1..n |-> Tool(tools[i])])
        PROVE  PlanKept
    <3>1. \A i \in 1..n : Tool(tools[i]) \in Step
      BY Steps, AgentAssumption
    <3>2. n \in Nat
      BY AgentAssumption
    <3>3. [i \in 1..n |-> Tool(tools[i])] \in Seq(Step)
      BY <3>1, <3>2, IsASeq
    <3> QED  BY <2>1, <3>3, <1>3, SettlesKeeps DEF PlanKept
  <2>2. CASE CodeChange /\ ~mutated /\ ~replanned
    BY <2>1, <2>2 DEF ReflectStep
  <2>3. CASE ~(CodeChange /\ ~mutated /\ ~replanned)
    BY <2>3, <1>3, TailSettles DEF ReflectStep, PlanKept, TypeOK
  <2> QED  BY <2>2, <2>3
<1> QED  BY <1>1, <1>2, <1>3, <1>4, Conclude DEF TypeOK

\* A repair puts nothing or <<Reflect, a tool>> in front of what is retried.
LEMMA RepairKeeps ==
    ASSUME TypeOK, Owed, plan # <<>>, NEW t \in Tools, NEW retry \in Seq(Step),
           Repair(t, retry)
    PROVE  PlanKept /\ retries' \in Nat
<1>1. PICK r \in Suggested(t) :
        IF r = None \/ retries >= budget
        THEN plan' = retry \o Tail(plan) /\ Settles(retry) /\ UNCHANGED retries
        ELSE LET put == <<Reflect, Tool(r)>> \o retry
             IN  plan' = put \o Tail(plan) /\ Settles(put) /\ retries' = retries + 1
  BY DEF Repair
<1>2. r \in Tools \union {None}
  BY AgentAssumption DEF Suggested
<1>3. <<Reflect, Tool(r)>> \o retry \in Seq(Step)
  BY <1>2, Steps, Prepended
<1>4. retries \in Nat /\ retries + 1 \in Nat
  BY DEF TypeOK
<1>5. CASE r = None \/ retries >= budget
  BY <1>1, <1>4, <1>5, SettlesKeeps DEF PlanKept
<1>6. CASE ~(r = None \/ retries >= budget)
  BY <1>1, <1>3, <1>4, <1>6, SettlesKeeps DEF PlanKept
<1> QED  BY <1>5, <1>6

LEMMA ToolSteps ==
    ASSUME IInv, NEW t \in Tools, ToolSucceeds(t) \/ ToolFails(t) \/ ReplanRaises(t)
    PROVE  IInv'
<1>1. /\ Take("tool") /\ UNCHANGED replanned
  BY DEF ToolSucceeds, ToolFails, ReplanRaises, Succeeds, Fails, RunTool
<1>2. TypeOK /\ SubtasksInOrder /\ Owed /\ state = "running" /\ plan # <<>>
  BY <1>1, TakeKeeps DEF IInv
<1>3. SubtasksKept
  BY <1>2, ProgressKept, BlockedKept DEF ToolSucceeds, ToolFails, ReplanRaises, Succeeds, Fails
<1>4. mutated' \in BOOLEAN /\ evidence' \in BOOLEAN
  BY <1>2 DEF TypeOK, ToolSucceeds, ToolFails, ReplanRaises, Succeeds, Fails
<1>5. state' \in {"running", "raised"}
  BY <1>2 DEF ToolSucceeds, ToolFails, ReplanRaises
<1>6. <<>> \in Seq(Step) /\ <<Tool(t)>> \in Seq(Step)
  <2>1. Tool(t) \in Step
    BY Steps
  <2> QED  BY <2>1, EmptySeq
<1>7. PlanKept /\ retries' \in Nat
  <2>1. CASE ToolSucceeds(t)
    <3>1. PICK put \in {<<>>, <<Tool(t)>>} : plan' = put \o Tail(plan) /\ Settles(put)
      BY <2>1 DEF ToolSucceeds
    <3>2. retries' \in Nat
      BY <2>1, <1>2 DEF ToolSucceeds, Succeeds, TypeOK
    <3> QED  BY <1>2, <1>6, <3>1, <3>2, SettlesKeeps DEF PlanKept
  <2>2. CASE ToolFails(t)
    BY <2>2, <1>2, <1>6, RepairKeeps DEF ToolFails
  <2>3. CASE ReplanRaises(t)
    BY <2>3, <1>2 DEF ReplanRaises, Succeeds, TypeOK, PlanKept, Owed, Count
  <2> QED  BY <2>1, <2>2, <2>3
<1>8. replanned' \in BOOLEAN
  BY <1>1, <1>2 DEF TypeOK
<1> QED  BY <1>1, <1>2, <1>3, <1>4, <1>5, <1>7, <1>8, Conclude

LEMMA HeldBackIsHoldable ==
    ASSUME TypeOK
    PROVE  HeldBack \subseteq Holdable
BY DEF HeldBack, HeldBySession, HeldBy, Holdable

\* A deferred step is put at the end of the plan; alone in it, it can be held back.
LEMMA DeferKeeps ==
    ASSUME IInv, Defer
    PROVE  IInv'
<1> USE DEF Defer
<1>1. /\ TypeOK /\ SubtasksInOrder /\ Owed /\ state = "running" /\ plan # <<>>
      /\ Current \in Step /\ Tail(plan) \in Seq(Step)
  BY CurrentType DEF IInv, Looping
<1>2. PlanKept
  <2>1. <<Current>> \in Seq(Step)
    BY <1>1
  <2> QED  BY <1>1, <2>1, SettlesKeeps DEF PlanKept
<1>3. SubtasksKept
  BY <1>1, UnchangedKept
<1>4. TypeOK'
  <2>1. iteration' \in 0..MaxIterations
    BY <1>1, AgentAssumption DEF TypeOK, Looping
  <2> QED  BY <1>1, <1>2, <1>3, <2>1 DEF TypeOK, SubtasksKept, PlanKept, counters
<1>5. LeftOver'
  <2>1. ASSUME state' = "answered" PROVE plan' = <<Current>> /\ Current.tool \in Holdable
    <3>1. Len(plan') = 1
      BY <1>1, <2>1
    <3>2. Len(Tail(plan)) = 0
      BY <1>1, <3>1, AppendProperties, LenProperties
    <3>3. plan'[1] = Current /\ plan' \in Seq(Step)
      <4>1. plan'[Len(Tail(plan)) + 1] = Current /\ plan' \in Seq(Step)
        BY <1>1, AppendProperties
      <4>2. Len(Tail(plan)) + 1 = 1
        BY <3>2
      <4> HIDE DEF Defer
      <4> QED  BY <4>1, <4>2
    <3>4. plan' = <<Current>>
      <4>1. <<Current>> \in Seq(Step) /\ Len(<<Current>>) = 1 /\ <<Current>>[1] = Current
        BY <1>1
      <4>2. \A i \in 1..Len(plan') : plan'[i] = <<Current>>[i]
        <5> HIDE DEF Defer
        <5>1. \A i \in 1..Len(plan') : i = 1
          BY <3>1
        <5> QED  BY <3>3, <4>1, <5>1
      <4> HIDE DEF Defer
      <4> QED  BY <3>1, <3>3, <4>1, <4>2, SeqEqual
    <3> QED  BY <1>1, <3>4, HeldBackIsHoldable DEF Deferred
  <2> QED  BY <1>1, <2>1 DEF LeftOver
<1> QED  BY <1>2, <1>3, <1>4, <1>5 DEF IInv, SubtasksKept, PlanKept

LEMMA BeginKeeps ==
    ASSUME IInv, Begin
    PROVE  IInv'
<1> USE DEF Begin
<1>1. plan' \in Seq(Step)
  <2>1. PICK n \in 0..PlanLength : \E steps \in [1..n -> Step] : plan' = Planned(steps)
    OBVIOUS
  <2>2. n \in Nat
    BY AgentAssumption
  <2> QED  BY <2>1, <2>2, PlannedType
<1>2. owed' \in [Step -> Nat] /\ \A s \in Step : owed'[s] = Count(s, plan')
  BY <1>1, CountType
<1>3. TypeOK'
  <2>1. iteration' \in 0..MaxIterations /\ budget' \in Nat /\ retries' \in Nat
    BY AgentAssumption
  <2>2. runs' \in 0..MaxRuns
    BY AgentAssumption DEF IInv, TypeOK
  <2> QED  BY <1>1, <1>2, <2>1, <2>2 DEF IInv, TypeOK
<1>4. Owed'
  BY <1>2 DEF Owed, Count
<1>5. SubtasksInOrder' /\ LeftOver'
  BY DEF IInv, SubtasksInOrder, LeftOver
<1> QED  BY <1>3, <1>4, <1>5 DEF IInv

\* The steps that only change where the run is, or the approvals.
LEMMA OtherSteps ==
    ASSUME IInv, Denied \/ OccasionsChange \/ Raises \/ Answer \/ UNCHANGED vars
    PROVE  IInv'
<1>1. CASE Denied
  <2>1. runs' \in 0..MaxRuns
    BY <1>1, AgentAssumption DEF Denied, IInv, TypeOK
  <2> QED
    BY <1>1, <2>1 DEF Denied, IInv, TypeOK, SubtasksInOrder, Owed, Count, LeftOver
<1>2. CASE OccasionsChange
  BY <1>2
  DEF OccasionsChange, counters, IInv, TypeOK, SubtasksInOrder, Owed, Count, LeftOver
<1>3. CASE Answer
  <2>1. TypeOK' /\ SubtasksInOrder' /\ Owed'
    BY <1>3 DEF Answer, counters, IInv, TypeOK, SubtasksInOrder, Owed, Count
  <2>2. iteration \in 0..MaxIterations /\ MaxIterations \in Nat
    BY AgentAssumption DEF IInv, TypeOK
  <2>3. LeftOver'
    BY <1>3, <2>2 DEF Answer, Looping, LeftOver
  <2> QED  BY <2>1, <2>3 DEF IInv
<1>4. CASE UNCHANGED vars
  BY <1>4 DEF vars, counters, IInv, TypeOK, SubtasksInOrder, Owed, Count, LeftOver
<1>5. CASE Raises
  BY <1>5 DEF Raises, counters, IInv, TypeOK, SubtasksInOrder, Owed, Count, LeftOver
<1> QED  BY <1>1, <1>2, <1>3, <1>4, <1>5

LEMMA InitIInv == Init => IInv
<1> SUFFICES ASSUME Init PROVE IInv
  OBVIOUS
<1> USE DEF Init
<1>1. TypeOK
  <2>1. 0 \in 0..MaxIterations /\ 0 \in 0..MaxRuns /\ 1 \in 1..(Subtasks + 1)
        /\ (Subtasks > 0 => 1 <= Subtasks)
    BY AgentAssumption
  <2>2. plan \in Seq(Step)
    BY EmptySeq
  <2>3. status \in [1..Subtasks -> SubtaskStatus]
    BY DEF SubtaskStatus
  <2> QED  BY <2>1, <2>2, <2>3 DEF TypeOK
<1>2. SubtasksInOrder /\ LeftOver
  BY AgentAssumption DEF SubtasksInOrder, LeftOver
<1>3. Owed
  BY CountEmpty DEF Owed
<1> QED  BY <1>1, <1>2, <1>3 DEF IInv

LEMMA NextIInv == IInv /\ [Next]_vars => IInv'
BY BeginKeeps, OtherSteps, DeferKeeps, QuietSteps, ReflectStepKeeps, ToolSteps
   DEF Next, Iterate

THEOREM Invariance == Spec => []IInv
BY InitIInv, NextIInv, PTL DEF Spec

\* Every variable has its type; no run makes more than max_iterations.
THEOREM TypeCorrect == Spec => []TypeOK
<1>1. IInv => TypeOK
  BY DEF IInv
<1> QED  BY <1>1, Invariance, PTL

\* The subtasks are worked off in order, through failures, repairs and resumed runs.
THEOREM SubtasksStayInOrder == Spec => []SubtasksInOrder
<1>1. IInv => SubtasksInOrder
  BY DEF IInv
<1> QED  BY <1>1, Invariance, PTL

\* A run that is answered early has taken every step that anything put into its plan,
\* but for one that may be held back.
THEOREM StepsAreKept == Spec => []NoStepIsLost
<1>1. ASSUME IInv, state = "answered", iteration < MaxIterations
      PROVE  Nothing \/ \E h \in Step : Only(h) /\ h.tool \in Holdable
  <2>1. CASE plan = <<>>
    BY <1>1, <2>1, CountEmpty DEF IInv, Owed, Nothing
  <2>2. CASE \E h \in Step : plan = <<h>> /\ h.tool \in Holdable
    BY <1>1, <2>2, CountOne DEF IInv, Owed, Only
  <2> QED  BY <1>1, <2>1, <2>2 DEF IInv, LeftOver
<1>2. IInv => NoStepIsLost
  BY <1>1 DEF NoStepIsLost, Holdable
<1> QED  BY <1>2, Invariance, PTL
=============================================================================
