----------------------- MODULE WorkflowScheduleProofs -----------------------
(***************************************************************************)
(* Proofs about WorkflowSchedule. TypeCorrect, TriggeredHasRun and         *)
(* RunsOncePerLoad are for any number of processes that share the file.    *)
(* The other theorems are for one process (OneProcess), with any number of *)
(* schedules and crashes, any lease and cap, and any fault of the disk.    *)
(***************************************************************************)
EXTENDS WorkflowSchedule, FiniteSetTheorems, TLAPS

IsPending(r) == r # Absent /\ r.status = "pending"
IsTriggered(r) == r # Absent /\ r.status = "triggered"

\* What a run_due call is about: the rest of its batch is pending in its memory,
\* and the record it handles is there.
Handling ==
    \A p \in Processes :
        /\ p \notin up => stage[p] = "idle"
        /\ stage[p] = "idle" => batch[p] = {}
        /\ stage[p] \in {"idle", "loop"} => current[p] = None
        /\ stage[p] \notin {"idle", "loop"} => /\ current[p] \in Schedules
                                               /\ mem[p][current[p]] # Absent
        /\ \A s \in batch[p] : s = current[p] \/ IsPending(mem[p][s])

\* A schedule that is called triggered, or is about to be, has run.
Ran ==
    /\ \A p \in Processes, s \in Schedules : IsTriggered(mem[p][s]) => runs[s] > 0
    /\ file # Torn => \A s \in Schedules : IsTriggered(file[s]) => runs[s] > 0
    /\ \A p \in Processes : stage[p] \in {"started", "unmarked"} => runs[current[p]] > 0

\* The invariant that needs no assumption on the number of processes.
Base == TypeOK /\ Handling /\ Ran

-----------------------------------------------------------------------------
(* The operators of the store                                               *)

\* list returns records it was given.
LEMMA NewestIsPart == \A S, limit : Newest(S, limit) \subseteq S
  BY DEF Newest

\* acquire_due takes pending records that no lease is on.
LEMMA AcquirableArePending ==
  ASSUME NEW m
  PROVE  \A s \in Acquirable(m) : s \in Schedules /\ IsPending(m[s]) /\ m[s].lease = 0
  BY NewestIsPart DEF Acquirable, Due, Pending, Present, IsPending

\* A record is never the sentinel.
LEMMA RecordsArePresent == Absent \notin Record /\ Torn \notin Store /\ None \notin Schedules
  BY SentinelAssumption

\* The empty store, which Init and Crash leave.
LEMMA NothingIsStore == Nothing \in Store
  BY DEF Nothing, Store

\* The three updates of a record: mark, acquire_due, the clock.
Marked(r, status, lease, holder) ==
    [r EXCEPT !.status = status, !.lease = lease, !.holder = holder]
Leased(r, lease, holder) == [r EXCEPT !.lease = lease, !.holder = holder]
Counted(r, delay, lease) == [r EXCEPT !.delay = delay, !.lease = lease]

\* mark keeps it a record, with the new status.
LEMMA MarkedRecord ==
  ASSUME NEW r \in Record, NEW lease \in 0..Lease, NEW holder \in Processes \union {None},
         NEW status \in {"pending", "triggered", "canceled", "failed"}
  PROVE  /\ Marked(r, status, lease, holder) \in Record
         /\ Marked(r, status, lease, holder).status = status
  BY DEF Record, Marked

\* A lease changes no status.
LEMMA LeasedRecord ==
  ASSUME NEW r \in Record, NEW lease \in 0..Lease, NEW holder \in Processes \union {None}
  PROVE  /\ Leased(r, lease, holder) \in Record
         /\ Leased(r, lease, holder).status = r.status
         /\ Leased(r, lease, holder).lease = lease
  BY DEF Record, Leased

\* Nor does the clock.
LEMMA CountedRecord ==
  ASSUME NEW r \in Record, NEW delay \in 0..MaxDelay, NEW lease \in 0..Lease
  PROVE  /\ Counted(r, delay, lease) \in Record
         /\ Counted(r, delay, lease).status = r.status
         /\ Counted(r, delay, lease).lease = lease
  BY DEF Record, Counted

\* mark changes one record.
LEMMA Marking ==
  ASSUME NEW m \in Store, NEW s \in Schedules, m[s] # Absent,
         NEW status \in {"pending", "triggered", "canceled", "failed"}
  PROVE  /\ Mark(m, s, status) \in Store
         /\ Mark(m, s, status)[s] # Absent
         /\ Mark(m, s, status)[s].status = status
  <1> DEFINE r == Marked(m[s], status, 0, None)
  <1>1. m[s] \in Record
    BY DEF Store
  <1>2. 0 \in 0..Lease /\ None \in Processes \union {None}
    BY ScheduleAssumption
  <1>3. r \in Record /\ r.status = status
    BY <1>1, <1>2, MarkedRecord
  <1>4. Mark(m, s, status) = [m EXCEPT ![s] = r]
    BY DEF Mark, Marked
  <1> HIDE DEF r
  <1> QED
    BY <1>3, <1>4, RecordsArePresent DEF Store

\* It leaves the others alone.
LEMMA MarkingOne ==
  ASSUME NEW m \in Store, NEW s, NEW status, NEW t \in Schedules, t # s
  PROVE  Mark(m, s, status)[t] = m[t]
  BY DEF Mark, Store

\* Whatever happens to the write, each record of the file that can still be read is
\* missing, as in memory, or as before; and a write that succeeds leaves no old one.
LEMMA Persisting ==
  ASSUME NEW m \in Store, NEW ok \in BOOLEAN, Persist(m, ok), file \in Store \union {Torn}
  PROVE  /\ file' \in Store \union {Torn}
         /\ file' # Torn => \A s \in Schedules :
               file'[s] \in {Absent, m[s]} \/ (~ok /\ file # Torn /\ file'[s] = file[s])
  <1>1. Saved(m) \in Store /\ \A s \in Schedules : Saved(m)[s] \in {Absent, m[s]}
    BY DEF Saved, Store
  <1> QED
    BY <1>1 DEF Persist

\* The clock changes no status, and keeps every record in its type.
LEMMA Counting ==
  ASSUME NEW m \in Store
  PROVE  /\ CountDown(m) \in Store
         /\ \A s \in Schedules :
               /\ CountDown(m)[s] = Absent <=> m[s] = Absent
               /\ m[s] # Absent =>
                     /\ CountDown(m)[s].status = m[s].status
                     /\ CountDown(m)[s].lease = IF m[s].lease = 0 THEN 0 ELSE m[s].lease - 1
  <1> DEFINE d(s) == IF m[s].delay = 0 THEN 0 ELSE m[s].delay - 1
             l(s) == IF m[s].lease = 0 THEN 0 ELSE m[s].lease - 1
             r(s) == Counted(m[s], d(s), l(s))
  <1>1. ASSUME NEW s \in Schedules, m[s] # Absent
        PROVE  r(s) \in Record /\ r(s).status = m[s].status /\ r(s).lease = l(s)
    <2>1. m[s] \in Record
      BY <1>1 DEF Store
    <2>2. m[s].delay \in 0..MaxDelay /\ m[s].lease \in 0..Lease
      BY <2>1 DEF Record
    <2>3. d(s) \in 0..MaxDelay /\ l(s) \in 0..Lease
      BY <2>2, ScheduleAssumption
    <2> HIDE DEF d, l
    <2> QED
      BY <2>1, <2>3, CountedRecord
  <1>2. CountDown(m) = [s \in Schedules |-> IF m[s] = Absent THEN Absent ELSE r(s)]
    BY DEF CountDown, Counted
  <1> HIDE DEF r
  <1> QED
    BY <1>1, <1>2, RecordsArePresent DEF Store

-----------------------------------------------------------------------------
(* The invariant for any number of processes                                *)

\* The stores are empty at first.
LEMMA InitBase == Init => Base
  <1> SUFFICES ASSUME Init PROVE Base
    OBVIOUS
  <1>1. \A s \in Schedules : Nothing[s] = Absent
    BY DEF Nothing
  <1>2. TypeOK
    BY NothingIsStore, ScheduleAssumption DEF Init, TypeOK
  <1>3. Handling
    BY DEF Init, Handling
  <1>4. Ran
    BY <1>1 DEF Init, Ran, IsTriggered
  <1> QED
    BY <1>2, <1>3, <1>4 DEF Base

\* The step of a process that changes the record of one schedule in its memory, and
\* writes the file: create, cancel and mark.
Writes(p, s, m, ok) ==
    /\ mem' = [mem EXCEPT ![p] = m]
    /\ m \in Store
    /\ m[s] # Absent
    /\ \A t \in Schedules \ {s} : m[t] = mem[p][t]
    /\ Persist(m, ok)

\* What it leaves in the memories and the file.
LEMMA Writing ==
  ASSUME TypeOK, NEW p \in Processes, NEW s \in Schedules, NEW m, NEW ok \in BOOLEAN,
         Writes(p, s, m, ok)
  PROVE  /\ mem' \in [Processes -> Store]
         /\ mem'[p][s] = m[s]
         /\ \A q \in Processes, t \in Schedules : q # p \/ t # s => mem'[q][t] = mem[q][t]
         /\ file' \in Store \union {Torn}
         /\ file' # Torn => \A t \in Schedules :
               file'[t] \in {Absent, mem'[p][t]} \/ (~ok /\ file # Torn /\ file'[t] = file[t])
  <1>1. mem \in [Processes -> Store] /\ file \in Store \union {Torn}
    BY DEF TypeOK
  <1>2. mem'[p] = m /\ \A q \in Processes : q # p => mem'[q] = mem[q]
    BY <1>1 DEF Writes
  <1>3. /\ file' \in Store \union {Torn}
        /\ file' # Torn => \A t \in Schedules :
              file'[t] \in {Absent, m[t]} \/ (~ok /\ file # Torn /\ file'[t] = file[t])
    BY <1>1, Persisting DEF Writes
  <1> QED
    BY <1>1, <1>2, <1>3 DEF Writes

\* Creating a schedule.
LEMMA CreateWrites ==
  ASSUME TypeOK, NEW p \in Api, NEW s \in Schedules, NEW delay \in 0..MaxDelay,
         Create(p, s, delay)
  PROVE  \E m \in Store, ok \in BOOLEAN :
            /\ Writes(p, s, m, ok)
            /\ m[s].status = "pending" /\ m[s].lease = 0
            /\ confirmed' = IF ok THEN confirmed \union {s} ELSE confirmed
  <1> DEFINE r == [status |-> "pending", delay |-> delay, lease |-> 0, holder |-> None]
             m == [mem[p] EXCEPT ![s] = r]
  <1>1. p \in Processes /\ mem \in [Processes -> Store]
    BY DEF TypeOK, Processes
  <1>2. r \in Record /\ r.status = "pending" /\ r.lease = 0
    BY ScheduleAssumption DEF Record
  <1>3. mem' = [mem EXCEPT ![p] = m]
    BY <1>1 DEF Create
  <1> HIDE DEF r
  <1>4. m \in Store /\ m[s] = r /\ \A t \in Schedules \ {s} : m[t] = mem[p][t]
    BY <1>1, <1>2 DEF Store
  <1>5. mem'[p] = m
    BY <1>1, <1>3
  <1> HIDE DEF m
  <1>6. PICK ok \in BOOLEAN : /\ Persist(m, ok)
                              /\ confirmed' = IF ok THEN confirmed \union {s} ELSE confirmed
    BY <1>5 DEF Create, Outcomes
  <1>7. Writes(p, s, m, ok)
    BY <1>2, <1>3, <1>4, <1>6, RecordsArePresent DEF Writes
  <1> QED
    BY <1>2, <1>4, <1>6, <1>7

\* Creating keeps the invariant: the new record is pending.
LEMMA CreateBase ==
  ASSUME Base, NEW p \in Api, NEW s \in Schedules, NEW delay \in 0..MaxDelay,
         Create(p, s, delay)
  PROVE  Base'
  <1>1. PICK m \in Store, ok \in BOOLEAN :
            /\ Writes(p, s, m, ok)
            /\ m[s].status = "pending"
            /\ confirmed' = IF ok THEN confirmed \union {s} ELSE confirmed
    BY CreateWrites DEF Base
  <1>2. p \in Processes /\ TypeOK
    BY DEF Processes, Base
  <1>3. m[s] # Absent
    BY <1>1 DEF Writes
  <1>4. /\ mem' \in [Processes -> Store]
        /\ mem'[p][s] = m[s]
        /\ \A q \in Processes, t \in Schedules : q # p \/ t # s => mem'[q][t] = mem[q][t]
        /\ file' \in Store \union {Torn}
        /\ file' # Torn => \A t \in Schedules :
              file'[t] \in {Absent, mem'[p][t]} \/ (~ok /\ file # Torn /\ file'[t] = file[t])
    BY <1>1, <1>2, Writing
  <1>5. TypeOK'
    BY <1>1, <1>2, <1>4 DEF TypeOK, Create
  <1>6. Handling'
    BY <1>1, <1>2, <1>3, <1>4 DEF Base, Handling, Create, IsPending, TypeOK
  <1>7. Ran'
    BY <1>1, <1>2, <1>4 DEF Base, Ran, Create, IsTriggered
  <1> QED
    BY <1>5, <1>6, <1>7 DEF Base

\* Canceling a schedule, and marking the one that is handled.
Marks(p, s, status) == mem' = [mem EXCEPT ![p] = Mark(@, s, status)]

\* Both are such a step.
LEMMA MarkWrites ==
  ASSUME TypeOK, NEW p \in Processes, NEW s \in Schedules, mem[p][s] # Absent,
         NEW status \in {"pending", "triggered", "canceled", "failed"}, NEW ok \in BOOLEAN,
         Marks(p, s, status), Persist(mem'[p], ok)
  PROVE  \E m \in Store : Writes(p, s, m, ok) /\ m[s].status = status
  <1> DEFINE m == Mark(mem[p], s, status)
  <1>1. mem \in [Processes -> Store] /\ mem[p] \in Store
    BY DEF TypeOK
  <1>2. /\ m \in Store /\ m[s] # Absent /\ m[s].status = status
        /\ \A t \in Schedules \ {s} : m[t] = mem[p][t]
    <2>1. Mark(mem[p], s, status) \in Store
      BY <1>1, Marking
    <2>2. Mark(mem[p], s, status)[s] # Absent /\ Mark(mem[p], s, status)[s].status = status
      BY <1>1, Marking
    <2>3. \A t \in Schedules : t # s => Mark(mem[p], s, status)[t] = mem[p][t]
      BY <1>1, MarkingOne
    <2> QED
      BY <2>1, <2>2, <2>3
  <1>3. mem' = [mem EXCEPT ![p] = m]
    BY DEF Marks
  <1> HIDE DEF m
  <1>4. mem'[p] = m
    BY <1>1, <1>3
  <1>5. Writes(p, s, m, ok)
    BY <1>2, <1>3, <1>4 DEF Writes
  <1> QED
    BY <1>2, <1>5

\* Canceling keeps the invariant: no run_due of this process is under way.
LEMMA CancelBase ==
  ASSUME Base, NEW p \in Api, NEW s \in Schedules, Cancel(p, s)
  PROVE  Base'
  <1>1. p \in Processes /\ TypeOK /\ mem[p][s] # Absent
    BY DEF Processes, Base, Cancel, Pending, Present
  <1>2. PICK ok \in BOOLEAN :
            /\ Persist(mem'[p], ok)
            /\ withdrawn' = IF ok THEN withdrawn \union {s} ELSE withdrawn
    BY DEF Cancel, Outcomes
  <1>3. PICK m \in Store : Writes(p, s, m, ok) /\ m[s].status = "canceled"
    <2>1. Marks(p, s, "canceled")
      BY DEF Cancel, Marks
    <2>2. "canceled" \in {"pending", "triggered", "canceled", "failed"}
      OBVIOUS
    <2> QED
      BY <1>1, <1>2, <2>1, <2>2, MarkWrites
  <1>4. /\ mem' \in [Processes -> Store]
        /\ mem'[p][s] = m[s]
        /\ \A q \in Processes, t \in Schedules : q # p \/ t # s => mem'[q][t] = mem[q][t]
        /\ file' \in Store \union {Torn}
        /\ file' # Torn => \A t \in Schedules :
              file'[t] \in {Absent, mem'[p][t]} \/ (~ok /\ file # Torn /\ file'[t] = file[t])
    BY <1>1, <1>3, Writing
  <1>5. m[s] # Absent
    BY <1>3 DEF Writes
  <1>6. TypeOK'
    BY <1>1, <1>2, <1>4 DEF TypeOK, Cancel
  <1>7. Handling'
    BY <1>1, <1>4, <1>5 DEF Base, Handling, Cancel, Ready, IsPending, TypeOK
  <1>8. Ran'
    BY <1>1, <1>3, <1>4 DEF Base, Ran, Cancel, IsTriggered
  <1> QED
    BY <1>6, <1>7, <1>8 DEF Base

\* A schedule is leased in memory, then on disk.
LEMMA AcquireBase ==
  ASSUME Base, NEW p \in Processes, Acquire(p)
  PROVE  Base'
  <1> DEFINE taken == Acquirable(mem[p])
             m == [s \in Schedules |-> IF s \in taken THEN Leased(mem[p][s], Lease, p)
                                       ELSE mem[p][s]]
  <1>1. TypeOK /\ mem \in [Processes -> Store] /\ Lease \in 0..Lease
    BY ScheduleAssumption DEF Base, TypeOK
  <1>2. \A s \in taken : s \in Schedules /\ IsPending(mem[p][s])
    BY AcquirableArePending
  <1>3. ASSUME NEW s \in taken
        PROVE  Leased(mem[p][s], Lease, p) \in Record /\ IsPending(Leased(mem[p][s], Lease, p))
    <2>1. mem[p][s] \in Record
      BY <1>1, <1>2 DEF Store, IsPending
    <2>2. p \in Processes \union {None}
      OBVIOUS
    <2>3. /\ Leased(mem[p][s], Lease, p) \in Record
          /\ Leased(mem[p][s], Lease, p).status = mem[p][s].status
      BY <1>1, <2>1, <2>2, LeasedRecord
    <2> QED
      BY <1>2, <2>3, RecordsArePresent DEF IsPending
  <1>4. mem' = [mem EXCEPT ![p] = m]
    BY DEF Acquire, Leased
  <1>5. m \in Store /\ \A s \in Schedules : IF s \in taken THEN IsPending(m[s])
                                            ELSE m[s] = mem[p][s]
    BY <1>1, <1>3 DEF Store
  <1>6. taken \subseteq Schedules
    BY <1>2
  <1>7. PICK ok \in BOOLEAN :
            /\ Persist(mem'[p], ok)
            /\ IF ok
               THEN /\ batch' = [batch EXCEPT ![p] = taken]
                    /\ stage' = [stage EXCEPT ![p] = "loop"]
                    /\ granted' = [s \in Schedules |-> IF s \in taken THEN Lease ELSE granted[s]]
                    /\ UNCHANGED up
               ELSE /\ up' = up \ (Workers \intersect {p})
                    /\ UNCHANGED <<batch, stage, granted>>
    BY DEF Acquire, Outcomes
  <1> HIDE DEF m, taken
  <1>8. /\ mem'[p] = m
        /\ mem' \in [Processes -> Store]
        /\ \A q \in Processes : q # p => mem'[q] = mem[q]
    BY <1>1, <1>4, <1>5
  <1>9. /\ file' \in Store \union {Torn}
        /\ file' # Torn => \A t \in Schedules :
              file'[t] \in {Absent, m[t]} \/ (~ok /\ file # Torn /\ file'[t] = file[t])
    BY <1>1, <1>5, <1>7, <1>8, Persisting DEF TypeOK
  <1>10. /\ p \in up /\ stage[p] = "idle"
         /\ UNCHANGED <<current, crashes, loads, born, confirmed, runs, cut, withdrawn>>
    BY DEF Acquire, Ready
  <1>11. TypeOK'
    <2>1. CASE ok
      <3>1. /\ batch' \in [Processes -> SUBSET Schedules]
            /\ stage' \in [Processes -> {"idle", "loop", "started", "raised", "unmarked"}]
        BY <1>1, <1>6, <1>7, <2>1 DEF TypeOK
      <3>2. granted' \in [Schedules -> 0..Lease]
        <4>1. granted' = [s \in Schedules |-> IF s \in taken THEN Lease ELSE granted[s]]
          BY <1>7, <2>1
        <4>2. \A s \in Schedules : granted[s] \in 0..Lease
          BY <1>1 DEF TypeOK
        <4> QED
          BY <1>1, <4>1, <4>2
      <3> QED
        BY <1>1, <1>7, <1>8, <1>9, <1>10, <2>1, <3>1, <3>2 DEF TypeOK
    <2>2. CASE ~ok
      BY <1>1, <1>7, <1>8, <1>9, <1>10, <2>2 DEF TypeOK
    <2> QED
      BY <2>1, <2>2
  <1>12. Handling'
    <2>1. CASE ok
      BY <1>1, <1>5, <1>6, <1>7, <1>8, <1>10, <2>1 DEF Base, Handling, TypeOK
    <2>2. CASE ~ok
      BY <1>1, <1>7, <1>8, <1>10, <2>2 DEF Base, Handling, TypeOK
    <2> QED
      BY <2>1, <2>2
  <1>13. Ran'
    <2>1. \A s \in Schedules : IsTriggered(m[s]) => runs[s] > 0
      BY <1>5 DEF Base, Ran, IsTriggered, IsPending
    <2>2. \A q \in Processes : stage'[q] \in {"started", "unmarked"} => stage'[q] = stage[q]
      BY <1>1, <1>7 DEF TypeOK
    <2> QED
      BY <1>8, <1>9, <1>10, <2>1, <2>2 DEF Base, Ran, IsTriggered
  <1> QED
    BY <1>11, <1>12, <1>13 DEF Base

\* Starting the run of a schedule of the batch.
LEMMA StartBase ==
  ASSUME Base, NEW p \in Processes, NEW s \in Schedules, Start(p, s) \/ StartRaises(p, s)
  PROVE  Base'
  <1>1. /\ p \in up /\ stage[p] = "loop" /\ s \in batch[p]
        /\ current' = [current EXCEPT ![p] = s]
        /\ \/ stage' = [stage EXCEPT ![p] = "started"] /\ runs' = [runs EXCEPT ![s] = @ + 1]
           \/ stage' = [stage EXCEPT ![p] = "raised"] /\ UNCHANGED runs
        /\ UNCHANGED <<up, mem, file, batch, crashes, loads, born, confirmed, cut, granted, withdrawn>>
    BY DEF Start, StartRaises, history
  <1>2. TypeOK /\ Handling /\ Ran
    BY DEF Base
  <1>3. current[p] = None /\ mem[p][s] # Absent /\ IsPending(mem[p][s])
    BY <1>1, <1>2, RecordsArePresent DEF Handling, IsPending
  <1>4. runs' \in [Schedules -> Nat] /\ \A t \in Schedules : runs'[t] >= runs[t]
    BY <1>1, <1>2 DEF TypeOK
  <1>5. TypeOK'
    BY <1>1, <1>2, <1>4 DEF TypeOK
  <1>6. Handling'
    <2>1. /\ current'[p] = s
          /\ stage'[p] \in {"started", "raised"}
          /\ \A q \in Processes : q # p => current'[q] = current[q] /\ stage'[q] = stage[q]
      BY <1>1, <1>2 DEF TypeOK
    <2>2. \A t \in batch[p] : IsPending(mem[p][t])
      BY <1>2, <1>3, RecordsArePresent DEF TypeOK, Handling
    <2>3. stage'[p] \notin {"idle", "loop"}
      BY <2>1
    <2> QED
      BY <1>1, <1>2, <1>3, <2>1, <2>2, <2>3 DEF Handling
  <1>7. Ran'
    <2>1. \A t \in Schedules : runs[t] \in Nat /\ (runs[t] > 0 => runs'[t] > 0)
      BY <1>2, <1>4 DEF TypeOK
    <2>2. stage'[p] = "started" => runs'[s] > 0
      BY <1>1, <1>2 DEF TypeOK
    <2>3. ASSUME NEW q \in Processes, stage'[q] \in {"started", "unmarked"}
          PROVE  runs'[current'[q]] > 0
      <3>1. CASE q = p
        BY <1>1, <1>2, <2>2, <2>3, <3>1 DEF TypeOK
      <3>2. CASE q # p
        <4>1. stage[q] = stage'[q] /\ current'[q] = current[q] /\ current[q] \in Schedules
          BY <1>1, <1>2, <2>3, <3>2 DEF TypeOK, Handling
        <4> QED
          BY <1>2, <2>1, <2>3, <4>1 DEF Ran
      <3> QED
        BY <3>1, <3>2
    <2> QED
      BY <1>1, <1>2, <2>1, <2>3 DEF Ran
  <1> QED
    BY <1>5, <1>6, <1>7 DEF Base

\* How run_due goes on after a mark: with the rest of the batch, to the handler, or
\* out of it.
Goes(p) ==
    \/ /\ batch' = [batch EXCEPT ![p] = @ \ {current[p]}]
       /\ stage' = [stage EXCEPT ![p] = IF batch'[p] = {} THEN "idle" ELSE "loop"]
       /\ current' = [current EXCEPT ![p] = None]
       /\ UNCHANGED up
    \/ /\ batch' = [batch EXCEPT ![p] = {}]
       /\ stage' = [stage EXCEPT ![p] = "idle"]
       /\ current' = [current EXCEPT ![p] = None]
       /\ up' = up \ (Workers \intersect {p})

\* Marking the record that is handled keeps the invariant.
LEMMA MarkBase ==
  ASSUME Base, NEW p \in Processes, NEW status \in {"triggered", "failed"}, NEW ok \in BOOLEAN,
         p \in up, stage[p] \in {"started", "raised", "unmarked"},
         status = "triggered" => stage[p] = "started",
         Marks(p, current[p], status), Persist(mem'[p], ok),
         \/ Goes(p)
         \/ /\ stage[p] = "started"
            /\ stage' = [stage EXCEPT ![p] = "unmarked"]
            /\ UNCHANGED <<batch, current, up>>,
         cut' \in [Schedules -> Nat],
         UNCHANGED <<crashes, loads, born, confirmed, runs, granted, withdrawn>>
  PROVE  Base'
  <1> DEFINE s == current[p]
  <1>1. TypeOK /\ Handling /\ Ran
    BY DEF Base
  <1>2. s \in Schedules /\ mem[p][s] # Absent
    BY <1>1 DEF Handling
  <1>3. status \in {"pending", "triggered", "canceled", "failed"}
    OBVIOUS
  <1>4. PICK m \in Store : Writes(p, s, m, ok) /\ m[s].status = status
    BY <1>1, <1>2, <1>3, MarkWrites
  <1>5. /\ mem' \in [Processes -> Store]
        /\ mem'[p][s] = m[s]
        /\ \A q \in Processes, t \in Schedules : q # p \/ t # s => mem'[q][t] = mem[q][t]
        /\ file' \in Store \union {Torn}
        /\ file' # Torn => \A t \in Schedules :
              file'[t] \in {Absent, mem'[p][t]} \/ (~ok /\ file # Torn /\ file'[t] = file[t])
    BY <1>1, <1>2, <1>4, Writing
  <1>6. m[s] # Absent
    BY <1>4 DEF Writes
  <1>7. /\ up' \subseteq Processes
        /\ batch' \in [Processes -> SUBSET Schedules]
        /\ current' \in [Processes -> Schedules \union {None}]
        /\ stage' \in [Processes -> {"idle", "loop", "started", "raised", "unmarked"}]
    BY <1>1 DEF TypeOK, Goes
  <1>8. TypeOK'
    BY <1>1, <1>5, <1>7 DEF TypeOK
  <1>9. \A q \in Processes : q # p =>
           /\ batch'[q] = batch[q] /\ current'[q] = current[q] /\ stage'[q] = stage[q]
           /\ q \in up' <=> q \in up
    BY <1>1 DEF TypeOK, Goes
  <1>10. Handling'
    <2>1. ASSUME NEW q \in Processes, q # p
          PROVE  /\ q \notin up' => stage'[q] = "idle"
                 /\ stage'[q] = "idle" => batch'[q] = {}
                 /\ stage'[q] \in {"idle", "loop"} => current'[q] = None
                 /\ stage'[q] \notin {"idle", "loop"} => /\ current'[q] \in Schedules
                                                         /\ mem'[q][current'[q]] # Absent
                 /\ \A t \in batch'[q] : t = current'[q] \/ IsPending(mem'[q][t])
      <3>1. batch[q] \subseteq Schedules
        BY <1>1 DEF TypeOK
      <3> QED
        BY <1>1, <1>5, <1>9, <2>1, <3>1 DEF Handling
    <2>2. /\ p \notin up' => stage'[p] = "idle"
          /\ stage'[p] = "idle" => batch'[p] = {}
          /\ stage'[p] \in {"idle", "loop"} => current'[p] = None
          /\ stage'[p] \notin {"idle", "loop"} => current'[p] = s
      BY <1>1 DEF Goes, TypeOK
    <2>3. \A t \in batch'[p] : t = current'[p] \/ IsPending(mem'[p][t])
      <3>1. ASSUME NEW t \in batch'[p], t # current'[p] PROVE t \in batch[p] /\ t # s
        BY <1>1, <3>1 DEF Goes, TypeOK
      <3>2. batch[p] \subseteq Schedules
        BY <1>1 DEF TypeOK
      <3> QED
        BY <1>1, <1>5, <3>1, <3>2 DEF Handling
    <2> QED
      BY <1>2, <1>5, <1>6, <2>1, <2>2, <2>3 DEF Handling
  <1>11. Ran'
    <2>1. status = "triggered" => runs[s] > 0
      BY <1>1 DEF Ran
    <2>2. \A q \in Processes, t \in Schedules : IsTriggered(mem'[q][t]) => runs[t] > 0
      BY <1>1, <1>4, <1>5, <2>1 DEF Ran, IsTriggered
    <2>3. file' # Torn => \A t \in Schedules : IsTriggered(file'[t]) => runs[t] > 0
      BY <1>1, <1>5, <2>2 DEF Ran, IsTriggered
    <2>4. \A q \in Processes : stage'[q] \in {"started", "unmarked"} => runs[current'[q]] > 0
      <3>1. stage'[p] \in {"started", "unmarked"} =>
               stage[p] \in {"started", "unmarked"} /\ current'[p] = current[p]
        BY <1>1 DEF Goes, TypeOK
      <3> QED
        BY <1>1, <1>9, <3>1 DEF Ran
    <2> QED
      BY <2>2, <2>3, <2>4 DEF Ran
  <1> QED
    BY <1>8, <1>10, <1>11 DEF Base

\* mark(TRIGGERED): when its write fails the handler is next.
LEMMA MarkTriggeredBase ==
  ASSUME Base, NEW p \in Processes, MarkTriggered(p)
  PROVE  Base'
  <1>1. PICK ok \in BOOLEAN :
            /\ Persist(mem'[p], ok)
            /\ IF ok THEN Continue(p)
               ELSE /\ stage' = [stage EXCEPT ![p] = "unmarked"]
                    /\ UNCHANGED <<batch, current>>
    BY DEF MarkTriggered, Outcomes
  <1>2. /\ p \in up /\ stage[p] = "started"
        /\ Marks(p, current[p], "triggered")
        /\ UNCHANGED <<up, crashes, loads, born, confirmed, runs, cut, granted, withdrawn>>
    BY DEF MarkTriggered, Marks, history
  <1>3. cut' \in [Schedules -> Nat]
    BY <1>2 DEF Base, TypeOK
  <1>4. \/ Goes(p)
        \/ /\ stage[p] = "started"
           /\ stage' = [stage EXCEPT ![p] = "unmarked"]
           /\ UNCHANGED <<batch, current, up>>
    BY <1>1, <1>2 DEF Goes, Continue
  <1>5. "triggered" \in {"triggered", "failed"} /\ stage[p] \in {"started", "raised", "unmarked"}
    BY <1>2
  <1> QED
    BY <1>1, <1>2, <1>3, <1>4, <1>5, MarkBase

\* mark(FAILED): when its write fails too, run_due ends.
LEMMA MarkFailedBase ==
  ASSUME Base, NEW p \in Processes, MarkFailed(p)
  PROVE  Base'
  <1>1. PICK ok \in BOOLEAN :
            /\ Persist(mem'[p], ok)
            /\ IF ok THEN Continue(p) /\ UNCHANGED <<up, cut>>
               ELSE /\ batch' = [batch EXCEPT ![p] = {}]
                    /\ stage' = [stage EXCEPT ![p] = "idle"]
                    /\ current' = [current EXCEPT ![p] = None]
                    /\ up' = up \ (Workers \intersect {p})
                    /\ cut' = CutShort(p)
    BY DEF MarkFailed, Outcomes
  <1>2. /\ p \in up /\ stage[p] \in {"raised", "unmarked"}
        /\ Marks(p, current[p], "failed")
        /\ UNCHANGED <<crashes, loads, born, confirmed, runs, granted, withdrawn>>
    BY DEF MarkFailed, Marks
  <1>3. cut' \in [Schedules -> Nat]
    BY <1>1 DEF Base, TypeOK, CutShort
  <1>4. Goes(p)
    BY <1>1 DEF Goes, Continue
  <1>5. /\ "failed" \in {"triggered", "failed"} /\ "failed" # "triggered"
        /\ stage[p] \in {"started", "raised", "unmarked"}
    BY <1>2
  <1> QED
    BY <1>1, <1>2, <1>3, <1>4, <1>5, MarkBase

\* The clock leaves every status alone.
LEMMA TickBase == Base /\ Tick => Base'
  <1> SUFFICES ASSUME Base, Tick PROVE Base'
    OBVIOUS
  <1>1. /\ mem' = [p \in Processes |-> CountDown(mem[p])]
        /\ file' = IF file = Torn THEN Torn ELSE CountDown(file)
        /\ granted' = [s \in Schedules |-> IF granted[s] = 0 THEN 0 ELSE granted[s] - 1]
        /\ UNCHANGED <<up, batch, current, stage, crashes, loads, born, confirmed, runs, cut, withdrawn>>
    BY DEF Tick
  <1>2. TypeOK /\ Handling /\ Ran
    BY DEF Base
  <1>3. \A m \in Store : CountDown(m) \in Store
    BY Counting
  <1>4. \A m \in Store, s \in Schedules :
           /\ CountDown(m)[s] = Absent <=> m[s] = Absent
           /\ m[s] # Absent => CountDown(m)[s].status = m[s].status
    BY Counting
  <1>5. /\ \A p \in Processes : mem[p] \in Store /\ mem'[p] = CountDown(mem[p])
        /\ file # Torn => file \in Store /\ file' = CountDown(file)
        /\ file = Torn => file' = Torn
    BY <1>1, <1>2 DEF TypeOK
  <1>6. /\ \A p \in Processes, s \in Schedules :
              /\ mem'[p][s] = Absent <=> mem[p][s] = Absent
              /\ IsPending(mem'[p][s]) <=> IsPending(mem[p][s])
              /\ IsTriggered(mem'[p][s]) <=> IsTriggered(mem[p][s])
        /\ file' # Torn => \A s \in Schedules : IsTriggered(file'[s]) => IsTriggered(file[s])
    BY <1>4, <1>5 DEF IsPending, IsTriggered
  <1>7. TypeOK'
    <2>1. granted' \in [Schedules -> 0..Lease]
      BY <1>1, <1>2, ScheduleAssumption DEF TypeOK
    <2>2. mem' \in [Processes -> Store] /\ file' \in Store \union {Torn}
      BY <1>1, <1>3, <1>5
    <2> QED
      BY <1>1, <1>2, <2>1, <2>2 DEF TypeOK
  <1>8. Handling'
    <2>1. \A p \in Processes : batch[p] \subseteq Schedules
      BY <1>2 DEF TypeOK
    <2> QED
      BY <1>1, <1>2, <1>6, <2>1 DEF Handling
  <1>9. Ran'
    BY <1>1, <1>2, <1>5, <1>6 DEF Ran
  <1> QED
    BY <1>7, <1>8, <1>9 DEF Base

\* A crash leaves nothing in memory.
LEMMA CrashBase ==
  ASSUME Base, NEW p \in Processes, Crash(p)
  PROVE  Base'
  <1>1. /\ crashes < MaxCrashes /\ crashes' = crashes + 1
        /\ up' = up \ {p}
        /\ file' \in {file, Torn}
        /\ cut' = CutShort(p)
        /\ mem' = [mem EXCEPT ![p] = Nothing]
        /\ batch' = [batch EXCEPT ![p] = {}]
        /\ current' = [current EXCEPT ![p] = None]
        /\ stage' = [stage EXCEPT ![p] = "idle"]
        /\ UNCHANGED <<loads, born, confirmed, runs, granted, withdrawn>>
    BY DEF Crash
  <1>2. TypeOK /\ Handling /\ Ran
    BY DEF Base
  <1>3. /\ mem' \in [Processes -> Store] /\ mem'[p] = Nothing
        /\ batch'[p] = {} /\ current'[p] = None /\ stage'[p] = "idle"
        /\ \A q \in Processes : q # p =>
              /\ mem'[q] = mem[q] /\ batch'[q] = batch[q]
              /\ current'[q] = current[q] /\ stage'[q] = stage[q]
    BY <1>1, <1>2, NothingIsStore DEF TypeOK
  <1>4. TypeOK'
    <2>1. cut' \in [Schedules -> Nat]
      BY <1>1, <1>2 DEF CutShort, TypeOK
    <2>2. crashes' \in 0..MaxCrashes
      BY <1>1, <1>2, ScheduleAssumption DEF TypeOK
    <2> QED
      BY <1>1, <1>2, <1>3, <2>1, <2>2 DEF TypeOK
  <1>5. Handling'
    BY <1>1, <1>2, <1>3 DEF Handling
  <1>6. Ran'
    <2>1. \A s \in Schedules : ~IsTriggered(Nothing[s])
      BY DEF Nothing, IsTriggered
    <2> QED
      BY <1>1, <1>2, <1>3, <2>1 DEF Ran
  <1> QED
    BY <1>4, <1>5, <1>6 DEF Base

\* A restart takes the file for the memory; no run_due is under way.
LEMMA RestartBase ==
  ASSUME Base, NEW p \in Processes, Restart(p)
  PROVE  Base'
  <1>1. /\ p \notin up /\ file # Torn
        /\ up' = up \union {p}
        /\ mem' = [mem EXCEPT ![p] = file]
        /\ loads' = loads + 1
        /\ UNCHANGED <<file, batch, current, stage, crashes,
                       born, confirmed, runs, cut, granted, withdrawn>>
    BY DEF Restart, history
  <1>2. TypeOK /\ Handling /\ Ran
    BY DEF Base
  <1>3. /\ file \in Store /\ mem' \in [Processes -> Store] /\ mem'[p] = file
        /\ \A q \in Processes : q # p => mem'[q] = mem[q]
    BY <1>1, <1>2 DEF TypeOK
  <1>4. TypeOK'
    BY <1>1, <1>2, <1>3 DEF TypeOK
  <1>5. Handling'
    BY <1>1, <1>2, <1>3 DEF Handling
  <1>6. Ran'
    BY <1>1, <1>2, <1>3 DEF Ran
  <1> QED
    BY <1>4, <1>5, <1>6 DEF Base

\* Every step, or none, keeps the invariant.
LEMMA NextBase == Base /\ [Next]_vars => Base'
  <1> SUFFICES ASSUME Base, [Next]_vars PROVE Base'
    OBVIOUS
  <1>1. CASE \E p \in Api, s \in Schedules, delay \in 0..MaxDelay : Create(p, s, delay)
    BY <1>1, CreateBase
  <1>2. CASE \E p \in Api, s \in Schedules : Cancel(p, s)
    BY <1>2, CancelBase
  <1>3. CASE \E p \in Processes : Acquire(p)
    BY <1>3, AcquireBase
  <1>4. CASE \E p \in Processes, s \in Schedules : Start(p, s) \/ StartRaises(p, s)
    BY <1>4, StartBase
  <1>5. CASE \E p \in Processes : MarkTriggered(p)
    BY <1>5, MarkTriggeredBase
  <1>6. CASE \E p \in Processes : MarkFailed(p)
    BY <1>6, MarkFailedBase
  <1>7. CASE \E p \in Processes : Crash(p)
    BY <1>7, CrashBase
  <1>8. CASE \E p \in Processes : Restart(p)
    BY <1>8, RestartBase
  <1>9. CASE Tick
    BY <1>9, TickBase
  <1>10. CASE UNCHANGED vars
    BY <1>10 DEF vars, history, Base, TypeOK, Handling, Ran
  <1> QED
    BY <1>1, <1>2, <1>3, <1>4, <1>5, <1>6, <1>7, <1>8, <1>9, <1>10 DEF Next, Handle

\* Base holds in every state.
LEMMA BaseHolds == Spec => []Base
  BY InitBase, NextBase, PTL DEF Spec

\* The stores, the file and the run_due calls stay well formed, with any number of
\* processes, crashes and failing writes (WorkflowScheduleStore, run_due).
THEOREM TypeCorrect == Spec => []TypeOK
  <1>1. Base => TypeOK
    BY DEF Base
  <1> QED
    BY <1>1, BaseHolds, PTL

\* The file never calls a schedule triggered that has no run, although processes
\* write stale copies over each other's marks (mark and _persist in run_due).
THEOREM TriggeredHasRun == Spec => []TriggeredRan
  <1>1. Base => TriggeredRan
    BY DEF Base, Ran, IsTriggered, TriggeredRan
  <1> QED
    BY <1>1, BaseHolds, PTL

-----------------------------------------------------------------------------
(* What each step does to the stores, for any number of processes           *)

\* Nothing is stored under an id that was never used.
Known ==
    /\ \A p \in Processes : Present(mem[p]) \subseteq born
    /\ file # Torn => Present(file) \subseteq born

\* p has no run of s before it, in the life of its store: it started one that it has
\* not marked, or its record of s is not pending.
Spent(p, s) == Unmarked(p, s) \/ (mem[p][s] # Absent /\ ~IsPending(mem[p][s]))

\* Creating adds one record, to one memory.
LEMMA CreateShape ==
  ASSUME Base, NEW p \in Api, NEW s \in Schedules, NEW delay \in 0..MaxDelay,
         Create(p, s, delay)
  PROVE  /\ Present(mem'[p]) = Present(mem[p]) \union {s}
         /\ IsPending(mem'[p][s])
         /\ \A q \in Processes, t \in Schedules : q # p \/ t # s => mem'[q][t] = mem[q][t]
         /\ \E ok \in BOOLEAN : /\ Persist(mem'[p], ok)
                               /\ confirmed' = IF ok THEN confirmed \union {s} ELSE confirmed
  <1>1. p \in Processes /\ TypeOK
    BY DEF Processes, Base
  <1>2. PICK m \in Store, ok \in BOOLEAN :
            /\ Writes(p, s, m, ok)
            /\ m[s].status = "pending"
            /\ confirmed' = IF ok THEN confirmed \union {s} ELSE confirmed
    BY <1>1, CreateWrites
  <1>3. /\ mem'[p][s] = m[s]
        /\ \A q \in Processes, t \in Schedules : q # p \/ t # s => mem'[q][t] = mem[q][t]
    BY <1>1, <1>2, Writing
  <1>4. mem'[p] = m
    BY <1>1, <1>2 DEF Writes, TypeOK
  <1>5. IsPending(mem'[p][s])
    BY <1>2, <1>3 DEF Writes, IsPending
  <1>6. Present(mem'[p]) = Present(mem[p]) \union {s}
    BY <1>1, <1>3, <1>5 DEF Present, IsPending
  <1> QED
    BY <1>2, <1>3, <1>4, <1>5, <1>6 DEF Writes

\* A step that rewrites records of p, for good or not: the same records are there,
\* those that are not pending stay so, and no run is forgotten.
Rewrites(p, ok) ==
    /\ p \in up
    /\ Present(mem'[p]) = Present(mem[p])
    /\ \A q \in Processes : q # p => mem'[q] = mem[q]
    /\ \A q \in Processes, s \in Schedules : Spent(q, s) => Spent(q, s)'
    /\ Persist(mem'[p], ok)
    /\ up' = up \/ (~ok /\ up' = up \ (Workers \intersect {p}))
    /\ UNCHANGED <<born, confirmed, runs, crashes, loads>>

\* mark and cancel are such steps: the record they change is not pending after it.
LEMMA MarkRewrites ==
  ASSUME Base, NEW p \in Processes, NEW s \in Schedules, mem[p][s] # Absent,
         NEW status \in {"triggered", "canceled", "failed"}, NEW ok \in BOOLEAN,
         p \in up, Marks(p, s, status), Persist(mem'[p], ok),
         \A q \in Processes, t \in Schedules :
             q # p \/ t # s => (Unmarked(q, t) => Unmarked(q, t)'),
         up' = up \/ (~ok /\ up' = up \ (Workers \intersect {p})),
         UNCHANGED <<born, confirmed, runs, crashes, loads>>
  PROVE  Rewrites(p, ok)
  <1>1. TypeOK /\ status \in {"pending", "triggered", "canceled", "failed"}
    BY DEF Base
  <1>2. PICK m \in Store : Writes(p, s, m, ok) /\ m[s].status = status
    BY <1>1, MarkWrites
  <1>3. /\ mem'[p][s] = m[s]
        /\ \A q \in Processes, t \in Schedules : q # p \/ t # s => mem'[q][t] = mem[q][t]
    BY <1>1, <1>2, Writing
  <1>4. \A q \in Processes : q # p => mem'[q] = mem[q]
    BY <1>1 DEF Marks, TypeOK
  <1>5. mem'[p][s] # Absent /\ ~IsPending(mem'[p][s])
    BY <1>2, <1>3 DEF Writes, IsPending
  <1>6. Present(mem'[p]) = Present(mem[p])
    BY <1>3, <1>5 DEF Present
  <1>7. ASSUME NEW q \in Processes, NEW t \in Schedules, Spent(q, t)
        PROVE  Spent(q, t)'
    <2>1. CASE q = p /\ t = s
      BY <1>5, <2>1 DEF Spent
    <2>2. CASE q # p \/ t # s
      BY <1>3, <1>7, <2>2 DEF Spent
    <2> QED
      BY <2>1, <2>2
  <1> QED
    BY <1>4, <1>6, <1>7 DEF Rewrites

\* And acquire_due, which changes no status.
LEMMA AcquireRewrites ==
  ASSUME Base, NEW p \in Processes, Acquire(p)
  PROVE  \E ok \in BOOLEAN : Rewrites(p, ok)
  <1> DEFINE taken == Acquirable(mem[p])
  <1>1. TypeOK /\ mem \in [Processes -> Store] /\ Lease \in 0..Lease
    BY ScheduleAssumption DEF Base, TypeOK
  <1>2. /\ \A q \in Processes : q # p => mem'[q] = mem[q]
        /\ \A s \in Schedules : mem'[p][s] = IF s \in taken THEN Leased(mem[p][s], Lease, p)
                                               ELSE mem[p][s]
    BY <1>1 DEF Acquire, Leased
  <1>3. \A s \in taken : s \in Schedules /\ IsPending(mem[p][s])
    BY AcquirableArePending
  <1>4. ASSUME NEW s \in taken
        PROVE  mem[p][s] # Absent /\ IsPending(Leased(mem[p][s], Lease, p))
    <2>1. mem[p][s] \in Record
      BY <1>1, <1>3 DEF Store, IsPending
    <2>2. /\ Leased(mem[p][s], Lease, p) \in Record
          /\ Leased(mem[p][s], Lease, p).status = mem[p][s].status
      BY <1>1, <2>1, LeasedRecord
    <2> QED
      BY <1>3, <2>2, RecordsArePresent DEF IsPending
  <1>5. PICK ok \in BOOLEAN :
            /\ Persist(mem'[p], ok)
            /\ IF ok THEN stage' = [stage EXCEPT ![p] = "loop"] /\ UNCHANGED up
               ELSE up' = up \ (Workers \intersect {p}) /\ UNCHANGED stage
    BY DEF Acquire, Outcomes
  <1>6. /\ p \in up /\ stage[p] = "idle"
        /\ UNCHANGED <<current, crashes, loads, born, confirmed, runs>>
    BY DEF Acquire, Ready
  <1> HIDE DEF taken
  <1>7. \A s \in Schedules : mem'[p][s] # Absent <=> mem[p][s] # Absent
    BY <1>2, <1>3, <1>4 DEF IsPending
  <1>8. Present(mem'[p]) = Present(mem[p])
    BY <1>7 DEF Present
  <1>9. ASSUME NEW q \in Processes, NEW s \in Schedules, Spent(q, s)
        PROVE  Spent(q, s)'
    <2>1. Unmarked(q, s) => Unmarked(q, s)'
      BY <1>1, <1>5, <1>6 DEF Unmarked, TypeOK
    <2>2. IsPending(mem'[q][s]) => IsPending(mem[q][s])
      BY <1>2, <1>3 DEF IsPending
    <2>3. mem[q][s] # Absent => mem'[q][s] # Absent
      BY <1>2, <1>7
    <2> QED
      BY <1>9, <2>1, <2>2, <2>3 DEF Spent
  <1>10. Rewrites(p, ok)
    BY <1>2, <1>5, <1>6, <1>8, <1>9 DEF Rewrites
  <1> QED
    BY <1>10

\* So the steps of the model but creation, start, clock, crash and restart rewrite.
LEMMA WritersRewrite ==
  ASSUME Base, NEW p \in Processes,
         \/ p \in Api /\ \E s \in Schedules : Cancel(p, s)
         \/ Acquire(p) \/ MarkTriggered(p) \/ MarkFailed(p)
  PROVE  \E ok \in BOOLEAN : Rewrites(p, ok)
  <1>1. TypeOK /\ Handling
    BY DEF Base
  <1>2. ASSUME NEW s \in Schedules, Cancel(p, s)
        PROVE  \E ok \in BOOLEAN : Rewrites(p, ok)
    <2>1. PICK ok \in BOOLEAN : Persist(mem'[p], ok)
      BY <1>2 DEF Cancel, Outcomes
    <2>2. /\ p \in up /\ mem[p][s] # Absent /\ Marks(p, s, "canceled")
          /\ UNCHANGED <<up, current, stage, born, confirmed, runs, crashes, loads>>
      BY <1>2 DEF Cancel, Ready, Pending, Present, Marks
    <2>3. \A q \in Processes, t \in Schedules : Unmarked(q, t) => Unmarked(q, t)'
      BY <2>2 DEF Unmarked
    <2> QED
      BY <2>1, <2>2, <2>3, MarkRewrites
  <1>3. ASSUME NEW ok \in BOOLEAN, NEW status \in {"triggered", "failed"},
               p \in up, stage[p] \in {"started", "raised", "unmarked"},
               Marks(p, current[p], status), Persist(mem'[p], ok),
               \A q \in Processes : q # p => current'[q] = current[q] /\ stage'[q] = stage[q],
               up' = up \/ (~ok /\ up' = up \ (Workers \intersect {p})),
               UNCHANGED <<born, confirmed, runs, crashes, loads>>
        PROVE  Rewrites(p, ok)
    <2>1. current[p] \in Schedules /\ mem[p][current[p]] # Absent
      BY <1>1, <1>3 DEF Handling
    <2>2. \A q \in Processes, t \in Schedules :
              q # p \/ t # current[p] => (Unmarked(q, t) => Unmarked(q, t)')
      BY <1>3 DEF Unmarked
    <2>3. status \in {"triggered", "canceled", "failed"}
      OBVIOUS
    <2> QED
      BY <1>3, <2>1, <2>2, <2>3, MarkRewrites
  <1>4. ASSUME MarkTriggered(p) PROVE \E ok \in BOOLEAN : Rewrites(p, ok)
    <2>1. PICK ok \in BOOLEAN :
              /\ Persist(mem'[p], ok)
              /\ IF ok THEN Continue(p)
                 ELSE /\ stage' = [stage EXCEPT ![p] = "unmarked"]
                      /\ UNCHANGED <<batch, current>>
      BY <1>4 DEF MarkTriggered, Outcomes
    <2>2. /\ p \in up /\ stage[p] = "started" /\ Marks(p, current[p], "triggered")
          /\ UNCHANGED <<up, born, confirmed, runs, crashes, loads>>
      BY <1>4 DEF MarkTriggered, Marks, history
    <2>3. \A q \in Processes : q # p => current'[q] = current[q] /\ stage'[q] = stage[q]
      BY <1>1, <2>1 DEF Continue, TypeOK
    <2> QED
      BY <1>3, <2>1, <2>2, <2>3
  <1>5. ASSUME MarkFailed(p) PROVE \E ok \in BOOLEAN : Rewrites(p, ok)
    <2>1. PICK ok \in BOOLEAN :
              /\ Persist(mem'[p], ok)
              /\ IF ok THEN Continue(p) /\ UNCHANGED up
                 ELSE /\ stage' = [stage EXCEPT ![p] = "idle"]
                      /\ current' = [current EXCEPT ![p] = None]
                      /\ up' = up \ (Workers \intersect {p})
      BY <1>5 DEF MarkFailed, Outcomes
    <2>2. /\ p \in up /\ stage[p] \in {"raised", "unmarked"}
          /\ Marks(p, current[p], "failed")
          /\ UNCHANGED <<born, confirmed, runs, crashes, loads>>
      BY <1>5 DEF MarkFailed, Marks
    <2>3. \A q \in Processes : q # p => current'[q] = current[q] /\ stage'[q] = stage[q]
      BY <1>1, <2>1 DEF Continue, TypeOK
    <2> QED
      BY <1>3, <2>1, <2>2, <2>3
  <1> QED
    BY <1>2, <1>4, <1>5, AcquireRewrites

\* What a write leaves in the file was in it before or is in the memory.
LEMMA PersistedPresent ==
  ASSUME TypeOK, NEW m, Present(m) \subseteq Schedules, NEW ok \in BOOLEAN, Persist(m, ok),
         file' # Torn
  PROVE  Present(file') \subseteq Present(m) \/ (~ok /\ file' = file)
  BY DEF Persist, Saved, Present

\* The clock creates no record, and none is lost to it.
LEMMA TickShape ==
  ASSUME Base, Tick
  PROVE  /\ \A p \in Processes, s \in Schedules :
               /\ mem'[p][s] = Absent <=> mem[p][s] = Absent
               /\ IsPending(mem'[p][s]) <=> IsPending(mem[p][s])
         /\ \A p \in Processes : Present(mem'[p]) = Present(mem[p])
         /\ \A p \in Processes : mem[p] = Nothing => mem'[p] = Nothing
         /\ file' # Torn => file # Torn /\ Present(file') = Present(file)
         /\ UNCHANGED <<up, batch, current, stage, crashes, loads, born, confirmed, runs>>
  <1>1. /\ mem' = [p \in Processes |-> CountDown(mem[p])]
        /\ file' = IF file = Torn THEN Torn ELSE CountDown(file)
        /\ UNCHANGED <<up, batch, current, stage, crashes, loads, born, confirmed, runs>>
    BY DEF Tick
  <1>2. TypeOK
    BY DEF Base
  <1>3. \A m \in Store, s \in Schedules :
           /\ CountDown(m)[s] = Absent <=> m[s] = Absent
           /\ IsPending(CountDown(m)[s]) <=> IsPending(m[s])
    BY Counting DEF IsPending
  <1>4. /\ \A p \in Processes : mem[p] \in Store /\ mem'[p] = CountDown(mem[p])
        /\ file' # Torn => file # Torn /\ file \in Store /\ file' = CountDown(file)
    BY <1>1, <1>2 DEF TypeOK
  <1>5. /\ \A p \in Processes : Present(mem'[p]) = Present(mem[p])
        /\ file' # Torn => file # Torn /\ Present(file') = Present(file)
    BY <1>3, <1>4 DEF Present
  <1>6. CountDown(Nothing) = Nothing
    BY DEF CountDown, Nothing
  <1> QED
    BY <1>1, <1>3, <1>4, <1>5, <1>6

\* Every step is of one of these kinds.
LEMMA StepKinds ==
  ASSUME Base, [Next]_vars
  PROVE  \/ \E p \in Api, s \in Schedules, delay \in 0..MaxDelay : Create(p, s, delay)
         \/ \E p \in Processes, ok \in BOOLEAN : Rewrites(p, ok)
         \/ \E p \in Processes, s \in Schedules : Start(p, s) \/ StartRaises(p, s)
         \/ \E p \in Processes : Crash(p)
         \/ \E p \in Processes : Restart(p)
         \/ Tick
         \/ UNCHANGED vars
  <1>1. \A p \in Api : p \in Processes
    BY DEF Processes
  <1>2. CASE \E p \in Api, s \in Schedules : Cancel(p, s)
    BY <1>1, <1>2, WritersRewrite
  <1>3. CASE \E p \in Processes : Acquire(p) \/ MarkTriggered(p) \/ MarkFailed(p)
    BY <1>3, WritersRewrite
  <1> QED
    BY <1>2, <1>3 DEF Next, Handle

\* What a crash and a restart do to the memory of a process.
LEMMA CrashShape ==
  ASSUME Base, NEW p \in Processes, Crash(p)
  PROVE  /\ p \in up /\ up' = up \ {p} /\ file' \in {file, Torn}
         /\ mem'[p] = Nothing /\ Present(mem'[p]) = {}
         /\ \A q \in Processes : q # p =>
               mem'[q] = mem[q] /\ current'[q] = current[q] /\ stage'[q] = stage[q]
         /\ UNCHANGED <<loads, born, confirmed, runs>>
  BY NothingIsStore DEF Base, TypeOK, Crash, Present, Nothing

\* A restart loads the file.
LEMMA RestartShape ==
  ASSUME Base, NEW p \in Processes, Restart(p)
  PROVE  /\ p \notin up /\ up' = up \union {p} /\ file # Torn
         /\ mem'[p] = file /\ loads' = loads + 1
         /\ \A q \in Processes : q # p => mem'[q] = mem[q]
         /\ UNCHANGED <<file, current, stage, born, confirmed, runs, crashes>>
  BY DEF Base, TypeOK, Restart, history

\* No id is stored before it is used.
LEMMA KnownNext == Base /\ Known /\ [Next]_vars => Known'
  <1> SUFFICES ASSUME Base, Known, [Next]_vars PROVE Known'
    OBVIOUS
  <1> TypeOK
    BY DEF Base
  <1>1. \A m : Present(m) \subseteq Schedules
    BY DEF Present
  <1>2. CASE \E p \in Api, s \in Schedules, delay \in 0..MaxDelay : Create(p, s, delay)
    <2>1. PICK p \in Api, s \in Schedules, delay \in 0..MaxDelay : Create(p, s, delay)
      BY <1>2
    <2>2. /\ Present(mem'[p]) = Present(mem[p]) \union {s}
          /\ \A q \in Processes, t \in Schedules : q # p \/ t # s => mem'[q][t] = mem[q][t]
          /\ \E ok \in BOOLEAN : Persist(mem'[p], ok)
      BY <2>1, CreateShape
    <2>3. p \in Processes /\ born' = born \union {s}
      BY <2>1 DEF Create, Processes
    <2>4. \A q \in Processes : Present(mem'[q]) \subseteq born'
      <3>1. \A q \in Processes : q # p => Present(mem'[q]) = Present(mem[q])
        BY <2>2 DEF Present
      <3> QED
        BY <2>2, <2>3, <3>1 DEF Known
    <2>5. file' # Torn => Present(file') \subseteq Present(mem'[p]) \/ file' = file
      BY <1>1, <2>2, PersistedPresent
    <2> QED
      BY <2>3, <2>4, <2>5 DEF Known
  <1>3. CASE \E p \in Processes, ok \in BOOLEAN : Rewrites(p, ok)
    <2>1. PICK p \in Processes, ok \in BOOLEAN : Rewrites(p, ok)
      BY <1>3
    <2>2. \A q \in Processes : Present(mem'[q]) = Present(mem[q])
      BY <2>1 DEF Rewrites
    <2>3. file' # Torn => Present(file') \subseteq Present(mem'[p]) \/ file' = file
      BY <1>1, <2>1, PersistedPresent DEF Rewrites
    <2> QED
      BY <2>1, <2>2, <2>3 DEF Known, Rewrites
  <1>4. CASE \E p \in Processes : Crash(p)
    <2>1. PICK p \in Processes : Crash(p)
      BY <1>4
    <2> QED
      BY <2>1, CrashShape DEF Known
  <1>5. CASE \E p \in Processes : Restart(p)
    <2>1. PICK p \in Processes : Restart(p)
      BY <1>5
    <2> QED
      BY <2>1, RestartShape DEF Known
  <1>6. CASE Tick
    BY <1>6, TickShape DEF Known
  <1>7. CASE UNCHANGED <<mem, file, born>>
    BY <1>7 DEF Known
  <1> QED
    BY <1>2, <1>3, <1>4, <1>5, <1>6, <1>7, StepKinds DEF Start, StartRaises, history, vars

-----------------------------------------------------------------------------
(* Runs per load, for any number of processes                               *)

\* The processes whose store has had its run of s, or is about to be loaded.
SpentBy(s) == {p \in Processes : p \notin up \/ Spent(p, s)}

LoadInv ==
    /\ Base
    /\ Known
    /\ \A s \in Schedules : runs[s] <= Cardinality(SpentBy(s)) + loads

\* Processes can be counted.
LEMMA ProcessesFinite ==
  \A S \in SUBSET Processes : IsFiniteSet(S) /\ Cardinality(S) \in Nat
  BY ScheduleAssumption, FS_Subset, FS_CardinalityType

\* A step that loads nothing gives no store a second run.
LEMMA SpentStays ==
  ASSUME Base, Known, [Next]_vars, \A p \in Processes : ~Restart(p),
         NEW s \in Schedules
  PROVE  SpentBy(s) \subseteq SpentBy(s)' /\ loads' = loads
  <1> TypeOK
    BY DEF Base
  <1>1. CASE \E q \in Api, t \in Schedules, delay \in 0..MaxDelay : Create(q, t, delay)
    <2>1. PICK q \in Api, t \in Schedules, delay \in 0..MaxDelay : Create(q, t, delay)
      BY <1>1
    <2>2. /\ q \in Processes /\ t \notin born
          /\ UNCHANGED <<up, current, stage, loads>>
      BY <2>1 DEF Create, Processes
    <2>3. mem[q][t] = Absent
      BY <2>2 DEF Known, Present
    <2>4. \A r \in Processes, u \in Schedules : r # q \/ u # t => mem'[r][u] = mem[r][u]
      BY <2>1, CreateShape
    <2>5. \A p \in Processes : Spent(p, s) => Spent(p, s)'
      BY <2>2, <2>3, <2>4 DEF Spent, Unmarked
    <2> QED
      BY <2>2, <2>5 DEF SpentBy
  <1>2. CASE \E q \in Processes, ok \in BOOLEAN : Rewrites(q, ok)
    BY <1>2 DEF Rewrites, SpentBy
  <1>3. CASE \E q \in Processes, t \in Schedules : Start(q, t) \/ StartRaises(q, t)
    <2>1. PICK q \in Processes, t \in Schedules : Start(q, t) \/ StartRaises(q, t)
      BY <1>3
    <2>2. stage[q] = "loop" /\ UNCHANGED <<mem, up, loads>>
      BY <2>1 DEF Start, StartRaises
    <2>3. \A r \in Processes : r # q => current'[r] = current[r] /\ stage'[r] = stage[r]
      BY <2>1 DEF Start, StartRaises, TypeOK
    <2> QED
      BY <2>2, <2>3 DEF SpentBy, Spent, Unmarked
  <1>4. CASE \E q \in Processes : Crash(q)
    <2>1. PICK q \in Processes : Crash(q)
      BY <1>4
    <2> QED
      BY <2>1, CrashShape DEF SpentBy, Spent, Unmarked
  <1>5. CASE Tick
    <2>1. UNCHANGED <<up, current, stage, loads>>
      BY <1>5, TickShape
    <2>2. \A p \in Processes : Spent(p, s) => Spent(p, s)'
      BY <1>5, <2>1, TickShape DEF Spent, Unmarked, IsPending
    <2> QED
      BY <2>1, <2>2 DEF SpentBy
  <1>6. CASE UNCHANGED vars
    BY <1>6 DEF vars, SpentBy, Spent, Unmarked
  <1> QED
    BY <1>1, <1>2, <1>3, <1>4, <1>5, <1>6, StepKinds

\* A run is started only in a store that has had none.
LEMMA StartSpends ==
  ASSUME Base, NEW p \in Processes, NEW s \in Schedules, Start(p, s)
  PROVE  p \notin SpentBy(s) /\ p \in SpentBy(s)'
  <1>1. /\ stage[p] = "loop" /\ s \in batch[p] /\ p \in up
        /\ current'[p] = s /\ stage'[p] = "started"
    BY DEF Base, TypeOK, Start
  <1>2. IsPending(mem[p][s])
    BY <1>1, RecordsArePresent DEF Base, Handling
  <1> QED
    BY <1>1, <1>2 DEF SpentBy, Spent, Unmarked

\* Only runtime.start adds a run.
LEMMA RunsGrow ==
  ASSUME Base, [Next]_vars, NEW s \in Schedules, \A p \in Processes : ~Start(p, s)
  PROVE  runs'[s] = runs[s]
  <1>1. CASE \E p \in Processes, ok \in BOOLEAN : Rewrites(p, ok)
    BY <1>1 DEF Rewrites
  <1>2. CASE \E p \in Processes, t \in Schedules : Start(p, t) \/ StartRaises(p, t)
    BY <1>2 DEF Start, StartRaises, Base, TypeOK, history
  <1> QED
    BY <1>1, <1>2, StepKinds DEF Create, Crash, Restart, Tick, vars, history

\* Every run is one of a store that is spent, or that was replaced by a load.
LEMMA LoadNext == LoadInv /\ [Next]_vars => LoadInv'
  <1> SUFFICES ASSUME LoadInv, [Next]_vars PROVE LoadInv'
    OBVIOUS
  <1> Base /\ Known /\ TypeOK
    BY DEF LoadInv, Base
  <1>1. Base' /\ Known'
    BY NextBase, KnownNext
  <1>2. ASSUME NEW s \in Schedules
        PROVE  runs'[s] <= Cardinality(SpentBy(s)') + loads'
    <2>1. /\ runs[s] <= Cardinality(SpentBy(s)) + loads
          /\ runs[s] \in Nat /\ loads \in Nat
          /\ IsFiniteSet(SpentBy(s)) /\ Cardinality(SpentBy(s)) \in Nat
          /\ IsFiniteSet(SpentBy(s)') /\ Cardinality(SpentBy(s)') \in Nat
      BY ProcessesFinite DEF LoadInv, TypeOK, SpentBy
    <2>2. CASE \E p \in Processes : Restart(p)
      <3>1. PICK p \in Processes : Restart(p)
        BY <2>2
      <3>2. /\ loads' = loads + 1 /\ runs' = runs /\ up' = up \union {p}
            /\ UNCHANGED <<current, stage>>
            /\ \A q \in Processes : q # p => mem'[q] = mem[q]
        BY <3>1, RestartShape
      <3>3. SpentBy(s) \ {p} \subseteq SpentBy(s)'
        BY <3>2 DEF SpentBy, Spent, Unmarked
      <3>4. Cardinality(SpentBy(s) \ {p}) >= Cardinality(SpentBy(s)) - 1
        <4>1. Cardinality(SpentBy(s) \ {p}) =
                 IF p \in SpentBy(s) THEN Cardinality(SpentBy(s)) - 1 ELSE Cardinality(SpentBy(s))
          BY <2>1, FS_RemoveElement
        <4> QED
          BY <2>1, <4>1
      <3>5. /\ Cardinality(SpentBy(s) \ {p}) \in Nat
            /\ Cardinality(SpentBy(s) \ {p}) <= Cardinality(SpentBy(s)')
        BY <2>1, <3>3, FS_Subset, FS_CardinalityType
      <3> QED
        BY <2>1, <3>2, <3>4, <3>5
    <2>3. CASE \E p \in Processes : Start(p, s)
      <3>1. PICK p \in Processes : Start(p, s)
        BY <2>3
      <3>2. runs'[s] = runs[s] + 1 /\ loads' = loads
        BY <3>1 DEF Start, TypeOK
      <3>3. ASSUME NEW q \in Processes PROVE ~Restart(q)
        BY <2>1, <3>2 DEF Restart
      <3>4. SpentBy(s) \union {p} \subseteq SpentBy(s)' /\ p \notin SpentBy(s)
        BY <3>1, <3>3, SpentStays, StartSpends
      <3>5. /\ IsFiniteSet(SpentBy(s) \union {p})
            /\ Cardinality(SpentBy(s) \union {p}) = Cardinality(SpentBy(s)) + 1
        BY <2>1, <3>4, FS_AddElement
      <3>6. Cardinality(SpentBy(s) \union {p}) <= Cardinality(SpentBy(s)')
        BY <2>1, <3>4, FS_Subset
      <3> QED
        BY <2>1, <3>2, <3>5, <3>6
    <2>4. ASSUME \A p \in Processes : ~Restart(p) /\ ~Start(p, s)
          PROVE  runs'[s] <= Cardinality(SpentBy(s)') + loads'
      <3>1. runs'[s] = runs[s]
        BY <2>4, RunsGrow
      <3>2. SpentBy(s) \subseteq SpentBy(s)' /\ loads' = loads
        BY <2>4, SpentStays
      <3>3. Cardinality(SpentBy(s)) <= Cardinality(SpentBy(s)')
        BY <2>1, <3>2, FS_Subset
      <3> QED
        BY <2>1, <3>1, <3>2, <3>3
    <2> QED
      BY <2>2, <2>3, <2>4
  <1> QED
    BY <1>1, <1>2 DEF LoadInv

\* However many processes share the file, and however their writes undo each other's
\* marks: each load of the file, the first or a later one, is good for one run of a
\* schedule at most (run_due on the _records of the store).
THEOREM RunsOncePerLoad == Spec => []OneRunPerLoad
  <1>1. Init => LoadInv
    <2> SUFFICES ASSUME Init PROVE LoadInv
      OBVIOUS
    <2>1. Base
      BY InitBase
    <2>2. Known
      BY DEF Init, Known, Present, Nothing
    <2>3. \A s \in Schedules : Cardinality(SpentBy(s)) \in Nat
      BY ProcessesFinite DEF SpentBy
    <2> QED
      BY <2>1, <2>2, <2>3 DEF LoadInv, Init
  <1>2. LoadInv => OneRunPerLoad
    <2> SUFFICES ASSUME LoadInv, NEW s \in Schedules
                 PROVE  runs[s] <= Cardinality(Processes) + loads
      BY DEF OneRunPerLoad
    <2>1. SpentBy(s) \subseteq Processes
      BY DEF SpentBy
    <2>2. /\ Cardinality(SpentBy(s)) <= Cardinality(Processes)
          /\ Cardinality(SpentBy(s)) \in Nat /\ Cardinality(Processes) \in Nat
      BY <2>1, ProcessesFinite, FS_Subset
    <2>3. runs[s] <= Cardinality(SpentBy(s)) + loads /\ runs[s] \in Nat /\ loads \in Nat
      BY DEF LoadInv, Base, TypeOK
    <2> QED
      BY <2>2, <2>3
  <1> QED
    BY <1>1, <1>2, LoadNext, PTL DEF Spec

-----------------------------------------------------------------------------
(* One process                                                              *)

\* The file has one user: the API without a worker, or the other way round.
OneProcess == \A p, q \in Processes : p = q

\* A run may still be started for s: it was created, it was not withdrawn, and each
\* of its runs belongs to a call that was cut short or is still to mark it.
Open(s) ==
    /\ s \in born
    /\ s \notin withdrawn
    /\ (\E p \in Processes : Unmarked(p, s)) \/ runs[s] <= cut[s]

\* A pending record, in memory or on disk, is of such a schedule, and carries at
\* least the lease that was granted on it.
Trusted(r, s) == IsPending(r) => Open(s) /\ granted[s] <= r.lease

Records ==
    /\ \A p \in Processes, s \in Schedules : Trusted(mem[p][s], s)
    /\ file # Torn => \A s \in Schedules : Trusted(file[s], s)

\* Nothing is known of an id before it is used.
Unborn == \A s \in Schedules \ born : runs[s] = 0 /\ granted[s] = 0 /\ s \notin withdrawn

\* The invariant of one process.
Inv == Base /\ Records /\ Unborn /\ OneRunPerCut

\* The stores are empty at first.
LEMMA InitInv == Init => Inv
  <1> SUFFICES ASSUME Init PROVE Inv
    OBVIOUS
  <1>1. \A s \in Schedules : Nothing[s] = Absent
    BY DEF Nothing
  <1>2. Records
    BY <1>1 DEF Init, Records, Trusted, IsPending
  <1>3. Unborn /\ OneRunPerCut
    BY DEF Init, Unborn, OneRunPerCut
  <1> QED
    BY <1>2, <1>3, InitBase DEF Inv

\* A step that writes keeps the records trusted when it closes no schedule but the
\* one it writes, and that one only in a write that succeeds.
LEMMA WriteRecords ==
  ASSUME OneProcess, TypeOK, Records,
         NEW p \in Processes, NEW s \in Schedules, NEW m, NEW ok \in BOOLEAN,
         Writes(p, s, m, ok), UNCHANGED granted,
         \A t \in Schedules : t # s /\ Open(t) => Open(t)',
         IsPending(m[s]) => Open(s)' /\ granted[s] <= m[s].lease,
         ~ok /\ Open(s) => Open(s)'
  PROVE  Records'
  <1>1. /\ mem'[p][s] = m[s]
        /\ \A t \in Schedules : t # s => mem'[p][t] = mem[p][t]
        /\ file' # Torn => \A t \in Schedules :
              file'[t] \in {Absent, mem'[p][t]} \/ (~ok /\ file # Torn /\ file'[t] = file[t])
    BY Writing
  <1>2. ASSUME NEW t \in Schedules
        PROVE  Trusted(mem[p][t], t)'
    <2>1. CASE t = s
      BY <1>1, <2>1 DEF Trusted
    <2>2. CASE t # s
      BY <1>1, <2>2 DEF Records, Trusted
    <2> QED
      BY <2>1, <2>2
  <1>3. ASSUME file' # Torn, NEW t \in Schedules
        PROVE  Trusted(file[t], t)'
    <2>1. CASE file'[t] = Absent
      BY <2>1 DEF Trusted, IsPending
    <2>2. CASE file'[t] = mem'[p][t]
      BY <1>2, <2>2 DEF Trusted
    <2>3. CASE ~ok /\ file # Torn /\ file'[t] = file[t]
      BY <2>3 DEF Records, Trusted
    <2> QED
      BY <1>1, <1>3, <2>1, <2>2, <2>3
  <1> QED
    BY <1>2, <1>3 DEF Records, OneProcess

\* Creating takes an id that nothing is known of.
LEMMA CreateInv ==
  ASSUME OneProcess, Inv, NEW p \in Api, NEW s \in Schedules, NEW delay \in 0..MaxDelay,
         Create(p, s, delay)
  PROVE  Inv'
  <1>1. PICK m \in Store, ok \in BOOLEAN :
            Writes(p, s, m, ok) /\ m[s].status = "pending" /\ m[s].lease = 0
    BY CreateWrites DEF Inv, Base
  <1>2. /\ s \notin born /\ born' = born \union {s}
        /\ UNCHANGED <<current, stage, runs, cut, granted, withdrawn>>
    BY DEF Create
  <1>3. /\ runs \in [Schedules -> Nat] /\ cut \in [Schedules -> Nat]
        /\ TypeOK /\ Records /\ Unborn /\ OneRunPerCut /\ p \in Processes
    BY DEF Inv, Base, TypeOK, Processes
  <1>4. \A t \in Schedules : Open(t) => Open(t)'
    BY <1>2 DEF Open, Unmarked
  <1>5. Open(s)' /\ granted[s] <= m[s].lease
    BY <1>1, <1>2, <1>3 DEF Unborn, Open
  <1>6. Records'
    BY <1>1, <1>2, <1>3, <1>4, <1>5, WriteRecords
  <1>7. Unborn' /\ OneRunPerCut'
    BY <1>2, <1>3 DEF Unborn, OneRunPerCut
  <1> QED
    BY <1>6, <1>7, CreateBase DEF Inv

\* Canceling withdraws the schedule only when the file says so.
LEMMA CancelInv ==
  ASSUME OneProcess, Inv, NEW p \in Api, NEW s \in Schedules, Cancel(p, s)
  PROVE  Inv'
  <1>1. p \in Processes /\ TypeOK /\ Records /\ Unborn /\ OneRunPerCut /\ IsPending(mem[p][s])
    BY DEF Processes, Inv, Base, Cancel, Pending, Present, IsPending
  <1>2. PICK ok \in BOOLEAN :
            /\ Persist(mem'[p], ok)
            /\ withdrawn' = IF ok THEN withdrawn \union {s} ELSE withdrawn
    BY DEF Cancel, Outcomes
  <1>3. PICK m \in Store : Writes(p, s, m, ok) /\ m[s].status = "canceled"
    <2>1. Marks(p, s, "canceled") /\ mem[p][s] # Absent
      BY <1>1 DEF Cancel, Marks, IsPending
    <2>2. "canceled" \in {"pending", "triggered", "canceled", "failed"}
      OBVIOUS
    <2> QED
      BY <1>1, <1>2, <2>1, <2>2, MarkWrites
  <1>4. UNCHANGED <<born, current, stage, runs, cut, granted>>
    BY DEF Cancel
  <1>5. \A t \in Schedules : t # s /\ Open(t) => Open(t)'
    BY <1>2, <1>4 DEF Open, Unmarked
  <1>6. ~ok /\ Open(s) => Open(s)'
    BY <1>2, <1>4 DEF Open, Unmarked
  <1>7. ~IsPending(m[s])
    BY <1>3 DEF IsPending
  <1>8. Records'
    BY <1>1, <1>3, <1>4, <1>5, <1>6, <1>7, WriteRecords
  <1>9. Unborn' /\ OneRunPerCut'
    BY <1>1, <1>2, <1>4 DEF Unborn, OneRunPerCut, Records, Trusted, Open
  <1> QED
    BY <1>8, <1>9, CancelBase DEF Inv

\* A lease is granted for as long as the record carries it.
LEMMA AcquireInv ==
  ASSUME OneProcess, Inv, NEW p \in Processes, Acquire(p)
  PROVE  Inv'
  <1> DEFINE taken == Acquirable(mem[p])
             m == [s \in Schedules |-> IF s \in taken THEN Leased(mem[p][s], Lease, p)
                                       ELSE mem[p][s]]
  <1>1. TypeOK /\ Records /\ Unborn /\ OneRunPerCut
    BY DEF Inv, Base
  <1>2. \A s \in taken : s \in Schedules /\ IsPending(mem[p][s])
    BY AcquirableArePending
  <1>3. mem' = [mem EXCEPT ![p] = m]
    BY DEF Acquire, Leased
  <1>4. PICK ok \in BOOLEAN :
            /\ Persist(mem'[p], ok)
            /\ IF ok
               THEN /\ stage' = [stage EXCEPT ![p] = "loop"]
                    /\ granted' = [s \in Schedules |-> IF s \in taken THEN Lease ELSE granted[s]]
               ELSE UNCHANGED <<stage, granted>>
    BY DEF Acquire, Outcomes
  <1>5. /\ stage[p] = "idle"
        /\ UNCHANGED <<born, current, runs, cut, withdrawn>>
    BY DEF Acquire, Ready
  <1>6. \A s \in taken : mem[p][s] \in Record
    BY <1>1, <1>2 DEF TypeOK, Store, IsPending
  <1>7. \A s \in taken : Leased(mem[p][s], Lease, p).lease = Lease
    BY <1>6, ScheduleAssumption, LeasedRecord
  <1>8. m \in Store
    <2>1. \A s \in taken : Leased(mem[p][s], Lease, p) \in Record
      BY <1>6, ScheduleAssumption, LeasedRecord
    <2> QED
      BY <1>1, <2>1 DEF TypeOK, Store
  <1>9. \A s \in Schedules :
           /\ s \in taken => m[s].lease = Lease
           /\ s \notin taken => m[s] = mem[p][s]
    BY <1>7
  <1> HIDE DEF m, taken
  <1>10. mem'[p] = m
    BY <1>1, <1>3 DEF TypeOK
  <1>11. /\ file' \in Store \union {Torn}
         /\ file' # Torn => \A s \in Schedules :
               file'[s] \in {Absent, m[s]} \/ (~ok /\ file # Torn /\ file'[s] = file[s])
    BY <1>1, <1>4, <1>8, <1>10, Persisting DEF TypeOK
  <1>12. \A s \in Schedules : Open(s) => Open(s)'
    <2>1. \A q \in Processes : q = p
      BY DEF OneProcess
    <2> QED
      BY <1>5, <2>1 DEF Open, Unmarked
  <1>13. \A s \in Schedules :
            /\ granted[s] \in 0..Lease /\ granted'[s] \in 0..Lease
            /\ s \notin taken \/ ~ok => granted'[s] = granted[s]
    BY <1>1, <1>4, ScheduleAssumption DEF TypeOK
  <1>14. ASSUME NEW s \in Schedules
         PROVE  IsPending(m[s]) => Open(s)' /\ granted'[s] <= m[s].lease
    <2>1. CASE s \in taken
      <3>1. Open(s)
        BY <1>1, <1>2, <2>1 DEF Records, Trusted
      <3>2. granted'[s] \in 0..Lease /\ m[s].lease = Lease
        BY <1>9, <1>13, <2>1
      <3>3. granted'[s] <= m[s].lease
        BY <3>2, ScheduleAssumption
      <3> QED
        BY <1>12, <3>1, <3>3
    <2>2. CASE s \notin taken
      <3>1. m[s] = mem[p][s] /\ granted'[s] = granted[s]
        BY <1>9, <1>13, <2>2
      <3>2. Trusted(mem[p][s], s)
        BY <1>1 DEF Records
      <3> QED
        BY <1>12, <3>1, <3>2 DEF Trusted
    <2> QED
      BY <2>1, <2>2
  <1>15. Records'
    <2>1. \A s \in Schedules : Trusted(mem[p][s], s)'
      BY <1>10, <1>14 DEF Trusted
    <2>2. ASSUME file' # Torn, NEW s \in Schedules
          PROVE  Trusted(file[s], s)'
      <3>1. CASE file'[s] = Absent
        BY <3>1 DEF Trusted, IsPending
      <3>2. CASE file'[s] = m[s]
        BY <1>14, <3>2 DEF Trusted
      <3>3. CASE ~ok /\ file # Torn /\ file'[s] = file[s]
        BY <1>1, <1>12, <1>13, <3>3 DEF Records, Trusted
      <3> QED
        BY <1>11, <2>2, <3>1, <3>2, <3>3
    <2> QED
      BY <2>1, <2>2 DEF Records, OneProcess
  <1>16. Unborn' /\ OneRunPerCut'
    <2>1. \A s \in taken : s \in born
      BY <1>1, <1>2 DEF Records, Trusted, Open
    <2>2. \A s \in Schedules \ born : granted'[s] = granted[s]
      BY <1>13, <2>1
    <2>3. Unborn'
      BY <1>1, <1>5, <2>2 DEF Unborn
    <2>4. OneRunPerCut'
      BY <1>1, <1>5 DEF OneRunPerCut
    <2> QED
      BY <2>3, <2>4
  <1> QED
    BY <1>15, <1>16, AcquireBase DEF Inv

\* A step that leaves the records alone, and closes no schedule, keeps them trusted.
LEMMA KeepRecords ==
  ASSUME Records, UNCHANGED <<mem, file, granted>>, \A s \in Schedules : Open(s) => Open(s)'
  PROVE  Records'
  BY DEF Records, Trusted

\* A run is started for an open schedule, which was not being handled.
LEMMA StartInv ==
  ASSUME OneProcess, Inv, NEW p \in Processes, NEW s \in Schedules,
         Start(p, s) \/ StartRaises(p, s)
  PROVE  Inv'
  <1>1. /\ stage[p] = "loop" /\ s \in batch[p]
        /\ current' = [current EXCEPT ![p] = s]
        /\ \/ stage' = [stage EXCEPT ![p] = "started"] /\ runs' = [runs EXCEPT ![s] = @ + 1]
           \/ stage' = [stage EXCEPT ![p] = "raised"] /\ UNCHANGED runs
        /\ UNCHANGED <<mem, file, born, cut, granted, withdrawn>>
    BY DEF Start, StartRaises, history
  <1>2. TypeOK /\ Handling /\ Records /\ Unborn /\ OneRunPerCut
    BY DEF Inv, Base
  <1>3. Open(s)
    <2>1. IsPending(mem[p][s])
      BY <1>1, <1>2, RecordsArePresent DEF Handling
    <2> QED
      BY <1>2, <2>1 DEF Records, Trusted
  <1>4. \A q \in Processes : q = p
    BY DEF OneProcess
  <1>5. \A t \in Schedules : runs[t] \in Nat /\ cut[t] \in Nat
    BY <1>2 DEF TypeOK
  <1>6. \A t \in Schedules : Open(t) => runs[t] <= cut[t]
    BY <1>1, <1>4 DEF Open, Unmarked
  <1>7. /\ \A t \in Schedules : t # s => runs'[t] = runs[t]
        /\ runs'[s] = runs[s] \/ (runs'[s] = runs[s] + 1 /\ Unmarked(p, s)')
    BY <1>1, <1>2 DEF TypeOK, Unmarked
  <1>8. \A t \in Schedules : Open(t) => Open(t)'
    <2>1. Open(s)'
      BY <1>1, <1>3, <1>6, <1>7 DEF Open
    <2>2. \A t \in Schedules : t # s /\ Open(t) => Open(t)'
      BY <1>1, <1>6, <1>7 DEF Open
    <2> QED
      BY <2>1, <2>2
  <1>9. Records'
    BY <1>1, <1>2, <1>8, KeepRecords
  <1>10. OneRunPerCut'
    BY <1>1, <1>2, <1>3, <1>5, <1>6, <1>7 DEF OneRunPerCut
  <1>11. Unborn'
    BY <1>1, <1>2, <1>3, <1>7 DEF Unborn, Open
  <1> QED
    BY <1>9, <1>10, <1>11, StartBase DEF Inv

\* mark(TRIGGERED) closes the schedule that is handled, when its write succeeds.
LEMMA MarkTriggeredInv ==
  ASSUME OneProcess, Inv, NEW p \in Processes, MarkTriggered(p)
  PROVE  Inv'
  <1>1. PICK ok \in BOOLEAN :
            /\ Persist(mem'[p], ok)
            /\ ~ok => stage' = [stage EXCEPT ![p] = "unmarked"] /\ UNCHANGED current
    BY DEF MarkTriggered, Outcomes
  <1>2. /\ stage[p] = "started" /\ Marks(p, current[p], "triggered")
        /\ UNCHANGED <<born, runs, cut, granted, withdrawn>>
    BY DEF MarkTriggered, Marks, history
  <1>3. TypeOK /\ Handling /\ Records /\ Unborn /\ OneRunPerCut
    BY DEF Inv, Base
  <1>4. PICK s \in Schedules : s = current[p] /\ mem[p][s] # Absent
    BY <1>2, <1>3 DEF Handling
  <1>5. PICK m \in Store : Writes(p, s, m, ok) /\ m[s].status = "triggered"
    <2>1. "triggered" \in {"pending", "triggered", "canceled", "failed"}
      OBVIOUS
    <2> QED
      BY <1>1, <1>2, <1>3, <1>4, <2>1, MarkWrites
  <1>6. \A t \in Schedules : t # s /\ Open(t) => Open(t)'
    <2>1. \A q \in Processes : q = p
      BY DEF OneProcess
    <2> QED
      BY <1>2, <1>4, <2>1 DEF Open, Unmarked
  <1>7. ~ok /\ Open(s) => Open(s)'
    <2>1. ~ok => Unmarked(p, s)'
      BY <1>1, <1>3, <1>4 DEF Unmarked, TypeOK
    <2> QED
      BY <1>2, <2>1 DEF Open
  <1>8. ~IsPending(m[s])
    BY <1>5 DEF IsPending
  <1>9. Records'
    BY <1>2, <1>3, <1>4, <1>5, <1>6, <1>7, <1>8, WriteRecords
  <1>10. Unborn' /\ OneRunPerCut'
    BY <1>2, <1>3 DEF Unborn, OneRunPerCut
  <1> QED
    BY <1>9, <1>10, MarkTriggeredBase DEF Inv

\* A call that is cut short accounts for the run it leaves unmarked.
LEMMA CuttingShort ==
  ASSUME TypeOK, OneRunPerCut, NEW p \in Processes, cut' = CutShort(p), UNCHANGED runs
  PROVE  /\ OneRunPerCut'
         /\ \A s \in Schedules :
               /\ runs[s] <= cut[s] => runs'[s] <= cut'[s]
               /\ Unmarked(p, s) => runs'[s] <= cut'[s]
  <1>1. \A s \in Schedules :
           /\ runs[s] \in Nat /\ cut[s] \in Nat /\ runs[s] <= 1 + cut[s]
           /\ cut'[s] = IF Unmarked(p, s) THEN cut[s] + 1 ELSE cut[s]
    BY DEF TypeOK, OneRunPerCut, CutShort
  <1> QED
    BY <1>1 DEF OneRunPerCut

\* mark(FAILED) closes the schedule, or the call is cut short.
LEMMA MarkFailedInv ==
  ASSUME OneProcess, Inv, NEW p \in Processes, MarkFailed(p)
  PROVE  Inv'
  <1>1. PICK ok \in BOOLEAN :
            /\ Persist(mem'[p], ok)
            /\ IF ok THEN UNCHANGED cut ELSE cut' = CutShort(p)
    BY DEF MarkFailed, Outcomes
  <1>2. /\ stage[p] \in {"raised", "unmarked"} /\ Marks(p, current[p], "failed")
        /\ UNCHANGED <<born, runs, granted, withdrawn>>
    BY DEF MarkFailed, Marks
  <1>3. TypeOK /\ Handling /\ Records /\ Unborn /\ OneRunPerCut
    BY DEF Inv, Base
  <1>4. PICK s \in Schedules : s = current[p] /\ mem[p][s] # Absent
    BY <1>2, <1>3 DEF Handling
  <1>5. PICK m \in Store : Writes(p, s, m, ok) /\ m[s].status = "failed"
    <2>1. "failed" \in {"pending", "triggered", "canceled", "failed"}
      OBVIOUS
    <2> QED
      BY <1>1, <1>2, <1>3, <1>4, <2>1, MarkWrites
  <1>6. /\ OneRunPerCut'
        /\ \A t \in Schedules : runs[t] <= cut[t] => runs'[t] <= cut'[t]
        /\ ~ok /\ Unmarked(p, s) => runs'[s] <= cut'[s]
    <2>1. CASE ok
      BY <1>1, <1>2, <1>3, <2>1 DEF OneRunPerCut
    <2>2. CASE ~ok
      BY <1>1, <1>2, <1>3, <1>4, <2>2, CuttingShort
    <2> QED
      BY <2>1, <2>2
  <1>7. \A q \in Processes : q = p
    BY DEF OneProcess
  <1>8. \A t \in Schedules : t # s /\ Open(t) => Open(t)'
    BY <1>2, <1>4, <1>6, <1>7 DEF Open, Unmarked
  <1>9. ~ok /\ Open(s) => Open(s)'
    BY <1>2, <1>4, <1>6, <1>7 DEF Open
  <1>10. ~IsPending(m[s])
    BY <1>5 DEF IsPending
  <1>11. Records'
    BY <1>2, <1>3, <1>4, <1>5, <1>8, <1>9, <1>10, WriteRecords
  <1>12. Unborn'
    BY <1>2, <1>3 DEF Unborn
  <1> QED
    BY <1>6, <1>11, <1>12, MarkFailedBase DEF Inv

\* The clock counts the lease of a record and the one that was granted alike.
LEMMA TickInv == OneProcess /\ Inv /\ Tick => Inv'
  <1> SUFFICES ASSUME OneProcess, Inv, Tick PROVE Inv'
    OBVIOUS
  <1>1. /\ mem' = [p \in Processes |-> CountDown(mem[p])]
        /\ file' = IF file = Torn THEN Torn ELSE CountDown(file)
        /\ granted' = [s \in Schedules |-> IF granted[s] = 0 THEN 0 ELSE granted[s] - 1]
        /\ UNCHANGED <<current, stage, born, runs, cut, withdrawn>>
    BY DEF Tick
  <1>2. TypeOK /\ Records /\ Unborn /\ OneRunPerCut
    BY DEF Inv, Base
  <1>3. \A s \in Schedules : Open(s) => Open(s)'
    BY <1>1 DEF Open, Unmarked
  <1>4. ASSUME NEW m \in Store, NEW s \in Schedules, Trusted(m[s], s)
        PROVE  IsPending(CountDown(m)[s]) => Open(s)' /\ granted'[s] <= CountDown(m)[s].lease
    <2>1. /\ CountDown(m)[s] = Absent <=> m[s] = Absent
          /\ m[s] # Absent =>
                /\ CountDown(m)[s].status = m[s].status
                /\ CountDown(m)[s].lease = IF m[s].lease = 0 THEN 0 ELSE m[s].lease - 1
      BY Counting
    <2>2. granted[s] \in Nat /\ granted'[s] = IF granted[s] = 0 THEN 0 ELSE granted[s] - 1
      BY <1>1, <1>2, ScheduleAssumption DEF TypeOK
    <2>3. m[s] # Absent => m[s].lease \in Nat
      <3>1. m[s] # Absent => m[s] \in Record
        BY DEF Store
      <3> QED
        BY <3>1, ScheduleAssumption DEF Record
    <2>4. ASSUME IsPending(CountDown(m)[s])
          PROVE  Open(s) /\ m[s] # Absent /\ granted[s] <= m[s].lease
      BY <1>4, <2>1, <2>4 DEF Trusted, IsPending
    <2> QED
      BY <1>3, <2>1, <2>2, <2>3, <2>4
  <1>5. Records'
    <2>1. /\ \A p \in Processes : mem[p] \in Store /\ mem'[p] = CountDown(mem[p])
          /\ file' # Torn => file # Torn /\ file \in Store /\ file' = CountDown(file)
      BY <1>1, <1>2 DEF TypeOK
    <2>2. \A p \in Processes, s \in Schedules : Trusted(mem[p][s], s)'
      BY <1>2, <1>4, <2>1 DEF Records, Trusted
    <2>3. file' # Torn => \A s \in Schedules : Trusted(file[s], s)'
      BY <1>2, <1>4, <2>1 DEF Records, Trusted
    <2> QED
      BY <2>2, <2>3 DEF Records
  <1>6. Unborn' /\ OneRunPerCut'
    BY <1>1, <1>2 DEF Unborn, OneRunPerCut
  <1> QED
    BY <1>5, <1>6, <1>2, TickBase DEF Inv

\* A crash leaves the file, and counts the run it has not recorded.
LEMMA CrashInv ==
  ASSUME OneProcess, Inv, NEW p \in Processes, Crash(p)
  PROVE  Inv'
  <1>1. /\ file' \in {file, Torn}
        /\ cut' = CutShort(p)
        /\ mem' = [mem EXCEPT ![p] = Nothing]
        /\ UNCHANGED <<born, runs, granted, withdrawn>>
    BY DEF Crash
  <1>2. TypeOK /\ Records /\ Unborn /\ OneRunPerCut
    BY DEF Inv, Base
  <1>3. /\ OneRunPerCut'
        /\ \A s \in Schedules :
              /\ runs[s] <= cut[s] => runs'[s] <= cut'[s]
              /\ Unmarked(p, s) => runs'[s] <= cut'[s]
    BY <1>1, <1>2, CuttingShort
  <1>4. \A q \in Processes : q = p
    BY DEF OneProcess
  <1>5. \A s \in Schedules : Open(s) => Open(s)'
    BY <1>1, <1>3, <1>4 DEF Open
  <1>6. Records'
    <2>1. \A s \in Schedules : mem'[p][s] = Absent
      BY <1>1, <1>2 DEF TypeOK, Nothing
    <2>2. \A s \in Schedules : Trusted(mem[p][s], s)'
      BY <2>1 DEF Trusted, IsPending
    <2>3. file' # Torn => \A s \in Schedules : Trusted(file[s], s)'
      BY <1>1, <1>2, <1>5 DEF Records, Trusted
    <2> QED
      BY <1>4, <2>2, <2>3 DEF Records
  <1>7. Unborn'
    BY <1>1, <1>2 DEF Unborn
  <1> QED
    BY <1>3, <1>6, <1>7, CrashBase DEF Inv

\* A restart takes trusted records from the file.
LEMMA RestartInv ==
  ASSUME OneProcess, Inv, NEW p \in Processes, Restart(p)
  PROVE  Inv'
  <1>1. /\ file # Torn
        /\ mem' = [mem EXCEPT ![p] = file]
        /\ UNCHANGED <<file, current, stage, born, runs, cut, granted, withdrawn>>
    BY DEF Restart, history
  <1>2. TypeOK /\ Records /\ Unborn /\ OneRunPerCut
    BY DEF Inv, Base
  <1>3. \A s \in Schedules : Open(s) => Open(s)'
    BY <1>1 DEF Open, Unmarked
  <1>4. \A q \in Processes : q = p
    BY DEF OneProcess
  <1>5. Records'
    <2>1. mem'[p] = file
      BY <1>1, <1>2 DEF TypeOK
    <2>2. \A s \in Schedules : Trusted(file[s], s)'
      BY <1>1, <1>2, <1>3 DEF Records, Trusted
    <2>3. \A s \in Schedules : Trusted(mem[p][s], s)'
      BY <1>1, <2>1, <2>2 DEF Trusted
    <2> QED
      BY <1>4, <2>2, <2>3 DEF Records
  <1>6. Unborn' /\ OneRunPerCut'
    BY <1>1, <1>2 DEF Unborn, OneRunPerCut
  <1> QED
    BY <1>5, <1>6, RestartBase DEF Inv

\* Every step of one process, or none, keeps the invariant.
LEMMA NextInv == OneProcess /\ Inv /\ [Next]_vars => Inv'
  <1> SUFFICES ASSUME OneProcess, Inv, [Next]_vars PROVE Inv'
    OBVIOUS
  <1>1. CASE \E p \in Api, s \in Schedules, delay \in 0..MaxDelay : Create(p, s, delay)
    BY <1>1, CreateInv
  <1>2. CASE \E p \in Api, s \in Schedules : Cancel(p, s)
    BY <1>2, CancelInv
  <1>3. CASE \E p \in Processes : Acquire(p)
    BY <1>3, AcquireInv
  <1>4. CASE \E p \in Processes, s \in Schedules : Start(p, s) \/ StartRaises(p, s)
    BY <1>4, StartInv
  <1>5. CASE \E p \in Processes : MarkTriggered(p)
    BY <1>5, MarkTriggeredInv
  <1>6. CASE \E p \in Processes : MarkFailed(p)
    BY <1>6, MarkFailedInv
  <1>7. CASE \E p \in Processes : Crash(p)
    BY <1>7, CrashInv
  <1>8. CASE \E p \in Processes : Restart(p)
    BY <1>8, RestartInv
  <1>9. CASE Tick
    BY <1>9, TickInv
  <1>10. CASE UNCHANGED vars
    <2>1. /\ UNCHANGED <<mem, file, current, stage, born, runs, cut, granted, withdrawn>>
          /\ Base'
      BY <1>10, NextBase DEF vars, history, Inv
    <2>2. \A s \in Schedules : Open(s) => Open(s)'
      BY <2>1 DEF Open, Unmarked
    <2> QED
      BY <2>1, <2>2, KeepRecords DEF Inv, Unborn, OneRunPerCut
  <1> QED
    BY <1>1, <1>2, <1>3, <1>4, <1>5, <1>6, <1>7, <1>8, <1>9, <1>10 DEF Next, Handle

\* Inv holds in every state.
LEMMA InvHolds ==
  ASSUME OneProcess
  PROVE  Spec => []Inv
  <1>1. Inv /\ [Next]_vars => Inv'
    BY NextInv
  <1> QED
    BY <1>1, InitInv, PTL DEF Spec

\* A schedule starts one run, and one more at most for each run_due call that died
\* between runtime.start and the mark on disk, when the file has one user.
THEOREM RunsOncePerCut ==
  ASSUME OneProcess
  PROVE  Spec => []OneRunPerCut
  <1>1. Inv => OneRunPerCut
    BY DEF Inv
  <1> QED
    BY <1>1, InvHolds, PTL

\* A schedule that the file calls pending after a run of it is being handled, or was
\* cut short, when the file has one user (mark and _persist in run_due).
THEOREM RunsAreRecorded ==
  ASSUME OneProcess
  PROVE  Spec => []RanIsRecorded
  <1>1. Inv => RanIsRecorded
    <2> SUFFICES ASSUME Inv, NEW s \in Schedules, runs[s] > cut[s], file # Torn,
                        IsPending(file[s])
                 PROVE  \E p \in Processes : Unmarked(p, s)
      BY DEF RanIsRecorded, IsPending
    <2>1. runs[s] \in Nat /\ cut[s] \in Nat /\ Open(s)
      BY DEF Inv, Base, TypeOK, Records, Trusted
    <2> QED
      BY <2>1 DEF Open
  <1> QED
    BY <1>1, InvHolds, PTL

\* Only schedules whose granted lease has run out are acquired, when the file has
\* one user: acquire_due, across crashes and restarts.
THEOREM LeasesExclude ==
  ASSUME OneProcess
  PROVE  Spec => LeaseExclusion
  <1> DEFINE Free == \A p \in Processes : \A s \in batch'[p] \ batch[p] : granted[s] = 0
  <1>1. Inv /\ [Next]_vars => [Free]_vars
    <2> SUFFICES ASSUME Inv, Next, NEW p \in Processes, NEW s \in batch'[p], s \notin batch[p]
                 PROVE  granted[s] = 0
      BY DEF Free
    <2>1. TypeOK /\ Records
      BY DEF Inv, Base
    <2>2. CASE Acquire(p)
      <3>1. s \in Acquirable(mem[p])
        BY <2>1, <2>2 DEF Acquire, TypeOK
      <3>2. s \in Schedules /\ IsPending(mem[p][s]) /\ mem[p][s].lease = 0
        BY <3>1, AcquirableArePending
      <3>3. granted[s] \in 0..Lease /\ granted[s] <= 0
        BY <2>1, <3>2 DEF TypeOK, Records, Trusted
      <3> QED
        BY <3>3, ScheduleAssumption
    <2>3. CASE ~Acquire(p)
      <3>1. batch'[p] \subseteq batch[p]
        <4>1. CASE \E q \in Processes : Acquire(q)
          BY <2>1, <2>3, <4>1 DEF Acquire, TypeOK
        <4>2. CASE \E q \in Processes : MarkTriggered(q) \/ MarkFailed(q) \/ Crash(q)
          BY <2>1, <4>2 DEF MarkTriggered, MarkFailed, Continue, Crash, TypeOK
        <4>3. CASE UNCHANGED batch
          BY <4>3
        <4> QED
          BY <4>1, <4>2, <4>3 DEF Next, Handle, Create, Cancel, Start, StartRaises, Restart, Tick
      <3> QED
        BY <3>1
    <2> QED
      BY <2>2, <2>3
  <1> QED
    BY <1>1, InvHolds, PTL DEF Spec, LeaseExclusion

\* No run is started for a schedule whose cancellation was confirmed, when the file
\* has one user (cancel, acquire_due and runtime.start).
THEOREM WithdrawnStays ==
  ASSUME OneProcess
  PROVE  Spec => WithdrawnNeverRuns
  <1> DEFINE Quiet == \A s \in withdrawn : runs'[s] = runs[s]
  <1>1. Inv /\ [Next]_vars => [Quiet]_vars
    <2> SUFFICES ASSUME Inv, Next, NEW s \in withdrawn
                 PROVE  runs'[s] = runs[s]
      BY DEF Quiet
    <2>1. CASE \E p \in Processes, t \in Schedules : Start(p, t)
      <3>1. PICK p \in Processes, t \in Schedules : Start(p, t)
        BY <2>1
      <3>2. IsPending(mem[p][t])
        BY <3>1, RecordsArePresent DEF Inv, Base, Handling, Start
      <3>3. t # s
        BY <3>2 DEF Inv, Records, Trusted, Open
      <3> QED
        BY <3>1, <3>3 DEF Start, Inv, Base, TypeOK
    <2>2. CASE UNCHANGED runs
      BY <2>2
    <2> QED
      BY <2>1, <2>2
      DEF Next, Handle, Create, Cancel, Acquire, StartRaises, MarkTriggered, MarkFailed, Crash,
          Restart, Tick, history
  <1> QED
    BY <1>1, InvHolds, PTL DEF Spec, WithdrawnNeverRuns

-----------------------------------------------------------------------------
(* What the file keeps, when it has one user                                *)

\* Of the ids B that have been used, the confirmed ones C that are among the Cap
\* newest have a record in m.
KeptIn(C, B, m) == C \intersect Newest(B, Cap) \subseteq Present(m)

KeptInv ==
    /\ Base
    /\ Known
    /\ confirmed \subseteq born
    /\ \A p \in up : KeptIn(confirmed, born, mem[p])
    /\ file # Torn => KeptIn(confirmed, born, file)

\* Among fewer records none is further from the newest.
LEMMA NewestOfPart ==
  ASSUME NEW T \in SUBSET Schedules, NEW S \in SUBSET T, NEW s \in Newest(T, Cap), s \in S
  PROVE  s \in Newest(S, Cap)
  <1> DEFINE above(R) == {t \in R : t > s}
  <1>1. IsFiniteSet(above(T))
    BY ScheduleAssumption, FS_Subset
  <1>2. above(S) \in SUBSET above(T)
    OBVIOUS
  <1> HIDE DEF above
  <1>3. /\ Cardinality(above(S)) <= Cardinality(above(T))
        /\ Cardinality(above(S)) \in Nat /\ Cardinality(above(T)) \in Nat
    BY <1>1, <1>2, FS_Subset, FS_CardinalityType
  <1>4. Cardinality(above(T)) < Cap
    BY DEF Newest, above
  <1>5. Cardinality(above(S)) < Cap
    BY <1>3, <1>4, ScheduleAssumption
  <1> QED
    BY <1>5 DEF Newest, above

\* So a write that succeeds drops only records that Cap newer ones push out, and
\* one that fails leaves what was there.
LEMMA PersistKeeps ==
  ASSUME NEW C, NEW B \in SUBSET Schedules, NEW m \in Store, Present(m) \subseteq B,
         KeptIn(C, B, m), NEW ok \in BOOLEAN, Persist(m, ok), file' # Torn,
         ~ok /\ file # Torn => KeptIn(C, B, file)
  PROVE  KeptIn(C, B, file')
  <1>1. CASE ok
    <2>1. file' = Saved(m)
      BY <1>1 DEF Persist
    <2> SUFFICES ASSUME NEW s \in C, s \in Newest(B, Cap) PROVE s \in Present(Saved(m))
      BY <2>1 DEF KeptIn
    <2>2. s \in Present(m)
      BY DEF KeptIn
    <2>3. s \in Newest(Present(m), Cap)
      BY <2>2, NewestOfPart
    <2> QED
      BY <2>2, <2>3 DEF Saved, Present
  <1>2. CASE ~ok
    BY <1>2 DEF Persist
  <1> QED
    BY <1>1, <1>2

\* A new id makes no other one newer.
LEMMA CreateKept ==
  ASSUME OneProcess, KeptInv, NEW p \in Api, NEW s \in Schedules, NEW delay \in 0..MaxDelay,
         Create(p, s, delay)
  PROVE  KeptInv'
  <1>1. p \in Processes /\ p \in up /\ TypeOK /\ Base' /\ Known'
    <2>1. Base /\ Known /\ [Next]_vars
      BY DEF KeptInv, Next
    <2> QED
      BY <2>1, NextBase, KnownNext DEF Base, Processes, Create, Ready
  <1>2. born' = born \union {s} /\ UNCHANGED up /\ born \subseteq Schedules /\ born' \subseteq Schedules
    BY <1>1 DEF Create, TypeOK
  <1>3. Present(mem'[p]) = Present(mem[p]) \union {s}
    BY CreateShape DEF KeptInv
  <1>4. PICK ok \in BOOLEAN :
            /\ Persist(mem'[p], ok)
            /\ confirmed' = IF ok THEN confirmed \union {s} ELSE confirmed
    BY CreateShape DEF KeptInv
  <1>5. ASSUME NEW m, KeptIn(confirmed, born, m)
        PROVE  confirmed \intersect Newest(born', Cap) \subseteq Present(m) \union {s}
    <2> SUFFICES ASSUME NEW t \in confirmed, t \in Newest(born', Cap), t # s
                 PROVE  t \in Present(m)
      OBVIOUS
    <2>1. t \in born
      BY DEF KeptInv
    <2>2. t \in Newest(born, Cap)
      BY <1>2, <2>1, NewestOfPart
    <2> QED
      BY <1>5, <2>2 DEF KeptIn
  <1>6. KeptIn(confirmed', born', mem'[p])
    <2>1. KeptIn(confirmed, born, mem[p])
      BY <1>1 DEF KeptInv
    <2> QED
      BY <1>3, <1>4, <1>5, <2>1 DEF KeptIn
  <1>7. ~ok /\ file # Torn => KeptIn(confirmed', born', file)
    <2> SUFFICES ASSUME ~ok, file # Torn, NEW t \in confirmed, t \in Newest(born', Cap)
                 PROVE  t \in Present(file)
      BY <1>4 DEF KeptIn
    <2>1. t \in born /\ KeptIn(confirmed, born, file)
      BY DEF KeptInv
    <2>2. t \in Newest(born, Cap)
      BY <1>2, <2>1, NewestOfPart
    <2> QED
      BY <2>1, <2>2 DEF KeptIn
  <1>8. file' # Torn => KeptIn(confirmed', born', file')
    <2>1. mem'[p] \in Store /\ Present(mem'[p]) \subseteq born'
      BY <1>1 DEF Base, TypeOK, Known
    <2> QED
      BY <1>2, <1>4, <1>6, <1>7, <2>1, PersistKeeps
  <1>9. \A q \in up' : q = p
    BY <1>1, <1>2 DEF OneProcess, TypeOK
  <1>10. confirmed' \subseteq born'
    BY <1>2, <1>4 DEF KeptInv
  <1> QED
    BY <1>1, <1>6, <1>8, <1>9, <1>10 DEF KeptInv

\* Every step of one process keeps in the file what was confirmed and still fits.
LEMMA KeptNext ==
  ASSUME OneProcess, KeptInv, [Next]_vars
  PROVE  KeptInv'
  <1> Base /\ Known /\ TypeOK
    BY DEF KeptInv, Base
  <1>1. Base' /\ Known'
    BY NextBase, KnownNext
  <1>2. CASE \E p \in Api, s \in Schedules, delay \in 0..MaxDelay : Create(p, s, delay)
    BY <1>2, CreateKept
  <1>3. CASE \E p \in Processes, ok \in BOOLEAN : Rewrites(p, ok)
    <2>1. PICK p \in Processes, ok \in BOOLEAN : Rewrites(p, ok)
      BY <1>3
    <2>2. /\ p \in up /\ UNCHANGED <<born, confirmed>>
          /\ Present(mem'[p]) = Present(mem[p]) /\ Persist(mem'[p], ok)
      BY <2>1 DEF Rewrites
    <2>3. KeptIn(confirmed', born', mem'[p])
      BY <2>2 DEF KeptInv, KeptIn
    <2>4. mem'[p] \in Store /\ Present(mem'[p]) \subseteq born' /\ born' \subseteq Schedules
      BY <1>1 DEF Base, TypeOK, Known
    <2>5. file # Torn => KeptIn(confirmed', born', file)
      BY <2>2 DEF KeptInv
    <2>6. file' # Torn => KeptIn(confirmed', born', file')
      BY <2>2, <2>3, <2>4, <2>5, PersistKeeps
    <2>7. \A q \in up' : q = p
      BY <1>1 DEF OneProcess, Base, TypeOK
    <2>8. confirmed' \subseteq born'
      BY <2>2 DEF KeptInv
    <2> QED
      BY <1>1, <2>3, <2>6, <2>7, <2>8 DEF KeptInv
  <1>4. CASE \E p \in Processes : Crash(p)
    <2>1. PICK p \in Processes : Crash(p)
      BY <1>4
    <2> QED
      BY <1>1, <2>1, CrashShape DEF KeptInv, TypeOK
  <1>5. CASE \E p \in Processes : Restart(p)
    <2>1. PICK p \in Processes : Restart(p)
      BY <1>5
    <2> QED
      BY <1>1, <2>1, RestartShape DEF KeptInv, TypeOK
  <1>6. CASE Tick
    BY <1>1, <1>6, TickShape DEF KeptInv, KeptIn, TypeOK
  <1>7. CASE UNCHANGED <<up, mem, file, born, confirmed>>
    BY <1>1, <1>7 DEF KeptInv
  <1> QED
    BY <1>2, <1>3, <1>4, <1>5, <1>6, <1>7, StepKinds DEF Start, StartRaises, vars, history

\* A schedule whose creation was confirmed to the caller is not lost from the file
\* before 10_000 younger ones push it out (Cap, in _persist), when the file has one
\* user: whatever writes fail, whatever crashes come.
THEOREM ConfirmedIsKept ==
  ASSUME OneProcess
  PROVE  Spec => []ConfirmedKept
  <1>1. Init => KeptInv
    <2> SUFFICES ASSUME Init PROVE KeptInv
      OBVIOUS
    <2>1. Base /\ Known
      BY InitBase DEF Init, Known, Present, Nothing
    <2> QED
      BY <2>1 DEF Init, KeptInv, KeptIn
  <1>2. KeptInv => ConfirmedKept
    BY DEF KeptInv, KeptIn, ConfirmedKept
  <1>3. KeptInv /\ [Next]_vars => KeptInv'
    BY KeptNext
  <1> QED
    BY <1>1, <1>2, <1>3, PTL DEF Spec

=============================================================================
