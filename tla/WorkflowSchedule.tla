-------------------------- MODULE WorkflowSchedule --------------------------
(***************************************************************************)
(* Scheduled workflow runs: WorkflowScheduleStore, WorkflowScheduler and   *)
(* the loop of workflow_worker.py.  Every process that serves the API or   *)
(* runs the worker holds a store of its own, loaded once from the schedule *)
(* file; every change rewrites the whole file from that store's memory.    *)
(*                                                                         *)
(* Inside one process run_due has no suspension point between acquire_due  *)
(* and the last mark (runtime.start never waits), so only crashes, the     *)
(* clock and the other processes come between its steps.                   *)
(*                                                                         *)
(* Times are kept as the ticks that are left: run_at as "delay" (0: due),  *)
(* locked_until as "lease" (0: None or not after now), so Tick counts them *)
(* down wherever a record is stored.  Schedules are numbered by run_at.    *)
(***************************************************************************)
EXTENDS Naturals, FiniteSets

CONSTANTS
    Schedules,   \* schedule ids, numbered in the order of their run_at
    Api,         \* processes that serve the API
    Workers,     \* processes that run workflow_worker.run_forever
    Absent,      \* no record under this id
    Torn,        \* content of a file whose writing was cut short
    None,        \* no process, no schedule
    Lease,       \* lease_seconds, in ticks
    MaxDelay,    \* bound: the longest delay a schedule is created with
    Limit,       \* the limit of run_due: schedules acquired per call
    Cap,         \* the 10_000 of due and _persist: records kept, latest run_at first
    MaxCrashes,  \* bound: crashes in a behaviour
    DiskFaults   \* whether writing the file may fail or be cut short

Processes == Api \union Workers

ASSUME ScheduleAssumption ==
    /\ Schedules \subseteq Nat
    /\ IsFiniteSet(Schedules) /\ IsFiniteSet(Processes)
    /\ Lease \in Nat \ {0}
    /\ MaxDelay \in Nat
    /\ Limit \in Nat \ {0}
    /\ Cap \in Nat \ {0}
    /\ MaxCrashes \in Nat
    /\ DiskFaults \in BOOLEAN

Record == [status : {"pending", "triggered", "canceled", "failed"},
           delay : 0..MaxDelay,
           lease : 0..Lease,
           holder : Processes \union {None}]
Store == [Schedules -> Record \union {Absent}]

ASSUME SentinelAssumption ==
    /\ Absent \notin Record
    /\ Torn \notin Store
    /\ None \notin Processes \union Schedules

VARIABLES
    up,       \* the processes that are running
    mem,      \* mem[p]: the _records of p's store
    file,     \* the schedule file
    batch,    \* batch[p]: what p's run_due acquired and has not handled yet
    current,  \* current[p]: the schedule it is handling
    stage,    \* stage[p]: where run_due is with it
    crashes,  \* how many crashes there have been
    loads,    \* how often a process that had ended has loaded the file again
    \* history variables
    born,         \* ids that have been used (uuid4: never again)
    confirmed,    \* schedules whose creation was confirmed to the caller
    runs,         \* runs[s]: workflow runs started for s
    cut,          \* cut[s]: run_due calls that ended between start and mark of s
    granted,      \* granted[s]: what is left of the longest lease given on s
    withdrawn     \* schedules whose cancellation was confirmed to the caller

history == <<born, confirmed, runs, cut, granted, withdrawn>>
vars == <<up, mem, file, batch, current, stage, crashes, loads, history>>

Nothing == [s \in Schedules |-> Absent]

Init ==
    /\ up = Processes
    /\ mem = [p \in Processes |-> Nothing]
    /\ file = Nothing
    /\ batch = [p \in Processes |-> {}]
    /\ current = [p \in Processes |-> None]
    /\ stage = [p \in Processes |-> "idle"]
    /\ crashes = 0
    /\ loads = 0
    /\ born = {}
    /\ confirmed = {}
    /\ runs = [s \in Schedules |-> 0]
    /\ cut = [s \in Schedules |-> 0]
    /\ granted = [s \in Schedules |-> 0]
    /\ withdrawn = {}

-----------------------------------------------------------------------------
(* WorkflowScheduleStore                                                    *)

\* list(limit): the records with the latest run_at first.
Newest(S, limit) == {s \in S : Cardinality({t \in S : t > s}) < limit}

Present(m) == {s \in Schedules : m[s] # Absent}

\* Mutant of Saved: one record less than the cap.
SavedOneLess(m) ==
    [s \in Schedules |-> IF s \in Newest(Present(m), Cap - 1) THEN m[s] ELSE Absent]

\* _persist: the Cap newest records, and only those, are written.
Saved(m) == [s \in Schedules |-> IF s \in Newest(Present(m), Cap) THEN m[s] ELSE Absent]

\* The result of _persist.  write_text truncates the file before it writes, so a
\* failing write leaves the old content or a file that does not parse.
Persist(m, ok) ==
    IF ok THEN file' = Saved(m) ELSE DiskFaults /\ file' \in {file, Torn}

Outcomes == IF DiskFaults THEN BOOLEAN ELSE {TRUE}

Pending(m) == {s \in Present(m) : m[s].status = "pending"}

\* Mutant of Due: the status filter is missing.
DueAnyStatus(m) == {s \in Newest(Present(m), Cap) : m[s].delay = 0}

\* due: pending records whose time has come, among the Cap newest pending ones.
Due(m) == {s \in Newest(Pending(m), Cap) : m[s].delay = 0}

\* Mutant of Acquirable: a record once locked stays locked, expired or not.
AcquirableUnheld(m) == Newest({s \in Due(m) : m[s].holder = None}, Limit)

\* What acquire_due takes: due records without a live lease, newest first.
Acquirable(m) == Newest({s \in Due(m) : m[s].lease = 0}, Limit)

Mark(m, s, status) ==
    [m EXCEPT ![s] = [@ EXCEPT !.status = status, !.lease = 0, !.holder = None]]

\* The event loop of p is free: no run_due is under way.
Ready(p) == p \in up /\ stage[p] = "idle"

\* WorkflowScheduler.schedule, create: a new pending record.  When the write
\* fails the caller sees an error, and the record stays in memory.
Create(p, s, delay) ==
    /\ Ready(p)
    /\ s \notin born
    /\ \A t \in Present(mem[p]) : /\ t < s => mem[p][t].delay <= delay
                                  /\ t > s => delay <= mem[p][t].delay
    /\ born' = born \union {s}
    /\ mem' = [mem EXCEPT ![p][s] = [status |-> "pending", delay |-> delay,
                                     lease |-> 0, holder |-> None]]
    /\ \E ok \in Outcomes :
          /\ Persist(mem'[p], ok)
          /\ confirmed' = IF ok THEN confirmed \union {s} ELSE confirmed
    /\ UNCHANGED <<up, batch, current, stage, crashes, loads, runs, cut, granted, withdrawn>>

\* Mutant of Cancel: the record is changed in memory and not written.
CancelInMemory(p, s) ==
    /\ Ready(p)
    /\ s \in Pending(mem[p])
    /\ mem' = [mem EXCEPT ![p] = Mark(@, s, "canceled")]
    /\ withdrawn' = withdrawn \union {s}
    /\ UNCHANGED <<up, file, batch, current, stage, crashes, loads, born, confirmed, runs, cut, granted>>

\* WorkflowScheduler.cancel: only a record that is pending in p's memory.
Cancel(p, s) ==
    /\ Ready(p)
    /\ s \in Pending(mem[p])
    /\ mem' = [mem EXCEPT ![p] = Mark(@, s, "canceled")]
    /\ \E ok \in Outcomes :
          /\ Persist(mem'[p], ok)
          /\ withdrawn' = IF ok THEN withdrawn \union {s} ELSE withdrawn
    /\ UNCHANGED <<up, batch, current, stage, crashes, loads, born, confirmed, runs, cut, granted>>

-----------------------------------------------------------------------------
(* WorkflowScheduler.run_due                                                *)

\* acquire_due: leases in memory, then the file.  When the write fails the error
\* leaves run_due at once: run_forever has no handler, so a worker exits.
Acquire(p) ==
    LET taken == Acquirable(mem[p]) IN
    /\ Ready(p)
    /\ taken # {}
    /\ mem' = [mem EXCEPT ![p] = [s \in Schedules |->
                  IF s \in taken THEN [@[s] EXCEPT !.lease = Lease, !.holder = p] ELSE @[s]]]
    /\ \E ok \in Outcomes :
          /\ Persist(mem'[p], ok)
          /\ IF ok
             THEN /\ batch' = [batch EXCEPT ![p] = taken]
                  /\ stage' = [stage EXCEPT ![p] = "loop"]
                  /\ granted' = [s \in Schedules |-> IF s \in taken THEN Lease ELSE granted[s]]
                  /\ UNCHANGED up
             ELSE /\ up' = up \ (Workers \intersect {p})
                  /\ UNCHANGED <<batch, stage, granted>>
    /\ UNCHANGED <<current, crashes, loads, born, confirmed, runs, cut, withdrawn>>

\* runtime.start for the next record of the batch: the run exists from here on.
Start(p, s) ==
    /\ p \in up
    /\ stage[p] = "loop"
    /\ s \in batch[p]
    /\ current' = [current EXCEPT ![p] = s]
    /\ stage' = [stage EXCEPT ![p] = "started"]
    /\ runs' = [runs EXCEPT ![s] = @ + 1]
    /\ UNCHANGED <<up, mem, file, batch, crashes, loads, born, confirmed, cut, granted, withdrawn>>

\* runtime.start raises: the workflow is not (or not yet) known to this process.
StartRaises(p, s) ==
    /\ p \in up
    /\ stage[p] = "loop"
    /\ s \in batch[p]
    /\ current' = [current EXCEPT ![p] = s]
    /\ stage' = [stage EXCEPT ![p] = "raised"]
    /\ UNCHANGED <<up, mem, file, batch, crashes, loads, history>>

\* The loop goes on with the rest of the batch, or run_due returns.
Continue(p) ==
    /\ batch' = [batch EXCEPT ![p] = @ \ {current[p]}]
    /\ stage' = [stage EXCEPT ![p] = IF batch'[p] = {} THEN "idle" ELSE "loop"]
    /\ current' = [current EXCEPT ![p] = None]

\* Mutant of MarkTriggered: the record is changed in memory and not written.
MarkTriggeredInMemory(p) ==
    /\ p \in up
    /\ stage[p] = "started"
    /\ mem' = [mem EXCEPT ![p] = Mark(@, current[p], "triggered")]
    /\ Continue(p)
    /\ UNCHANGED <<up, file, crashes, loads, history>>

\* mark(TRIGGERED) with the id of the run.  It is inside the try: when its write
\* fails the handler below marks the same record FAILED.
MarkTriggered(p) ==
    /\ p \in up
    /\ stage[p] = "started"
    /\ mem' = [mem EXCEPT ![p] = Mark(@, current[p], "triggered")]
    /\ \E ok \in Outcomes :
          /\ Persist(mem'[p], ok)
          /\ IF ok
             THEN Continue(p)
             ELSE /\ stage' = [stage EXCEPT ![p] = "unmarked"]
                  /\ UNCHANGED <<batch, current>>
    /\ UNCHANGED <<up, crashes, loads, history>>

\* p started a run whose schedule it has not marked on disk.
Unmarked(p, s) == current[p] = s /\ stage[p] \in {"started", "unmarked"}

\* run_due ends here: does it leave a run that the file does not know of?
CutShort(p) == [s \in Schedules |-> IF Unmarked(p, s) THEN cut[s] + 1 ELSE cut[s]]

\* Mutant of MarkFailed: the handler marks the record TRIGGERED like the try does.
MarkFailedAsTriggered(p) ==
    /\ p \in up
    /\ stage[p] \in {"raised", "unmarked"}
    /\ mem' = [mem EXCEPT ![p] = Mark(@, current[p], "triggered")]
    /\ Persist(mem'[p], TRUE)
    /\ Continue(p)
    /\ UNCHANGED <<up, crashes, loads, history>>

\* The except clause: mark(FAILED).  When that write fails too, the error leaves
\* run_due, the rest of the batch stays leased and unhandled, a worker exits.
MarkFailed(p) ==
    /\ p \in up
    /\ stage[p] \in {"raised", "unmarked"}
    /\ mem' = [mem EXCEPT ![p] = Mark(@, current[p], "failed")]
    /\ \E ok \in Outcomes :
          /\ Persist(mem'[p], ok)
          /\ IF ok
             THEN Continue(p) /\ UNCHANGED <<up, cut>>
             ELSE /\ batch' = [batch EXCEPT ![p] = {}]
                  /\ stage' = [stage EXCEPT ![p] = "idle"]
                  /\ current' = [current EXCEPT ![p] = None]
                  /\ up' = up \ (Workers \intersect {p})
                  /\ cut' = CutShort(p)
    /\ UNCHANGED <<crashes, loads, born, confirmed, runs, granted, withdrawn>>

-----------------------------------------------------------------------------
(* The clock, crashes and restarts                                          *)

CountDown(m) ==
    [s \in Schedules |->
        IF m[s] = Absent THEN Absent
        ELSE [m[s] EXCEPT !.delay = IF @ = 0 THEN 0 ELSE @ - 1,
                          !.lease = IF @ = 0 THEN 0 ELSE @ - 1]]

Tick ==
    /\ mem' = [p \in Processes |-> CountDown(mem[p])]
    /\ file' = IF file = Torn THEN Torn ELSE CountDown(file)
    /\ granted' = [s \in Schedules |-> IF granted[s] = 0 THEN 0 ELSE granted[s] - 1]
    /\ UNCHANGED <<up, batch, current, stage, crashes, loads, born, confirmed, runs, cut, withdrawn>>

\* p dies.  If that is in the middle of write_text the file is cut short.
Crash(p) ==
    /\ p \in up
    /\ crashes < MaxCrashes
    /\ crashes' = crashes + 1
    /\ up' = up \ {p}
    /\ file' \in IF DiskFaults THEN {file, Torn} ELSE {file}
    /\ cut' = CutShort(p)
    /\ mem' = [mem EXCEPT ![p] = Nothing]
    /\ batch' = [batch EXCEPT ![p] = {}]
    /\ current' = [current EXCEPT ![p] = None]
    /\ stage' = [stage EXCEPT ![p] = "idle"]
    /\ UNCHANGED <<loads, born, confirmed, runs, granted, withdrawn>>

\* Mutant of Restart: locks found in the file are taken for stale and cleared.
RestartUnlocked(p) ==
    /\ p \notin up
    /\ file # Torn
    /\ up' = up \union {p}
    /\ mem' = [mem EXCEPT ![p] = [s \in Schedules |->
                  IF file[s] = Absent THEN Absent
                  ELSE [file[s] EXCEPT !.lease = 0, !.holder = None]]]
    /\ loads' = loads + 1
    /\ UNCHANGED <<file, batch, current, stage, crashes, history>>

\* The store is built again: _load_from_disk, which raises on a torn file.
Restart(p) ==
    /\ p \notin up
    /\ file # Torn
    /\ up' = up \union {p}
    /\ mem' = [mem EXCEPT ![p] = file]
    /\ loads' = loads + 1
    /\ UNCHANGED <<file, batch, current, stage, crashes, history>>

\* The rest of a run_due call that has acquired something.
Handle(p) ==
    \/ \E s \in Schedules : Start(p, s) \/ StartRaises(p, s)
    \/ MarkTriggered(p)
    \/ MarkFailed(p)

Next ==
    \/ \E p \in Api, s \in Schedules :
          \/ \E delay \in 0..MaxDelay : Create(p, s, delay)
          \/ Cancel(p, s)
    \/ \E p \in Processes : Acquire(p) \/ Handle(p) \/ Crash(p) \/ Restart(p)
    \/ Tick

Spec == Init /\ [][Next]_vars

\* A worker polls for ever (run_forever), a process that died is started again by
\* its supervisor, a call of run_due does not stop half way, and time passes.
WorkerFairness ==
    /\ WF_vars(Tick)
    /\ \A p \in Processes : WF_vars(Restart(p)) /\ WF_vars(Handle(p))
    /\ \A p \in Workers : WF_vars(Acquire(p))

\* The API process runs due schedules when POST /schedules/run-due is called; that
\* somebody keeps calling it is an assumption about its users, not the code.
PolledFairness == \A p \in Api : WF_vars(Acquire(p))

PolledSpec == Spec /\ WorkerFairness /\ PolledFairness

-----------------------------------------------------------------------------
(* Properties                                                               *)

\* Type correctness of the stores, the file, the run_due calls and the history.
TypeOK ==
    /\ up \subseteq Processes
    /\ mem \in [Processes -> Store]
    /\ file \in Store \union {Torn}
    /\ batch \in [Processes -> SUBSET Schedules]
    /\ current \in [Processes -> Schedules \union {None}]
    /\ stage \in [Processes -> {"idle", "loop", "started", "raised", "unmarked"}]
    /\ crashes \in 0..MaxCrashes
    /\ loads \in Nat
    /\ born \subseteq Schedules
    /\ confirmed \subseteq Schedules
    /\ runs \in [Schedules -> Nat]
    /\ cut \in [Schedules -> Nat]
    /\ granted \in [Schedules -> 0..Lease]
    /\ withdrawn \subseteq Schedules

\* A schedule starts one workflow run, and one more at most for every run_due call
\* that died after starting the run and before the file said so.
OneRunPerCut == \A s \in Schedules : runs[s] <= 1 + cut[s]

\* A schedule that the file still calls pending after a run was started for it is
\* being handled right now or was cut short: no other order of acquire, start,
\* mark and failing writes leaves a schedule that ran looking as if it had not.
RanIsRecorded ==
    \A s \in Schedules :
        runs[s] > cut[s] /\ file # Torn /\ file[s] # Absent /\ file[s].status = "pending"
            => \E p \in Processes : Unmarked(p, s)

\* The file calls a schedule triggered only when a run of it exists.
TriggeredRan ==
    \A s \in Schedules :
        file # Torn /\ file[s] # Absent /\ file[s].status = "triggered" => runs[s] > 0

\* A schedule whose creation was confirmed stays in the file as long as the file is
\* not torn, whatever is created, acquired, marked or lost after it, until as many
\* younger schedules as the file has room for have been created.
ConfirmedKept == file # Torn => confirmed \intersect Newest(born, Cap) \subseteq Present(file)

\* However many processes share the file, each time one of them loads it (at its
\* start, after a crash, after a worker has exited) it starts a schedule once at
\* most: with the stores apart this, and not one run per schedule, is what a
\* deployment gets.
OneRunPerLoad == \A s \in Schedules : runs[s] <= Cardinality(Processes) + loads

\* While a lease on a schedule runs, nobody else acquires it: the lease survives
\* the crash of its holder, and a worker that comes back waits for its end.
LeaseExclusion ==
    [][\A p \in Processes : \A s \in batch'[p] \ batch[p] : granted[s] = 0]_vars

\* Once a cancellation is confirmed no run is started for the schedule any more.
WithdrawnNeverRuns ==
    [][\A s \in withdrawn : runs'[s] = runs[s]]_vars

Settled(s) == file # Torn /\ s \in Present(file) \ Pending(file)

\* A schedule whose creation was confirmed is in the end triggered, failed or canceled
\* in the file, and stays so: crashes leave it leased, and what the restarted process
\* loads is written again, but it is neither forgotten nor brought back.
ConfirmedSettles == \A s \in Schedules : s \in confirmed ~> []Settled(s)

=============================================================================
