------------------------ MODULE DefinitionStoreProofs ------------------------
(***************************************************************************)
(* Proofs about DefinitionStore, for every set of threads, workflow ids and *)
(* definitions.  Inv is the inductive invariant; the properties the runs    *)
(* check and the refinement of DurableSnapshots follow from it.             *)
(***************************************************************************)
EXTENDS DefinitionStore, TLAPS

\* The versions in memory and on disk are positions of the history, and memory
\* and file hold what the history says they held there.
Positions ==
    /\ defVersionPersisted <= defVersion
    /\ base + defVersion <= MaxVersion
    /\ definitions = history[base + defVersion]
    /\ file = history[base + defVersionPersisted]

\* A thread with a snapshot to write holds the version it took, unchanged.
Snapshots ==
    \A w \in Writers : Persisting(w) =>
        /\ version[w] \in 1..defVersion
        /\ snapshot[w] = history[base + version[w]]

\* Only the thread inside _io_lock is past it, and what it is about to write is
\* not older than what is on disk.
Locking ==
    /\ \A w \in Writers : pc[w] \in {"check", "replace"} => ioLock = w
    /\ \A w \in Writers : pc[w] = "replace" => defVersionPersisted <= version[w]

\* The last version is on disk, or failed, or its thread still has to write it.
LastVersion ==
    \/ defVersionPersisted = defVersion
    \/ base + defVersion \in failed
    \/ \E w \in Writers : Persisting(w) /\ version[w] = defVersion

Targets == \A w \in Writers : pc[w] = "commit" => target[w] \in Target

Inv ==
    /\ TypeOK
    /\ Positions
    /\ Snapshots
    /\ Locking
    /\ LastVersion
    /\ Targets
    /\ AckedIsDurable

-----------------------------------------------------------------------------

\* The empty map is a legal content of the store.
LEMMA EmptyIsContent == Empty \in Content
  BY DEF Empty, Content

\* The initial state satisfies the inductive invariant.
LEMMA InitInv == Init => Inv
  <1> SUFFICES ASSUME Init PROVE Inv
    OBVIOUS
  <1> USE DEF Init
  <1>1. TypeOK
    BY EmptyIsContent, MaxVersionAssumption DEF TypeOK
  <1>2. Positions
    BY MaxVersionAssumption DEF Positions
  <1>3. Snapshots /\ Locking /\ LastVersion /\ Targets /\ AckedIsDurable
    BY DEF Snapshots, Locking, LastVersion, Targets, AckedIsDurable, Persisting
  <1> QED
    BY <1>1, <1>2, <1>3 DEF Inv

\* A new definition on its way: nothing but the thread's target changes.
LEMMA BeginInv ==
  ASSUME Inv, NEW w \in Writers, NEW t \in Target,
         pc[w] = "idle",
         target' = [target EXCEPT ![w] = t],
         pc' = [pc EXCEPT ![w] = "commit"],
         UNCHANGED <<memory, disk, version, snapshot, ghosts>>
  PROVE  Inv'
  <1> USE DEF Inv, memory, disk, ghosts
  <1>1. TypeOK'
    BY DEF TypeOK
  <1>2. Positions' /\ AckedIsDurable'
    BY DEF Positions, AckedIsDurable, OnDisk
  <1>3. Snapshots' /\ Locking'
    BY DEF Snapshots, Locking, Persisting, TypeOK
  <1>4. LastVersion' /\ Targets'
    BY DEF LastVersion, Targets, Persisting, TypeOK
  <1> QED
    BY <1>1, <1>2, <1>3, <1>4

\* The block under _lock: the history grows by the new map, whose snapshot the
\* thread now holds.
LEMMA ChangeInv ==
  ASSUME Inv, NEW w \in Writers, NEW new \in Content,
         pc[w] \in {"idle", "commit"}, Change(w, new)
  PROVE  Inv'
  <1> USE DEF Inv, Change, disk
  <1>1. base + defVersion + 1 \in 0..MaxVersion
    BY MaxVersionAssumption DEF TypeOK
  <1>2. TypeOK'
    BY <1>1 DEF TypeOK
  <1>3. Positions'
    BY <1>1, MaxVersionAssumption DEF Positions, TypeOK
  <1>4. Snapshots'
    BY <1>1, MaxVersionAssumption DEF Snapshots, Positions, Persisting, TypeOK
  <1>5. Locking' /\ Targets' /\ AckedIsDurable'
    BY DEF Locking, Targets, AckedIsDurable, OnDisk, TypeOK
  <1>6. LastVersion'
    BY DEF LastVersion, Persisting, TypeOK
  <1> QED
    BY <1>2, <1>3, <1>4, <1>5, <1>6

\* The part of TypeOK about the lock and the threads' locals.
LocalsTyped ==
    /\ ioLock \in Writers \union {Free}
    /\ pc \in [Writers -> {"idle", "commit", "persist", "check", "replace"}]
    /\ target \in [Writers -> Target \union {Absent}]
    /\ version \in [Writers -> Nat]
    /\ snapshot \in [Writers -> Content]

\* A call that returns or raises gives _io_lock back and forgets its locals: what
\* the other threads hold is untouched.
LEMMA ReturnKeeps ==
  ASSUME Inv, NEW w \in Writers, Return(w), UNCHANGED <<memory, target, base, history>>
  PROVE  LocalsTyped' /\ Snapshots' /\ Targets'
  <1> USE DEF Inv, Return, memory
  <1>1. LocalsTyped'
    BY EmptyIsContent DEF TypeOK, LocalsTyped
  <1>2. Snapshots' /\ Targets'
    BY DEF Snapshots, Targets, Persisting, TypeOK
  <1> QED
    BY <1>1, <1>2

\* What SkipStale, Replace and PersistFails do to the locking: the lock was w's, so
\* no other thread is past it.
LEMMA ReturnUnlocks ==
  ASSUME Inv, NEW w \in Writers, Return(w), pc[w] \in {"check", "replace"}
  PROVE  Locking'
  BY DEF Inv, Return, Locking, TypeOK

\* Taking _io_lock: it was free, so nobody else is past it.
LEMMA TakeIoLockInv ==
  ASSUME Inv, NEW w \in Writers, TakeIoLock(w)
  PROVE  Inv'
  <1> USE DEF Inv, TakeIoLock, memory, ghosts
  <1>1. TypeOK'
    BY DEF TypeOK
  <1>2. Positions' /\ AckedIsDurable'
    BY DEF Positions, AckedIsDurable, OnDisk
  <1>3. Snapshots' /\ Targets' /\ LastVersion'
    BY DEF Snapshots, Targets, LastVersion, Persisting, TypeOK
  <1>4. Locking'
    BY FreeAssumption DEF Locking, TypeOK
  <1> QED
    BY <1>1, <1>2, <1>3, <1>4

\* The temp file is no part of the state: only the thread moves on, and what it is
\* about to write is not older than what is on disk.
LEMMA WriteTempInv ==
  ASSUME Inv, NEW w \in Writers, WriteTemp(w)
  PROVE  Inv'
  <1> USE DEF Inv, WriteTemp, memory, disk, ghosts
  <1>1. TypeOK'
    BY DEF TypeOK
  <1>2. Positions' /\ AckedIsDurable'
    BY DEF Positions, AckedIsDurable, OnDisk
  <1>3. Snapshots' /\ Targets' /\ LastVersion'
    BY DEF Snapshots, Targets, LastVersion, Persisting, TypeOK
  <1>4. Locking'
    BY DEF Locking, Stale, TypeOK
  <1> QED
    BY <1>1, <1>2, <1>3, <1>4

\* A skipped snapshot is older than the one on disk, so its change is there too.
LEMMA SkipStaleInv ==
  ASSUME Inv, NEW w \in Writers, SkipStale(w)
  PROVE  Inv'
  <1>0. LocalsTyped' /\ Snapshots' /\ Targets' /\ Locking'
    BY ReturnKeeps, ReturnUnlocks DEF SkipStale
  <1> USE DEF Inv, SkipStale, memory
  <1>1. version[w] \in 1..defVersion /\ version[w] < defVersionPersisted
    BY DEF Snapshots, Persisting, Stale
  <1>2. TypeOK'
    <2>1. base + version[w] \in 0..MaxVersion
      BY <1>1, MaxVersionAssumption DEF TypeOK, Positions
    <2> QED
      BY <1>0, <1>1, <2>1 DEF TypeOK, LocalsTyped
  <1>3. Positions'
    BY DEF Positions
  <1>4. AckedIsDurable'
    BY <1>1 DEF AckedIsDurable, OnDisk, TypeOK
  <1>5. LastVersion'
    BY <1>1 DEF LastVersion, Persisting, Return, Positions, TypeOK
  <1> QED
    BY <1>0, <1>2, <1>3, <1>4, <1>5

\* The write that succeeds moves the disk to a version that is not older.
LEMMA ReplaceInv ==
  ASSUME Inv, NEW w \in Writers, Replace(w)
  PROVE  Inv' /\ OnDisk' >= OnDisk
  <1>0. LocalsTyped' /\ Snapshots' /\ Targets' /\ Locking'
    BY ReturnKeeps, ReturnUnlocks DEF Replace
  <1> USE DEF Inv, Replace, memory
  <1>1. /\ version[w] \in 1..defVersion
        /\ snapshot[w] = history[base + version[w]]
        /\ defVersionPersisted <= version[w]
    BY DEF Snapshots, Locking, Persisting
  <1>2. TypeOK'
    <2>1. base + version[w] \in 0..MaxVersion
      BY <1>1, MaxVersionAssumption DEF TypeOK, Positions
    <2> QED
      BY <1>0, <1>1, <2>1 DEF TypeOK, LocalsTyped
  <1>3. Positions'
    BY <1>1 DEF Positions, TypeOK
  <1>4. AckedIsDurable' /\ OnDisk' >= OnDisk
    BY <1>1 DEF AckedIsDurable, OnDisk, TypeOK
  <1>5. LastVersion'
    BY <1>1 DEF LastVersion, Persisting, Return, TypeOK
  <1> QED
    BY <1>0, <1>2, <1>3, <1>4, <1>5

\* A write that raises leaves the disk as it was and marks the version as failed.
LEMMA PersistFailsInv ==
  ASSUME Inv, NEW w \in Writers, PersistFails(w)
  PROVE  Inv'
  <1>0. LocalsTyped' /\ Snapshots' /\ Targets' /\ Locking'
    BY ReturnKeeps, ReturnUnlocks DEF PersistFails
  <1> USE DEF Inv, PersistFails, memory
  <1>1. version[w] \in 1..defVersion
    BY DEF Snapshots, Persisting
  <1>2. TypeOK'
    <2>1. base + version[w] \in 0..MaxVersion
      BY <1>1, MaxVersionAssumption DEF TypeOK, Positions
    <2> QED
      BY <1>0, <1>1, <2>1 DEF TypeOK, LocalsTyped
  <1>3. Positions'
    BY DEF Positions
  <1>4. AckedIsDurable'
    BY DEF AckedIsDurable, OnDisk
  <1>5. LastVersion'
    BY <1>1 DEF LastVersion, Persisting, Return, TypeOK
  <1> QED
    BY <1>0, <1>2, <1>3, <1>4, <1>5

\* A crash keeps the file, and renumbers from the version it holds.
LEMMA CrashInv ==
  ASSUME Inv, Crash
  PROVE  Inv' /\ OnDisk' = OnDisk
  <1> USE DEF Inv, Crash
  <1>0. /\ base' = OnDisk /\ base' \in 0..MaxVersion
        /\ base' + defVersion' = base'
        /\ base' + defVersionPersisted' = base'
    BY MaxVersionAssumption DEF TypeOK, Positions, OnDisk
  <1>1. TypeOK'
    <2>1. LocalsTyped'
      BY EmptyIsContent DEF LocalsTyped
    <2>2. base' \in Nat
      BY <1>0, MaxVersionAssumption
    <2>3. failed' \subseteq failed
      OBVIOUS
    <2>4. /\ definitions' \in Content /\ file' \in Content
          /\ defVersion' \in Nat /\ defVersionPersisted' \in Nat
          /\ history' \in [0..MaxVersion -> Content]
          /\ acked' \subseteq 0..MaxVersion
      BY DEF TypeOK
    <2> QED
      BY <2>1, <2>2, <2>3, <2>4 DEF TypeOK, LocalsTyped
  <1>2. Positions' /\ OnDisk' = OnDisk
    BY <1>0 DEF Positions, OnDisk, TypeOK
  <1>3. AckedIsDurable'
    BY DEF AckedIsDurable, OnDisk, TypeOK
  <1>4. Snapshots' /\ Locking' /\ LastVersion' /\ Targets'
    BY DEF Snapshots, Locking, LastVersion, Targets, Persisting
  <1> QED
    BY <1>1, <1>2, <1>3, <1>4

\* The three ways a call of upsert_definition or delete_definition starts or
\* changes the map, as instances of BeginInv and ChangeInv.
LEMMA CallInv ==
  ASSUME Inv, NEW w \in Writers,
         \/ \E id \in Workflows, d \in Definition : BeginCreate(w, id, d)
         \/ \E id \in Workflows, n \in Names, g \in Graphs : BeginUpdate(w, id, n, g)
         \/ \E id \in Workflows : Delete(w, id)
         \/ CommitUpsert(w)
  PROVE  Inv'
  <1>1. CASE \E id \in Workflows, d \in Definition : BeginCreate(w, id, d)
    BY <1>1, BeginInv DEF BeginCreate, Target
  <1>2. ASSUME NEW id \in Workflows, NEW n \in Names, NEW g \in Graphs,
               BeginUpdate(w, id, n, g)
        PROVE  Inv'
    <2>1. definitions[id] \in Definition
      BY <1>2 DEF BeginUpdate, Inv, TypeOK, Content
    <2>2. PICK merged \in {[definitions[id] EXCEPT !.name = n],
                           [definitions[id] EXCEPT !.graph = g],
                           [name |-> n, graph |-> g]} :
             target' = [target EXCEPT ![w] = [id |-> id, definition |-> merged]]
      BY <1>2 DEF BeginUpdate
    <2>3. merged \in Definition
      BY <2>1 DEF Definition
    <2>4. [id |-> id, definition |-> merged] \in Target
      BY <2>3 DEF Target
    <2> QED
      BY <1>2, <2>2, <2>4, BeginInv DEF BeginUpdate
  <1>3. ASSUME NEW id \in Workflows, Delete(w, id)
        PROVE  Inv'
    <2>1. [definitions EXCEPT ![id] = Absent] \in Content
      BY DEF Inv, TypeOK, Content
    <2> QED
      BY <1>3, <2>1, ChangeInv DEF Delete
  <1>4. CASE CommitUpsert(w)
    <2>1. target[w] \in Target
      BY <1>4 DEF CommitUpsert, Inv, Targets
    <2>2. [definitions EXCEPT ![target[w].id] = target[w].definition] \in Content
      BY <2>1 DEF Inv, TypeOK, Content, Target
    <2> QED
      BY <1>4, <2>2, ChangeInv DEF CommitUpsert
  <1> QED
    BY <1>1, <1>2, <1>3, <1>4

\* Every step of the store preserves the inductive invariant.
LEMMA NextInv == Inv /\ [Next]_vars => Inv'
  <1> SUFFICES ASSUME Inv, [Next]_vars PROVE Inv'
    OBVIOUS
  <1>1. CASE UNCHANGED vars
    BY <1>1 DEF vars, memory, disk, ghosts, Inv, TypeOK, Positions, Snapshots, Locking,
                LastVersion, Targets, AckedIsDurable, Persisting, OnDisk
  <1>2. CASE Crash
    BY <1>2, CrashInv
  <1>3. ASSUME NEW w \in Writers,
               \/ \E id \in Workflows, d \in Definition : BeginCreate(w, id, d)
               \/ \E id \in Workflows, n \in Names, g \in Graphs : BeginUpdate(w, id, n, g)
               \/ \E id \in Workflows : Delete(w, id)
               \/ Step(w)
        PROVE  Inv'
    BY <1>3, CallInv, TakeIoLockInv, SkipStaleInv, WriteTempInv, ReplaceInv,
       PersistFailsInv DEF Step
  <1> QED
    BY <1>1, <1>2, <1>3 DEF Next

-----------------------------------------------------------------------------

\* The inductive invariant holds in every reachable state.
THEOREM Invariance == Spec => []Inv
  BY InitInv, NextInv, PTL DEF Spec

\* Type correctness of the repository, its threads and its file.
THEOREM TypeCorrect == Spec => []TypeOK
  BY Invariance, PTL DEF Inv

\* No acknowledged change is lost: not by a skipped stale snapshot, not by another
\* thread's failed write, not by a crash.
THEOREM AcknowledgedIsDurable == Spec => []AckedIsDurable
  BY Invariance, PTL DEF Inv

\* The file holds exactly the map of the version the store believes is persisted.
THEOREM FileHoldsASnapshot == Spec => []FileIsASnapshot
  <1>1. Inv => FileIsASnapshot
    BY DEF Inv, Positions, FileIsASnapshot, OnDisk
  <1> QED
    BY <1>1, Invariance, PTL

\* With no thread in _persist_snapshot, the file is the map in memory unless the
\* last write raised.
THEOREM QuiescentIsOnDisk == Spec => []QuiescentOnDisk
  <1>1. Inv => QuiescentOnDisk
    BY DEF Inv, LastVersion, Positions, QuiescentOnDisk, Latest
  <1> QED
    BY <1>1, Invariance, PTL

-----------------------------------------------------------------------------
(* Refinement                                                               *)

\* The initial store is the initial log.
LEMMA InitRefines == Init => Durable!AbsInit
  BY DEF Init, Durable!AbsInit, Latest, OnDisk

\* The block under _lock is a Mutate of the log.
LEMMA ChangeRefines ==
  ASSUME Inv, NEW w \in Writers, NEW new \in Content, Change(w, new)
  PROVE  Durable!Mutate
  <1> USE DEF Inv, Change, disk, TypeOK
  <1>1. Latest < MaxVersion /\ Latest' = Latest + 1 /\ OnDisk' = OnDisk
    BY MaxVersionAssumption DEF Latest, OnDisk
  <1>2. history' = [history EXCEPT ![Latest + 1] = new]
    BY DEF Latest
  <1> QED
    BY <1>1, <1>2 DEF Durable!Mutate

\* A successful os.replace is a Flush, or a stutter when it writes the same version.
LEMMA ReplaceRefines ==
  ASSUME Inv, NEW w \in Writers, Replace(w)
  PROVE  Durable!Flush \/ UNCHANGED Durable!absVars
  <1>1. /\ version[w] \in 1..defVersion /\ defVersionPersisted <= version[w]
        /\ base \in Nat /\ defVersion \in Nat /\ defVersionPersisted \in Nat
    BY DEF Replace, Inv, TypeOK, Snapshots, Locking, Persisting
  <1>2. Latest' = Latest /\ history' = history /\ OnDisk' = base + version[w]
    BY DEF Replace, memory, Latest, OnDisk
  <1>3. CASE version[w] = defVersionPersisted
    BY <1>2, <1>3 DEF OnDisk, Durable!absVars
  <1>4. CASE defVersionPersisted < version[w]
    <2>1. base + version[w] \in (OnDisk + 1)..Latest
      BY <1>1, <1>4 DEF OnDisk, Latest
    <2> QED
      BY <1>2, <2>1 DEF Durable!Flush
  <1> QED
    BY <1>1, <1>3, <1>4

\* Every step of the store is a step of the log or leaves it alone.
LEMMA StepRefines == Inv /\ [Next]_vars => [Durable!AbsNext]_(Durable!absVars)
  <1> SUFFICES ASSUME Inv, [Next]_vars PROVE [Durable!AbsNext]_(Durable!absVars)
    OBVIOUS
  <1> USE DEF Durable!AbsNext, Durable!absVars
  <1>1. CASE UNCHANGED vars
    BY <1>1 DEF vars, memory, disk, ghosts, Latest, OnDisk
  <1>2. CASE Crash
    <2>1. Latest' = OnDisk /\ OnDisk' = OnDisk /\ history' = history
      BY <1>2 DEF Crash, Latest, OnDisk, Inv, TypeOK
    <2> QED
      BY <2>1 DEF Durable!Lose
  <1>3. ASSUME NEW w \in Writers, CommitUpsert(w) PROVE Durable!Mutate
    <2>1. target[w] \in Target
      BY <1>3 DEF CommitUpsert, Inv, Targets
    <2>2. [definitions EXCEPT ![target[w].id] = target[w].definition] \in Content
      BY <2>1 DEF Inv, TypeOK, Content, Target
    <2> QED
      BY <1>3, <2>2, ChangeRefines DEF CommitUpsert
  <1>4. ASSUME NEW w \in Writers, NEW id \in Workflows, Delete(w, id) PROVE Durable!Mutate
    <2>1. [definitions EXCEPT ![id] = Absent] \in Content
      BY DEF Inv, TypeOK, Content
    <2> QED
      BY <1>4, <2>1, ChangeRefines DEF Delete
  <1>5. ASSUME NEW w \in Writers,
               \/ \E id \in Workflows, d \in Definition : BeginCreate(w, id, d)
               \/ \E id \in Workflows, n \in Names, g \in Graphs : BeginUpdate(w, id, n, g)
               \/ TakeIoLock(w) \/ SkipStale(w) \/ WriteTemp(w) \/ PersistFails(w)
        PROVE  UNCHANGED Durable!absVars
    BY <1>5 DEF BeginCreate, BeginUpdate, TakeIoLock, SkipStale, WriteTemp, PersistFails,
                memory, disk, ghosts, Latest, OnDisk
  <1>6. ASSUME NEW w \in Writers, Replace(w)
        PROVE  Durable!Flush \/ UNCHANGED Durable!absVars
    BY <1>6, ReplaceRefines
  <1> QED
    BY <1>1, <1>2, <1>3, <1>4, <1>5, <1>6 DEF Next, Step

\* Seen from the disk the store is a log whose durable position only moves forward.
THEOREM Refinement == Spec => ImplementsDurable
  BY InitRefines, StepRefines, Invariance, PTL DEF Spec, ImplementsDurable, Durable!AbsSpec

=============================================================================
