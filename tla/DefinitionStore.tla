--------------------------- MODULE DefinitionStore ---------------------------
(***************************************************************************)
(* WorkflowRepository, the definitions half: upsert_definition and         *)
(* delete_definition change a map under _lock, take a numbered snapshot    *)
(* there, and write it to the file under _io_lock after _lock is released, *)
(* so snapshots can reach the file in another order than they were taken.  *)
(* Writers are the threads that call the repository; a Crash ends them all *)
(* and reloads the map from the file.                                      *)
(*                                                                         *)
(* base, history, acked and failed are history variables: they number the  *)
(* versions across restarts and remember what each call told its caller.   *)
(***************************************************************************)
EXTENDS Naturals

CONSTANTS
    Writers,     \* threads that call the repository
    Workflows,   \* workflow ids
    Names,       \* values of the name field (and description) of a definition
    Graphs,      \* values of its nodes and edges, all of them valid
    Absent,      \* no definition under this id
    Free,        \* nobody holds _io_lock
    MaxVersion   \* bound: versions the store goes through in a behaviour

ASSUME MaxVersionAssumption == MaxVersion \in Nat
ASSUME FreeAssumption == Free \notin Writers

Definition == [name : Names, graph : Graphs]
Target == [id : Workflows, definition : Definition]

ASSUME AbsentAssumption == Absent \notin Definition \union Target

\* What _definitions, a snapshot of it, or the file holds.
Content == [Workflows -> Definition \union {Absent}]
Empty == [w \in Workflows |-> Absent]

VARIABLES
    definitions,          \* _definitions
    defVersion,           \* _def_version
    defVersionPersisted,  \* _def_version_persisted
    ioLock,               \* the thread inside _io_lock, or Free
    file,                 \* the content of _definition_path
    pc,                   \* where each thread is in its call
    target,               \* the id and the definition its upsert will store
    version,              \* its local "version"
    snapshot,             \* its local "snapshot"
    base, history, acked, failed

memory == <<definitions, defVersion>>
disk == <<file, defVersionPersisted, ioLock>>
ghosts == <<base, history, acked, failed>>
vars == <<memory, disk, pc, target, version, snapshot, ghosts>>

Init ==
    /\ definitions = Empty
    /\ defVersion = 0
    /\ defVersionPersisted = 0
    /\ ioLock = Free
    /\ file = Empty
    /\ pc = [w \in Writers |-> "idle"]
    /\ target = [w \in Writers |-> Absent]
    /\ version = [w \in Writers |-> 0]
    /\ snapshot = [w \in Writers |-> Empty]
    /\ base = 0
    /\ history = [v \in 0..MaxVersion |-> Empty]
    /\ acked = {}
    /\ failed = {}

-----------------------------------------------------------------------------
(* upsert_definition and delete_definition                                  *)

\* upsert_definition(WorkflowDefinition): the definition replaces any other.
BeginCreate(w, id, definition) ==
    /\ pc[w] = "idle"
    /\ target' = [target EXCEPT ![w] = [id |-> id, definition |-> definition]]
    /\ pc' = [pc EXCEPT ![w] = "commit"]
    /\ UNCHANGED <<memory, disk, version, snapshot, ghosts>>

\* upsert_definition(WorkflowUpdateRequest, id): merged, outside the lock, into
\* the definition that is there now; KeyError when there is none.
BeginUpdate(w, id, name, graph) ==
    /\ pc[w] = "idle"
    /\ definitions[id] # Absent
    /\ \E merged \in {[definitions[id] EXCEPT !.name = name],
                      [definitions[id] EXCEPT !.graph = graph],
                      [name |-> name, graph |-> graph]} :
          target' = [target EXCEPT ![w] = [id |-> id, definition |-> merged]]
    /\ pc' = [pc EXCEPT ![w] = "commit"]
    /\ UNCHANGED <<memory, disk, version, snapshot, ghosts>>

\* The block under _lock of both calls: the new map, its version, its snapshot.
Change(w, new) ==
    /\ base + defVersion < MaxVersion
    /\ definitions' = new
    /\ defVersion' = defVersion + 1
    /\ version' = [version EXCEPT ![w] = defVersion + 1]
    /\ snapshot' = [snapshot EXCEPT ![w] = new]
    /\ history' = [history EXCEPT ![base + defVersion + 1] = new]
    /\ pc' = [pc EXCEPT ![w] = "persist"]
    /\ target' = [target EXCEPT ![w] = Absent]
    /\ UNCHANGED <<disk, base, acked, failed>>

CommitUpsert(w) ==
    /\ pc[w] = "commit"
    /\ Change(w, [definitions EXCEPT ![target[w].id] = target[w].definition])

\* delete_definition returns False, and changes nothing, when the id is unknown.
Delete(w, id) ==
    /\ pc[w] = "idle"
    /\ definitions[id] # Absent
    /\ Change(w, [definitions EXCEPT ![id] = Absent])

-----------------------------------------------------------------------------
(* _persist_snapshot                                                        *)

TakeIoLock(w) ==
    /\ pc[w] = "persist"
    /\ ioLock = Free
    /\ ioLock' = w
    /\ pc' = [pc EXCEPT ![w] = "check"]
    /\ UNCHANGED <<memory, file, defVersionPersisted, target, version, snapshot, ghosts>>

\* Mutant of Stale: the version check is missing.
StaleNever(w) == FALSE

Stale(w) == version[w] < defVersionPersisted

\* Leave _io_lock and return to the caller; the locals of the call are gone.
Return(w) ==
    /\ ioLock' = Free
    /\ pc' = [pc EXCEPT ![w] = "idle"]
    /\ version' = [version EXCEPT ![w] = 0]
    /\ snapshot' = [snapshot EXCEPT ![w] = Empty]

\* Mutant of SkipStale: the early return leaves _io_lock taken.
SkipStaleKeepsLock(w) ==
    /\ pc[w] = "check"
    /\ Stale(w)
    /\ pc' = [pc EXCEPT ![w] = "idle"]
    /\ version' = [version EXCEPT ![w] = 0]
    /\ snapshot' = [snapshot EXCEPT ![w] = Empty]
    /\ acked' = acked \union {base + version[w]}
    /\ UNCHANGED <<memory, disk, target, base, history, failed>>

SkipStale(w) ==
    /\ pc[w] = "check"
    /\ Stale(w)
    /\ Return(w)
    /\ acked' = acked \union {base + version[w]}
    /\ UNCHANGED <<memory, file, defVersionPersisted, target, base, history, failed>>

\* mkstemp and write: the file itself is not touched.
WriteTemp(w) ==
    /\ pc[w] = "check"
    /\ ~Stale(w)
    /\ pc' = [pc EXCEPT ![w] = "replace"]
    /\ UNCHANGED <<memory, disk, target, version, snapshot, ghosts>>

\* Mutant of Replace: _def_version_persisted is not advanced.
ReplaceForgetsVersion(w) ==
    /\ pc[w] = "replace"
    /\ file' = snapshot[w]
    /\ Return(w)
    /\ acked' = acked \union {base + version[w]}
    /\ UNCHANGED <<memory, defVersionPersisted, target, base, history, failed>>

\* os.replace, then _def_version_persisted.
Replace(w) ==
    /\ pc[w] = "replace"
    /\ file' = snapshot[w]
    /\ defVersionPersisted' = version[w]
    /\ Return(w)
    /\ acked' = acked \union {base + version[w]}
    /\ UNCHANGED <<memory, target, base, history, failed>>

\* Mutant of PersistFails: the error is swallowed and the caller told all is well.
PersistFailsSilently(w) ==
    /\ \/ pc[w] = "replace"
       \/ pc[w] = "check" /\ ~Stale(w)
    /\ Return(w)
    /\ acked' = acked \union {base + version[w]}
    /\ UNCHANGED <<memory, file, defVersionPersisted, target, base, history, failed>>

\* mkdir, mkstemp, the write or os.replace raises: the temp file is removed and
\* the caller sees the error, but the change stays in memory.
PersistFails(w) ==
    /\ \/ pc[w] = "replace"
       \/ pc[w] = "check" /\ ~Stale(w)
    /\ Return(w)
    /\ failed' = failed \union {base + version[w]}
    /\ UNCHANGED <<memory, file, defVersionPersisted, target, base, history, acked>>

-----------------------------------------------------------------------------
\* The process dies at any point and is started again: __init__ loads the file.
Crash ==
    /\ definitions' = file
    /\ defVersion' = 0
    /\ defVersionPersisted' = 0
    /\ ioLock' = Free
    /\ pc' = [w \in Writers |-> "idle"]
    /\ target' = [w \in Writers |-> Absent]
    /\ version' = [w \in Writers |-> 0]
    /\ snapshot' = [w \in Writers |-> Empty]
    /\ base' = base + defVersionPersisted
    /\ failed' = {v \in failed : v <= base + defVersionPersisted}
    /\ UNCHANGED <<file, history, acked>>

Step(w) ==
    \/ CommitUpsert(w)
    \/ TakeIoLock(w)
    \/ SkipStale(w)
    \/ WriteTemp(w)
    \/ Replace(w)
    \/ PersistFails(w)

Next ==
    \/ \E w \in Writers :
          \/ \E id \in Workflows, d \in Definition : BeginCreate(w, id, d)
          \/ \E id \in Workflows, n \in Names, g \in Graphs : BeginUpdate(w, id, n, g)
          \/ \E id \in Workflows : Delete(w, id)
          \/ Step(w)
    \/ Crash

Spec == Init /\ [][Next]_vars

\* A thread that is inside a call keeps running: the locks are released on every
\* path, and file I/O returns or raises.
FairSpec == Spec /\ \A w \in Writers : WF_vars(Step(w))

-----------------------------------------------------------------------------
(* Properties                                                               *)

Persisting(w) == pc[w] \in {"persist", "check", "replace"}
Latest == base + defVersion
OnDisk == base + defVersionPersisted

\* Type correctness of the repository's fields, the threads' locals and the
\* history variables.
TypeOK ==
    /\ definitions \in Content
    /\ defVersion \in Nat
    /\ defVersionPersisted \in Nat
    /\ ioLock \in Writers \union {Free}
    /\ file \in Content
    /\ pc \in [Writers -> {"idle", "commit", "persist", "check", "replace"}]
    /\ target \in [Writers -> Target \union {Absent}]
    /\ version \in [Writers -> Nat]
    /\ snapshot \in [Writers -> Content]
    /\ base \in Nat
    /\ history \in [0..MaxVersion -> Content]
    /\ acked \subseteq 0..MaxVersion
    /\ failed \subseteq 0..MaxVersion

\* A call that returned normally from _persist_snapshot is on disk, or a newer
\* version that contains its change is: skipping a stale snapshot, a failed write
\* of another thread or a crash never loses an acknowledged change.
AckedIsDurable == \A v \in acked : v <= OnDisk

\* Once no thread is inside _persist_snapshot, the file is exactly the map in
\* memory, unless the write of the very last version raised: the order in which
\* the threads got _io_lock leaves no trace.
QuiescentOnDisk ==
    (\A w \in Writers : ~Persisting(w)) /\ Latest \notin failed => file = definitions

\* _persist_snapshot's contract ("a stale snapshot is skipped so it cannot clobber
\* newer data", "no half-written JSON"): seen from the disk the store is a log
\* whose durable position only moves forward, through crashes included.
Durable == INSTANCE DurableSnapshots WITH latest <- Latest, durable <- OnDisk
ImplementsDurable == Durable!AbsSpec

\* The file always holds the state the map was in at the version the store
\* believes it persisted: neither a mix of two snapshots nor an older one.
FileIsASnapshot == file = history[OnDisk]

\* A thread that took a snapshot leaves _persist_snapshot, whatever the others do
\* with _io_lock: every path through it, the stale one and the failing one too,
\* gives the lock back.
EveryPersistEnds == \A w \in Writers : Persisting(w) ~> pc[w] = "idle"

=============================================================================
