------------------------------ MODULE Approvals -----------------------------
(***************************************************************************)
(* Approval requests and the tools that run on their strength:             *)
(* ApprovalStore, ToolRegistry.execute and execute_approved, and the       *)
(* handlers of api/approvals.py, in the process that serves the API.  The  *)
(* store holds the records in memory, loaded once from its file, and every *)
(* change rewrites the file.                                               *)
(*                                                                         *)
(* The handlers are coroutines of one event loop: they are atomic but for  *)
(* the await of the tool's handler.  Tenants, tools and arguments are left *)
(* out; that a record is refused for one of them is a choice.              *)
(***************************************************************************)
EXTENDS Naturals, FiniteSets

CONSTANTS
    MaxApprovals,  \* bound: approvals created in a behaviour
    Callers,       \* requests that may wait for a tool at the same time
    Absent,        \* no record under this id
    Torn,          \* content of a file whose writing was cut short
    None,          \* no approval
    Cap            \* the 10_000 of _persist: records kept, newest first

ASSUME ApprovalAssumption ==
    /\ MaxApprovals \in Nat
    /\ Cap \in Nat \ {0}

Ids == 1..MaxApprovals  \* uuids, numbered in the order of created_at
Status == {"pending", "approved", "rejected", "executed"}
Store == [Ids -> Status \union {Absent}]

ASSUME SentinelAssumption ==
    /\ Absent \notin Status
    /\ Torn \notin Store
    /\ None \notin Ids

VARIABLES
    up,    \* whether the process runs
    mem,   \* _records
    file,  \* the approval file
    call,  \* call[c]: the tool whose handler c awaits, and its approval
    \* history variables
    born,       \* how many approvals have been created
    confirmed,  \* approvals whose creation was confirmed to the caller
    spent,      \* approvals whose tool was run by a request that failed without a
                \* mark, or whose execution was marked: in this process, or for
                \* good, when the mark was saved
    barred      \* approvals whose rejection was confirmed

history == <<born, confirmed, spent, barred>>
vars == <<up, mem, file, call, history>>

Idle == [at |-> "idle", id |-> None]
Call == {Idle} \union [at : {"approved"}, id : Ids]
               \union [at : {"direct"}, id : {None}]
Spent == [Ids -> {"no", "unmarked", "marked", "saved"}]
Nothing == [a \in Ids |-> Absent]

Init ==
    /\ up = TRUE
    /\ mem = Nothing
    /\ file = Nothing
    /\ call = [c \in Callers |-> Idle]
    /\ born = 0
    /\ confirmed = {}
    /\ spent = [a \in Ids |-> "no"]
    /\ barred = {}
-----------------------------------------------------------------------------
(***************************************************************************)
(* The file.  write_text truncates it before it writes, so a write that    *)
(* fails leaves the old content or a torn one; memory has changed already. *)
(***************************************************************************)
Present(m) == {a \in Ids : m[a] # Absent}
Newer(m, a) == {b \in Present(m) : b > a}

\* Mutant of Saved: the sort is not reversed.
SavedOldest(m) ==
    [a \in Ids |-> IF Cardinality({b \in Present(m) : b < a}) < Cap
                   THEN m[a] ELSE Absent]
Saved(m) ==
    [a \in Ids |-> IF Cardinality(Newer(m, a)) < Cap THEN m[a] ELSE Absent]

Written(m) == file' = Saved(m)
Unwritten == file' \in {file, Torn}

(***************************************************************************)
(* A decision replaces whatever status there is.                           *)
(***************************************************************************)
Set(a, status) == mem' = [mem EXCEPT ![a] = status]
Known(a) == up /\ mem[a] # Absent

Approve(a) ==
    /\ Known(a)
    /\ Set(a, "approved")
    /\ Written(mem') \/ Unwritten
    /\ spent' = [spent EXCEPT ![a] = "no"]
    /\ barred' = barred \ {a}
    /\ UNCHANGED <<up, call, born, confirmed>>

\* Mutant of Reject: the decision is not persisted.
RejectInMemory(a) ==
    /\ Known(a)
    /\ Set(a, "rejected")
    /\ barred' = barred \union {a}
    /\ UNCHANGED <<up, call, file, born, confirmed, spent>>
Reject(a) ==
    /\ Known(a)
    /\ Set(a, "rejected")
    /\ \/ /\ Written(mem')
          /\ barred' = barred \union {a}
       \/ /\ Unwritten
          /\ UNCHANGED barred
    /\ UNCHANGED <<up, call, born, confirmed, spent>>

\* create_approval: the record is in memory even when the caller sees an error,
\* for its own write or for that of the execution's record, which comes after it.
CreateApproval ==
    /\ born < MaxApprovals
    /\ born' = born + 1
    /\ Set(born', "pending")
    /\ \/ /\ Written(mem')
          /\ confirmed' \in {confirmed, confirmed \union {born'}}
       \/ /\ Unwritten
          /\ UNCHANGED confirmed
    /\ UNCHANGED <<up, spent, barred>>
-----------------------------------------------------------------------------
(***************************************************************************)
(* ToolRegistry.execute.  A tool that the policy does not allow leaves an  *)
(* approval request; a high-risk tool that it does allow runs, and leaves  *)
(* one when it has succeeded.                                              *)
(***************************************************************************)
AskForTool ==
    /\ up
    /\ CreateApproval
    /\ UNCHANGED call

BeginDirect(c) ==
    /\ up
    /\ call[c] = Idle
    /\ call' = [call EXCEPT ![c] = [at |-> "direct", id |-> None]]
    /\ UNCHANGED <<up, mem, file, history>>

EndDirect(c) ==
    /\ call[c].at = "direct"
    /\ call' = [call EXCEPT ![c] = Idle]
    /\ \/ CreateApproval
       \/ UNCHANGED <<up, mem, file, history>>  \* the tool raised

(***************************************************************************)
(* POST /{id}/execute.  execute_approved looks at the status before it     *)
(* awaits the tool; whatever it returns, the API handler marks the record. *)
(* One write stands for the two mark_executed of a tool that succeeded.    *)
(* Before it returns it records the execution in a file of its own: when   *)
(* that raises, so does the request, and the handler marks nothing.        *)
(***************************************************************************)
MarkExecuted(a) ==
    /\ Set(a, "executed")
    /\ \/ /\ Written(mem')
          /\ spent' = [spent EXCEPT ![a] = "saved"]
       \/ /\ Unwritten
          /\ spent' = [spent EXCEPT ![a] = IF @ = "saved" THEN @ ELSE "marked"]
    /\ UNCHANGED <<up, born, confirmed, barred>>

\* Refused: not approved, not a tool's approval, an unknown tool or bad arguments.
\* A refusal that cannot be recorded changes nothing.
RefuseExecute(a) ==
    /\ Known(a)
    /\ MarkExecuted(a)
    /\ UNCHANGED call

BeginExecute(c, a) ==
    /\ Known(a)
    /\ call[c] = Idle
    /\ mem[a] = "approved"
    /\ call' = [call EXCEPT ![c] = [at |-> "approved", id |-> a]]
    /\ UNCHANGED <<up, mem, file, history>>

\* Mutant of EndExecute: the request returns the failure of a tool that raised, and
\* marks only what succeeded.
EndExecuteIfSucceeded(c) ==
    /\ call[c].at = "approved"
    /\ call' = [call EXCEPT ![c] = Idle]
    /\ \/ MarkExecuted(call[c].id)
       \/ /\ spent' = [spent EXCEPT ![call[c].id] = "marked"]
          /\ UNCHANGED <<up, mem, file, born, confirmed, barred>>
\* The tool returned or raised.  One that returned is marked before its execution is
\* recorded; when it raised and that cannot be recorded, the approval stays as it is.
EndExecute(c) ==
    /\ call[c].at = "approved"
    /\ call' = [call EXCEPT ![c] = Idle]
    /\ \/ MarkExecuted(call[c].id)
       \/ /\ spent' = [spent EXCEPT ![call[c].id] = IF @ = "no" THEN "unmarked" ELSE @]
          /\ UNCHANGED <<up, mem, file, born, confirmed, barred>>
-----------------------------------------------------------------------------
\* The process dies, in the middle of a write or not.
Crash ==
    /\ up
    /\ up' = FALSE
    /\ mem' = Nothing
    /\ file' \in {file, Torn}
    /\ call' = [c \in Callers |-> Idle]
    /\ spent' = [a \in Ids |-> IF spent[a] = "saved" THEN "saved" ELSE "no"]
    /\ UNCHANGED <<born, confirmed, barred>>

\* A file that does not parse stops every start.
Restart ==
    /\ ~up
    /\ file # Torn
    /\ up' = TRUE
    /\ mem' = file
    /\ UNCHANGED <<file, call, history>>

Next ==
    \/ AskForTool
    \/ \E a \in Ids : Approve(a) \/ Reject(a) \/ RefuseExecute(a)
    \/ \E c \in Callers : BeginDirect(c) \/ EndDirect(c) \/ EndExecute(c)
    \/ \E c \in Callers, a \in Ids : BeginExecute(c, a)
    \/ Crash
    \/ Restart

Spec == Init /\ [][Next]_vars
-----------------------------------------------------------------------------
\* Every variable has its type.
TypeOK ==
    /\ up \in BOOLEAN
    /\ mem \in Store
    /\ file \in Store \union {Torn}
    /\ call \in [Callers -> Call]
    /\ born \in 0..MaxApprovals
    /\ confirmed \subseteq 1..born
    /\ spent \in Spent
    /\ barred \subseteq 1..born

\* An approval whose creation was confirmed stays known while it is one of the
\* newest Cap, through failing writes, crashes and restarts: what create_approval
\* put in memory reaches the file with every later write.
NewestKept ==
    \A a \in confirmed : a + Cap > born =>
        /\ up => mem[a] # Absent
        /\ file # Torn => file[a] # Absent

Starts(a) == \E c \in Callers :
    /\ call[c] = Idle
    /\ call'[c] = [at |-> "approved", id |-> a]

\* An execution that was marked uses its approval up: no tool is started on it
\* again until somebody approves again, whatever overlaps or fails to be written, and
\* for good if the mark was saved.  Every request that is answered with a record is
\* marked; one that failed because that record could not be written may not be.
MarkedIsSpent ==
    [][\A a \in Ids : Starts(a) => spent[a] \in {"no", "unmarked"}]_vars

\* After a confirmed rejection no tool is started on the approval, through
\* execute requests, failing writes, crashes and restarts, until it is approved.
RejectedNeverStarts == [][\A a \in Ids : Starts(a) => a \notin barred]_vars
=============================================================================
