--------------------------- MODULE ApprovalsProofs --------------------------
(***************************************************************************)
(* Proofs about Approvals, for any number of approvals and of concurrent   *)
(* requests, any cap of the file, and any failing writes and crashes.      *)
(***************************************************************************)
EXTENDS Approvals, FiniteSetTheorems, TLAPS

\* No tool is started on a: neither now nor from what a restart would load.
Harmless(a) ==
    /\ up => mem[a] # "approved"
    /\ file # Torn => file[a] # "approved"

\* What was marked is not approved here, what was saved is not approved at all.
SpentIsHarmless ==
    \A a \in Ids :
        /\ spent[a] = "marked" => up /\ mem[a] # "approved"
        /\ spent[a] = "saved" => Harmless(a)

BarredIsHarmless == \A a \in barred : Harmless(a)

\* Only what was created is in the store.
OnlyBorn ==
    \A a \in Ids : a > born => /\ mem[a] = Absent
                               /\ file # Torn => file[a] = Absent
                               /\ spent[a] = "no"

\* A tool that is awaited has its process and, in the store, its approval.
CallKnown == \A c \in Callers :
    /\ call[c].at # "idle" => up
    /\ call[c].at = "approved" => call[c].id \in Ids /\ mem[call[c].id] # Absent

IInv == TypeOK /\ OnlyBorn /\ CallKnown /\ SpentIsHarmless /\ BarredIsHarmless /\ NewestKept
-----------------------------------------------------------------------------
(* The file                                                                 *)

LEMMA Sentinels == Absent \notin Status /\ Torn \notin Store /\ None \notin Ids
  BY SentinelAssumption

LEMMA SavedIsStore ==
  ASSUME NEW m \in Store
  PROVE  Saved(m) \in Store
  BY DEF Saved, Store

\* What is written is what memory holds, or nothing.
LEMMA SavedOrDropped ==
  ASSUME NEW m \in Store
  PROVE  \A a \in Ids : Saved(m)[a] = m[a] \/ Saved(m)[a] = Absent
  BY DEF Saved

\* The newest Cap of the ids up to n are written, when they are in memory.
LEMMA NewestAreWritten ==
  ASSUME NEW m \in Store, NEW n \in Nat,
         \A b \in Ids : b > n => m[b] = Absent,
         NEW a \in Ids, a <= n, a + Cap > n
  PROVE  Saved(m)[a] = m[a]
<1>1. Newer(m, a) \subseteq (a + 1)..n
  BY DEF Newer, Present, Ids
<1>2. a \in Int /\ a + 1 \in Int /\ n \in Int
  BY DEF Ids
<1>3. IsFiniteSet((a + 1)..n) /\ Cardinality((a + 1)..n) < Cap
  <2>1. /\ IsFiniteSet((a + 1)..n)
        /\ Cardinality((a + 1)..n) = IF a + 1 > n THEN 0 ELSE n - (a + 1) + 1
    BY <1>2, FS_Interval
  <2>2. (IF a + 1 > n THEN 0 ELSE n - (a + 1) + 1) < Cap
    BY <1>2, ApprovalAssumption
  <2> QED
    BY <2>1, <2>2
<1>4. Cardinality(Newer(m, a)) <= Cardinality((a + 1)..n) /\ IsFiniteSet(Newer(m, a))
  BY <1>1, <1>3, FS_Subset
<1>5. Cardinality(Newer(m, a)) < Cap
  BY <1>1, <1>2, <1>3, <1>4, FS_CardinalityType, ApprovalAssumption
<1> QED
  BY <1>5 DEF Saved
-----------------------------------------------------------------------------
(* One change of a record and the write that follows it                     *)

Change(x, status) ==
    /\ up /\ up' = up
    /\ Set(x, status)
    /\ Written(mem') \/ Unwritten

\* A change keeps the types, touches one record, and the file gets what memory
\* holds, keeps what it had, or is torn.
LEMMA ChangeOfOne ==
  ASSUME TypeOK, NEW x \in Ids, NEW status \in Status, Change(x, status)
  PROVE  /\ mem' \in Store
         /\ file' \in Store \union {Torn}
         /\ mem'[x] = status
         /\ \A a \in Ids : a # x => mem'[a] = mem[a]
<1>1. mem' = [mem EXCEPT ![x] = status] /\ mem \in Store
  BY DEF Change, Set, TypeOK
<1>2. mem' \in Store
  BY <1>1 DEF Store
<1>3. mem'[x] = status /\ \A a \in Ids : a # x => mem'[a] = mem[a]
  BY <1>1 DEF Store
<1>4. file' \in Store \union {Torn}
  BY <1>2, SavedIsStore DEF Change, Written, Unwritten, TypeOK
<1> QED
  BY <1>2, <1>3, <1>4

\* A change to another status than approved makes nothing harmful.
LEMMA ChangeKeepsHarmless ==
  ASSUME TypeOK, NEW x \in Ids, NEW status \in Status, Change(x, status),
         NEW a \in Ids, Harmless(a), a # x \/ status # "approved"
  PROVE  Harmless(a)'
<1>1. up /\ up' /\ mem[a] # "approved"
  BY DEF Change, Harmless, TypeOK
<1>2. mem' \in Store /\ mem'[a] # "approved"
  BY <1>1, ChangeOfOne
<1>3. file' # Torn => file'[a] # "approved"
  <2>1. CASE Written(mem')
    BY <2>1, <1>2, SavedOrDropped, SentinelAssumption DEF Written, Status
  <2>2. CASE Unwritten
    BY <2>2 DEF Unwritten, Harmless
  <2> QED
    BY <2>1, <2>2 DEF Change
<1> QED
  BY <1>2, <1>3 DEF Harmless

\* A change that is written leaves no record approved but those of memory.
LEMMA WrittenIsHarmless ==
  ASSUME TypeOK, NEW x \in Ids, NEW status \in Status, Change(x, status),
         Written(mem'), status # "approved"
  PROVE  Harmless(x)'
<1>1. mem' \in Store /\ mem'[x] # "approved"
  BY ChangeOfOne
<1>2. Saved(mem')[x] # "approved"
  BY <1>1, SavedOrDropped, SentinelAssumption DEF Status
<1> QED
  BY <1>1, <1>2 DEF Harmless, Written

\* The store knows nothing that was not created.
LEMMA ChangeKeepsBorn ==
  ASSUME TypeOK, OnlyBorn, NEW x \in Ids, NEW status \in Status, Change(x, status),
         born' \in {born, born + 1}, x <= born',
         NEW a \in Ids, a > born'
  PROVE  mem'[a] = Absent /\ (file' # Torn => file'[a] = Absent) /\ spent[a] = "no"
<1>1. a > born /\ a # x
  BY DEF TypeOK, Ids
<1>2. mem'[a] = Absent /\ mem' \in Store
  BY <1>1, ChangeOfOne DEF OnlyBorn
<1>3. file' # Torn => file'[a] = Absent
  BY <1>1, <1>2, SavedOrDropped DEF Change, Written, Unwritten, OnlyBorn
<1> QED
  BY <1>1, <1>2, <1>3 DEF OnlyBorn

\* No record leaves memory, and the newest stay in the file.
LEMMA ChangeKeepsNewest ==
  ASSUME TypeOK, OnlyBorn, NewestKept,
         NEW x \in Ids, NEW status \in Status, Change(x, status),
         born' \in {born, born + 1}, x <= born',
         NEW a \in Ids, a <= born', a \in confirmed \/ (a = x /\ Written(mem')),
         a + Cap > born'
  PROVE  mem'[a] # Absent /\ (file' # Torn => file'[a] # Absent)
<1>1. a \in confirmed => a + Cap > born
  BY ApprovalAssumption DEF TypeOK, Ids
<1>2. mem' \in Store /\ mem'[a] # Absent
  BY <1>1, ChangeOfOne, Sentinels DEF NewestKept, Change
<1>3. CASE Written(mem')
  <2>1. \A b \in Ids : b > born' => mem'[b] = Absent
    BY ChangeKeepsBorn
  <2>2. born' \in Nat
    BY DEF TypeOK
  <2>3. Saved(mem')[a] = mem'[a]
    BY <1>2, <2>1, <2>2, NewestAreWritten
  <2> QED
    BY <2>3, <1>2, <1>3 DEF Written
<1>4. CASE ~Written(mem')
  <2>1. Unwritten /\ a \in confirmed
    BY <1>4 DEF Change
  <2> QED
    BY <2>1, <1>1, <1>2 DEF Unwritten, NewestKept
<1> QED
  BY <1>3, <1>4
-----------------------------------------------------------------------------
(* The invariant                                                            *)

LEMMA NothingIsStore == Nothing \in Store /\ \A a \in Ids : Nothing[a] = Absent
  BY DEF Nothing, Store

LEMMA IdleFacts == Idle \in Call /\ Idle.at = "idle"
  BY DEF Idle, Call

LEMMA Initially == Init => IInv
<1> SUFFICES ASSUME Init PROVE IInv
  OBVIOUS
<1> USE DEF Init
<1>1. mem \in Store /\ file \in Store /\ file # Torn /\ \A a \in Ids : mem[a] = Absent /\ file[a] = Absent
  BY NothingIsStore, Sentinels
<1>2. \A c \in Callers : call[c] \in Call /\ call[c].at = "idle"
  BY IdleFacts
<1>3. \A a \in Ids : spent[a] = "no"
  OBVIOUS
<1>4. TypeOK
  BY <1>1, <1>2, ApprovalAssumption DEF TypeOK, Spent
<1>5. OnlyBorn /\ CallKnown /\ SpentIsHarmless /\ BarredIsHarmless /\ NewestKept
  BY <1>1, <1>2, <1>3 DEF OnlyBorn, CallKnown, SpentIsHarmless, BarredIsHarmless, NewestKept
<1> QED
  BY <1>4, <1>5 DEF IInv

\* What a change keeps, whatever the history variables do: everything but what
\* SpentIsHarmless and BarredIsHarmless say of the record that is changed.
LEMMA ChangeKeeps ==
  ASSUME IInv, NEW x \in Ids, NEW status \in Status, Change(x, status),
         call' \in [Callers -> Call],
         \A c \in Callers : call'[c].at = "approved" => call'[c] = call[c],
         born' \in {born, born + 1}, born' <= MaxApprovals, x <= born',
         confirmed' \in {confirmed, confirmed \union {x}},
         confirmed' = confirmed \/ Written(mem'),
         spent' \in Spent, barred' \subseteq 1..born',
         \A a \in Ids : a # x => spent'[a] = spent[a],
         \A a \in barred' : a # x => a \in barred,
         /\ spent'[x] = "marked" => up' /\ mem'[x] # "approved"
         /\ spent'[x] = "saved" => Harmless(x)',
         x \in barred' => Harmless(x)'
  PROVE  IInv'
<1> USE DEF IInv
<1>0. /\ born \in Nat /\ born' \in Nat /\ MaxApprovals \in Nat
      /\ \A b \in 1..born' : b \in Ids /\ b <= born'
      /\ confirmed' \subseteq 1..born' /\ barred' \subseteq 1..born'
  BY ApprovalAssumption DEF TypeOK, Ids
<1>1. TypeOK'
  BY <1>0, ChangeOfOne DEF TypeOK, Change, Ids
<1>2. OnlyBorn'
  <2> SUFFICES ASSUME NEW a \in Ids, a > born'
               PROVE  mem'[a] = Absent /\ (file' # Torn => file'[a] = Absent) /\ spent'[a] = "no"
    BY DEF OnlyBorn
  <2>1. a # x
    BY DEF TypeOK, Ids
  <2> QED
    BY <2>1, ChangeKeepsBorn
<1>3. CallKnown'
  <2> SUFFICES ASSUME NEW c \in Callers, call'[c].at = "approved"
               PROVE  call'[c].id \in Ids /\ mem'[call'[c].id] # Absent
    BY DEF CallKnown, Change
  <2>1. call[c].id \in Ids /\ mem[call[c].id] # Absent /\ call'[c] = call[c]
    BY DEF CallKnown
  <2> QED
    BY <2>1, ChangeOfOne, Sentinels DEF Change
<1>4. SpentIsHarmless'
  <2> SUFFICES ASSUME NEW a \in Ids
               PROVE  /\ spent'[a] = "marked" => up' /\ mem'[a] # "approved"
                      /\ spent'[a] = "saved" => Harmless(a)'
    BY DEF SpentIsHarmless
  <2>1. CASE a = x
    BY <2>1
  <2>2. CASE a # x
    BY <2>2, ChangeOfOne, ChangeKeepsHarmless DEF SpentIsHarmless, Change
  <2> QED
    BY <2>1, <2>2
<1>5. BarredIsHarmless'
  <2> SUFFICES ASSUME NEW a \in barred' PROVE Harmless(a)'
    BY DEF BarredIsHarmless
  <2>1. CASE a = x
    BY <2>1
  <2>2. CASE a # x
    <3>1. a \in Ids /\ a \in barred
      BY <1>0, <2>2
    <3> QED
      BY <2>2, <3>1, ChangeKeepsHarmless DEF BarredIsHarmless
  <2> QED
    BY <2>1, <2>2
<1>6. NewestKept'
  <2> SUFFICES ASSUME NEW a \in confirmed', a + Cap > born'
               PROVE  mem'[a] # Absent /\ (file' # Torn => file'[a] # Absent)
    BY DEF NewestKept
  <2>1. a \in Ids /\ a <= born' /\ (a \in confirmed \/ (a = x /\ Written(mem')))
    BY <1>0
  <2> QED
    BY <2>1, ChangeKeepsNewest
<1> QED
  BY <1>1, <1>2, <1>3, <1>4, <1>5, <1>6

LEMMA ApproveKeeps == ASSUME IInv, NEW a \in Ids, Approve(a) PROVE IInv'
<1> USE DEF Approve, Known, IInv
<1>1. Change(a, "approved") /\ "approved" \in Status
  BY DEF Change, Status
<1>2. a <= born
  BY DEF OnlyBorn, TypeOK, Ids
<1>3. spent' \in Spent /\ spent'[a] = "no" /\ \A b \in Ids : b # a => spent'[b] = spent[b]
  BY DEF TypeOK, Spent
<1>4. barred' \subseteq 1..born' /\ a \notin barred' /\ \A b \in barred' : b \in barred
  BY DEF TypeOK
<1>5. born' = born /\ confirmed' = confirmed /\ call' = call /\ born <= MaxApprovals /\ call \in [Callers -> Call]
  BY DEF TypeOK
<1> HIDE DEF Approve, Known, IInv
<1> QED
  BY <1>1, <1>2, <1>3, <1>4, <1>5, ChangeKeeps

LEMMA RejectKeeps == ASSUME IInv, NEW a \in Ids, Reject(a) PROVE IInv'
<1> USE DEF Reject, Known, IInv
<1>1. Change(a, "rejected") /\ "rejected" \in Status /\ "rejected" # "approved"
  BY DEF Change, Status
<1>2. a <= born
  BY DEF OnlyBorn, TypeOK, Ids
<1>3. spent' = spent /\ spent \in Spent
  BY DEF TypeOK
<1>4. barred' \subseteq 1..born' /\ \A b \in barred' : b # a => b \in barred
  <2>1. a \in 1..born /\ born' = born /\ barred \subseteq 1..born
    BY <1>2 DEF TypeOK, Ids
  <2>2. barred' = barred \/ barred' = barred \union {a}
    OBVIOUS
  <2> QED
    BY <2>1, <2>2
<1>5. born' = born /\ confirmed' = confirmed /\ call' = call /\ born <= MaxApprovals /\ call \in [Callers -> Call]
  BY DEF TypeOK
<1>6. mem'[a] # "approved" /\ up'
  BY <1>1, ChangeOfOne DEF Change
<1>7. Harmless(a) => Harmless(a)'
  BY <1>1, ChangeKeepsHarmless
<1>8. a \in barred' => Harmless(a)'
  <2>1. CASE Written(mem')
    BY <2>1, <1>1, WrittenIsHarmless
  <2>2. CASE barred' = barred
    BY <2>2, <1>7 DEF BarredIsHarmless
  <2> QED
    BY <2>1, <2>2
<1>9. spent[a] = "saved" => Harmless(a)'
  BY <1>7 DEF SpentIsHarmless
<1> HIDE DEF Reject, Known, IInv
<1> QED
  BY <1>1, <1>2, <1>3, <1>4, <1>5, <1>6, <1>8, <1>9, ChangeKeeps

\* mark_executed, when the calls that are left were there before.
LEMMA MarkExecutedKeeps ==
  ASSUME IInv, NEW a \in Ids, up, mem[a] # Absent, MarkExecuted(a),
         call' \in [Callers -> Call],
         \A c \in Callers : call'[c].at = "approved" => call'[c] = call[c]
  PROVE  IInv'
<1> USE DEF MarkExecuted, IInv
<1>1. Change(a, "executed") /\ "executed" \in Status /\ "executed" # "approved"
  BY DEF Change, Status
<1>2. a <= born
  BY DEF OnlyBorn, TypeOK, Ids
<1>3. spent' \in Spent /\ \A b \in Ids : b # a => spent'[b] = spent[b]
  BY DEF TypeOK, Spent
<1>4. barred' = barred /\ barred \subseteq 1..born'
  BY DEF TypeOK
<1>5. born' = born /\ confirmed' = confirmed /\ born <= MaxApprovals
  BY DEF TypeOK
<1>6. mem'[a] # "approved" /\ up'
  BY <1>1, ChangeOfOne DEF Change
<1>7. Harmless(a) => Harmless(a)'
  BY <1>1, ChangeKeepsHarmless
<1>8. a \in barred' => Harmless(a)'
  BY <1>4, <1>7 DEF BarredIsHarmless
<1>9. spent'[a] = "saved" => Harmless(a)'
  <2>1. CASE Written(mem')
    BY <2>1, <1>1, WrittenIsHarmless
  <2>2. CASE ~Written(mem')
    <3>1. spent'[a] = "saved" => spent[a] = "saved"
      BY <2>2 DEF TypeOK, Spent
    <3> QED
      BY <3>1, <1>7 DEF SpentIsHarmless
  <2> QED
    BY <2>1, <2>2
<1> HIDE DEF MarkExecuted, IInv
<1> QED
  BY <1>1, <1>2, <1>3, <1>4, <1>5, <1>6, <1>8, <1>9, ChangeKeeps

\* create_approval, when the calls that are left were there before.
LEMMA CreateKeeps ==
  ASSUME IInv, up, CreateApproval,
         call' \in [Callers -> Call],
         \A c \in Callers : call'[c].at = "approved" => call'[c] = call[c]
  PROVE  IInv'
<1> USE DEF CreateApproval, IInv
<1>1. PICK n \in Ids : n = born'
  BY ApprovalAssumption DEF TypeOK, Ids
<1>2. born \in Nat /\ born' = born + 1 /\ n <= MaxApprovals /\ n > born
  BY <1>1 DEF TypeOK, Ids
<1>3. Change(n, "pending") /\ "pending" \in Status /\ "pending" # "approved"
  BY <1>1 DEF Change, Set, Status
<1>4. spent' = spent /\ spent \in Spent /\ spent[n] = "no"
  BY <1>2 DEF TypeOK, OnlyBorn
<1>5. barred' = barred /\ barred \subseteq 1..born' /\ n \notin barred
  <2>1. barred \subseteq 1..born /\ barred' = barred
    BY DEF TypeOK
  <2>2. 1..born \subseteq 1..born'
    BY <1>2
  <2>3. n \notin 1..born
    BY <1>2
  <2> QED
    BY <2>1, <2>2, <2>3
<1>6. confirmed' \in {confirmed, confirmed \union {n}} /\ (confirmed' = confirmed \/ Written(mem'))
  BY <1>1
<1>7. born' \in {born, born + 1} /\ born' <= MaxApprovals /\ n <= born'
  BY <1>1, <1>2
<1> HIDE DEF CreateApproval, IInv
<1> QED
  BY <1>3, <1>4, <1>5, <1>6, <1>7, ChangeKeeps
-----------------------------------------------------------------------------
LEMMA RestartKeeps == ASSUME IInv, Restart PROVE IInv'
<1> USE DEF Restart, IInv, history
<1>1. TypeOK'
  BY DEF TypeOK
<1>2. OnlyBorn'
  BY DEF OnlyBorn
<1>3. CallKnown'
  BY DEF CallKnown
<1>4. SpentIsHarmless' /\ BarredIsHarmless'
  BY DEF SpentIsHarmless, BarredIsHarmless, Harmless
<1>5. NewestKept'
  BY DEF NewestKept
<1> QED
  BY <1>1, <1>2, <1>3, <1>4, <1>5

LEMMA CrashKeeps == ASSUME IInv, Crash PROVE IInv'
<1> USE DEF Crash, IInv
<1>1. \A c \in Callers : call'[c] \in Call /\ call'[c].at = "idle"
  BY IdleFacts
<1>2. \A a \in Ids : spent'[a] = IF spent[a] = "saved" THEN "saved" ELSE "no"
  OBVIOUS
<1>3. TypeOK'
  BY <1>1, <1>2, NothingIsStore DEF TypeOK, Spent
<1>4. OnlyBorn'
  BY <1>2, NothingIsStore DEF OnlyBorn
<1>5. CallKnown'
  BY <1>1 DEF CallKnown
<1>6. SpentIsHarmless' /\ BarredIsHarmless'
  BY <1>2 DEF SpentIsHarmless, BarredIsHarmless, Harmless
<1>7. NewestKept'
  BY DEF NewestKept
<1> QED
  BY <1>3, <1>4, <1>5, <1>6, <1>7

\* A call that begins disturbs CallKnown only.
LEMMA BeginKeeps ==
  ASSUME IInv, up, UNCHANGED <<up, mem, file, history>>,
         call' \in [Callers -> Call],
         \A c \in Callers : call'[c].at = "approved" =>
             call'[c].id \in Ids /\ mem[call'[c].id] # Absent
  PROVE  IInv'
BY DEF IInv, TypeOK, OnlyBorn, CallKnown, SpentIsHarmless, BarredIsHarmless, Harmless,
       NewestKept, history

\* An execution that ends without a mark leaves the store as it was.
LEMMA UnmarkedKeeps ==
  ASSUME IInv, NEW a \in Ids, up, mem[a] # Absent,
         spent' = [spent EXCEPT ![a] = IF @ = "no" THEN "unmarked" ELSE @],
         UNCHANGED <<up, mem, file, born, confirmed, barred>>,
         call' \in [Callers -> Call],
         \A c \in Callers : call'[c].at = "approved" => call'[c] = call[c]
  PROVE  IInv'
<1>1. /\ spent' \in Spent
      /\ \A b \in Ids : spent'[b] = spent[b] \/ (b = a /\ spent'[b] = "unmarked")
  BY DEF IInv, TypeOK, Spent
<1>2. TypeOK'
  BY <1>1 DEF IInv, TypeOK
<1>3. OnlyBorn' /\ CallKnown'
  BY <1>1 DEF IInv, OnlyBorn, CallKnown
<1>4. SpentIsHarmless' /\ BarredIsHarmless' /\ NewestKept'
  BY <1>1 DEF IInv, SpentIsHarmless, BarredIsHarmless, Harmless, NewestKept
<1> QED
  BY <1>2, <1>3, <1>4 DEF IInv

LEMMA Inductive == IInv /\ [Next]_vars => IInv'
<1> SUFFICES ASSUME IInv, [Next]_vars PROVE IInv'
  OBVIOUS
<1>0. call \in [Callers -> Call] /\ Idle \in Call /\ Idle.at # "approved"
  BY IdleFacts DEF IInv, TypeOK
<1>1. CASE AskForTool
  <2>1. call' = call /\ up /\ CreateApproval
    BY <1>1 DEF AskForTool
  <2> QED
    BY <1>0, <2>1, CreateKeeps
<1>2. ASSUME NEW a \in Ids, Approve(a) PROVE IInv'
  BY <1>2, ApproveKeeps
<1>3. ASSUME NEW a \in Ids, Reject(a) PROVE IInv'
  BY <1>3, RejectKeeps
<1>4. ASSUME NEW a \in Ids, RefuseExecute(a) PROVE IInv'
  <2>1. call' = call /\ up /\ mem[a] # Absent /\ MarkExecuted(a)
    BY <1>4 DEF RefuseExecute, Known
  <2> QED
    BY <1>0, <2>1, MarkExecutedKeeps
<1>5. ASSUME NEW c \in Callers, BeginDirect(c) PROVE IInv'
  <2> DEFINE waiting == [at |-> "direct", id |-> None]
  <2>1. waiting \in Call /\ waiting.at # "approved"
    BY DEF Call
  <2> HIDE DEF waiting
  <2>2. call' = [call EXCEPT ![c] = waiting] /\ UNCHANGED <<up, mem, file, history>> /\ up
    BY <1>5 DEF BeginDirect, waiting
  <2>3. call' \in [Callers -> Call] /\ \A d \in Callers : call'[d].at = "approved" => call'[d] = call[d]
    BY <1>0, <2>1, <2>2
  <2> QED
    BY <2>2, <2>3, BeginKeeps DEF IInv, CallKnown
<1>6. ASSUME NEW c \in Callers, EndDirect(c) PROVE IInv'
  <2>1. call' = [call EXCEPT ![c] = Idle]
    BY <1>6 DEF EndDirect
  <2>2. call' \in [Callers -> Call] /\ \A d \in Callers : call'[d].at = "approved" => call'[d] = call[d]
    BY <1>0, <2>1
  <2>3. CASE CreateApproval /\ up
    BY <2>2, <2>3, CreateKeeps
  <2>4. CASE UNCHANGED <<up, mem, file, history>>
    <3>1. up /\ \A d \in Callers : call'[d].at = "approved" =>
                   call'[d].id \in Ids /\ mem[call'[d].id] # Absent
      BY <1>6, <2>2 DEF EndDirect, IInv, CallKnown
    <3> QED
      BY <2>2, <2>4, <3>1, BeginKeeps
  <2> QED
    BY <1>6, <2>3, <2>4 DEF EndDirect, IInv, CallKnown
<1>7. ASSUME NEW c \in Callers, EndExecute(c) PROVE IInv'
  <2>1. call' = [call EXCEPT ![c] = Idle] /\ call[c].at = "approved"
    BY <1>7 DEF EndExecute
  <2>2. call' \in [Callers -> Call] /\ \A d \in Callers : call'[d].at = "approved" => call'[d] = call[d]
    BY <1>0, <2>1
  <2>3. PICK a \in Ids : a = call[c].id
    BY <2>1 DEF IInv, CallKnown
  <2>4. up /\ mem[a] # Absent
    BY <2>1, <2>3 DEF IInv, CallKnown
  <2>5. CASE MarkExecuted(a)
    BY <2>2, <2>4, <2>5, MarkExecutedKeeps
  <2>6. CASE /\ spent' = [spent EXCEPT ![a] = IF @ = "no" THEN "unmarked" ELSE @]
             /\ UNCHANGED <<up, mem, file, born, confirmed, barred>>
    BY <2>2, <2>3, <2>4, <2>6, UnmarkedKeeps
  <2> QED
    BY <1>7, <2>3, <2>5, <2>6 DEF EndExecute
<1>8. ASSUME NEW c \in Callers, NEW a \in Ids, BeginExecute(c, a) PROVE IInv'
  <2> DEFINE waiting == [at |-> "approved", id |-> a]
  <2>1. waiting \in Call /\ waiting.id = a
    BY DEF Call
  <2> HIDE DEF waiting
  <2>2. call' = [call EXCEPT ![c] = waiting] /\ UNCHANGED <<up, mem, file, history>> /\ up /\ mem[a] # Absent
    BY <1>8 DEF BeginExecute, Known, waiting
  <2>3. call' \in [Callers -> Call]
    BY <1>0, <2>1, <2>2
  <2>4. \A d \in Callers : call'[d].at = "approved" => call'[d].id \in Ids /\ mem[call'[d].id] # Absent
    BY <1>0, <2>1, <2>2 DEF IInv, CallKnown
  <2> QED
    BY <2>2, <2>3, <2>4, BeginKeeps
<1>9. CASE UNCHANGED vars
  BY <1>9 DEF vars, history, IInv, TypeOK, OnlyBorn, CallKnown, SpentIsHarmless,
     BarredIsHarmless, Harmless, NewestKept
<1> QED
  BY <1>1, <1>2, <1>3, <1>4, <1>5, <1>6, <1>7, <1>8, <1>9, RestartKeeps, CrashKeeps DEF Next
-----------------------------------------------------------------------------
(* The theorems                                                             *)

\* Every variable has its type, for every number of approvals and requests.
THEOREM TypeCorrect == Spec => []TypeOK
<1>1. IInv => TypeOK
  BY DEF IInv
<1> QED
  BY <1>1, Initially, Inductive, PTL DEF Spec

\* What create_approval confirmed stays known while it is among the newest.
THEOREM NewestStay == Spec => []NewestKept
<1>1. IInv => NewestKept
  BY DEF IInv
<1> QED
  BY <1>1, Initially, Inductive, PTL DEF Spec

\* What a step starts is approved in memory.
LEMMA StartsApproved ==
  ASSUME TypeOK, [Next]_vars, NEW a \in Ids, Starts(a)
  PROVE  up /\ mem[a] = "approved"
<1>0. PICK c \in Callers : call[c] = Idle /\ call'[c] = [at |-> "approved", id |-> a]
  BY DEF Starts
<1>1. call'[c].at = "approved" /\ call'[c].id = a /\ Idle.at = "idle" /\ call'[c] # call[c] /\ call'[c] # Idle
  BY <1>0, IdleFacts
<1>2. call \in [Callers -> Call]
  BY DEF TypeOK
<1>3. ~UNCHANGED call /\ ~Crash
  BY <1>1 DEF Crash
<1>4. ASSUME NEW d \in Callers PROVE ~BeginDirect(d) /\ ~EndDirect(d) /\ ~EndExecute(d)
  <2>1. ~BeginDirect(d)
    <3>1. [at |-> "direct", id |-> None].at = "direct"
      OBVIOUS
    <3> QED
      BY <3>1, <1>1, <1>2 DEF BeginDirect
  <2>2. ~EndDirect(d) /\ ~EndExecute(d)
    BY <1>1, <1>2 DEF EndDirect, EndExecute
  <2> QED
    BY <2>1, <2>2
<1>5. PICK d \in Callers, b \in Ids : BeginExecute(d, b)
  BY <1>3, <1>4 DEF Next, vars, AskForTool, Approve, Reject, RefuseExecute, Restart
<1>6. d = c /\ b = a
  <2> DEFINE waiting == [at |-> "approved", id |-> b]
  <2>1. waiting.id = b
    OBVIOUS
  <2> HIDE DEF waiting
  <2>2. call' = [call EXCEPT ![d] = waiting]
    BY <1>5 DEF BeginExecute, waiting
  <2> QED
    BY <2>1, <2>2, <1>1, <1>2
<1> QED
  BY <1>5, <1>6 DEF BeginExecute, Known

\* An execution that was marked has used the approval up.
THEOREM ExecutionsAreSpent == Spec => MarkedIsSpent
<1>1. IInv /\ [Next]_vars => [\A a \in Ids : Starts(a) => spent[a] \in {"no", "unmarked"}]_vars
  <2> SUFFICES ASSUME IInv, [Next]_vars, NEW a \in Ids, Starts(a)
               PROVE  spent[a] \in {"no", "unmarked"}
    OBVIOUS
  <2>1. up /\ mem[a] = "approved"
    BY StartsApproved DEF IInv
  <2> QED
    BY <2>1 DEF IInv, SpentIsHarmless, Harmless, TypeOK, Spent
<1> QED
  BY <1>1, Initially, Inductive, PTL DEF Spec, MarkedIsSpent

\* A confirmed rejection holds.
THEOREM RejectionsHold == Spec => RejectedNeverStarts
<1>1. IInv /\ [Next]_vars => [\A a \in Ids : Starts(a) => a \notin barred]_vars
  <2> SUFFICES ASSUME IInv, [Next]_vars, NEW a \in Ids, Starts(a) PROVE a \notin barred
    OBVIOUS
  <2>1. up /\ mem[a] = "approved"
    BY StartsApproved DEF IInv
  <2> QED
    BY <2>1 DEF IInv, BarredIsHarmless, Harmless
<1> QED
  BY <1>1, Initially, Inductive, PTL DEF Spec, RejectedNeverStarts
=============================================================================
