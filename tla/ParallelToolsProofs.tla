------------------------- MODULE ParallelToolsProofs -------------------------
(***************************************************************************)
(* Theorems about ParallelTools, for every number of batches, calls and    *)
(* tools, any references between calls, and any sizes; and at the end      *)
(* about the plan of a batch and the search for cycles, for every graph.   *)
(***************************************************************************)
EXTENDS ParallelTools, CycleSearch, FiniteSetTheorems, SequenceTheorems, WellFoundedInduction, TLAPS

\* Every set of numbers that is not empty has a least one: induction over the turns of a
\* loop is the least turn that goes wrong.
LEMMA LeastNumber ==
  ASSUME NEW S, S \subseteq Nat, S # {}
  PROVE  \E m \in S : \A n \in S : m <= n
<1> DEFINE R == OpToRel(<, Nat)
<1>1. \A m, n \in Nat : n < m => <<n, m>> \in R
  BY DEF OpToRel
<1>2. IsWellFoundedOn(R, Nat)
  BY NatLessThanWellFounded, Zenon
<1> HIDE DEF R
<1>3. PICK m \in S : \A n \in S : ~ (<<n, m>> \in R)
  BY <1>2, WFMin
<1>4. ASSUME NEW n \in S PROVE m <= n
  <2>1. m \in Nat /\ n \in Nat
    OBVIOUS
  <2>2. ~ (n < m)
    BY <1>1, <1>3, <2>1
  <2> QED BY <2>1, <2>2
<1> QED BY <1>4

(***************************************************************************)
(* Type correctness.                                                       *)
(***************************************************************************)

\* The references of a call name calls.
LEMMA ReferencesAreCalls ==
  ASSUME refs \in Graphs, NEW c \in Calls
  PROVE  /\ refs[c] \in UNION {[S -> Attributes] : S \in SUBSET Calls}
         /\ DOMAIN refs[c] \subseteq Calls
<1>1. refs[c] \in UNION {[S -> Attributes] : S \in SUBSET Calls}
  BY CallsAssumption
<1> QED BY <1>1

\* Init and the steps of calls and batches keep every variable in its set.
LEMMA TypeInit == Init => TypeOK
<1> SUFFICES ASSUME Init PROVE TypeOK
  OBVIOUS
<1> USE CallsAssumption, BoundsAssumption
<1>1. now \in Times
  BY DEF Init, Times
<1>2. DOMAIN cache = {}
  BY DEF Init
<1>4. \A c \in Calls : DOMAIN refs[c] \in SUBSET Calls
  BY ReferencesAreCalls DEF Init
<1>5. \A a : Literal(a) \in Values
  BY DEF Literal, Values
<1>6. args \in [Calls -> UNION {[S -> Values] : S \in SUBSET Calls}]
  <2>1. \A c \in Calls : [d \in DOMAIN refs[c] |-> Literal(refs[c][d])]
                           \in [DOMAIN refs[c] -> Values]
    BY <1>5
  <2> QED BY <1>4, <2>1 DEF Init
<1>7. result \in [Calls -> Results]
  BY DEF Init, Results
<1> QED BY <1>1, <1>2, <1>6, <1>7 DEF Init, TypeOK, Members

\* What the members of Results are.
LEMMA ResultFacts ==
    /\ NoResult \in Results
    /\ Failure \in Results
    /\ \A t \in Times, hit \in BOOLEAN : Ok(t, hit) \in Results
    /\ \A r \in Results : r.status = "ok" => r.output \in Times
<1>1. /\ NoResult \in Results
      /\ Failure \in Results
      /\ \A t \in Times, hit \in BOOLEAN : Ok(t, hit) \in Results
  BY DEF Results
<1>2. ASSUME NEW r \in Results, r.status = "ok" PROVE r.output \in Times
  <2>1. PICK t \in Times, hit \in BOOLEAN : r = Ok(t, hit)
    BY <1>2 DEF Results, NoResult, Failure
  <2> QED BY <2>1 DEF Ok
<1> QED BY <1>1, <1>2

\* A resolved reference is a value.
LEMMA ResolvedIsValue ==
  ASSUME TypeOK, NEW c \in Calls, NEW d \in Calls
  PROVE  Resolved(c, d) \in Values
<1>1. result[d] \in Results
  BY DEF TypeOK
<1>2. result[d].status = "ok" => result[d].output \in Values
  BY <1>1, ResultFacts DEF Values
<1> DEFINE a == refs[c][d]
<1>3. Literal(a) \in Values /\ NoError \in Values /\ ErrorText \in Values
  BY DEF Literal, Values, NoError, ErrorText
<1> QED BY <1>2, <1>3 DEF Resolved

\* A key is one of Keys.
LEMMA KeyType == ASSUME TypeOK, NEW c \in Calls PROVE Key(c) \in Keys
  BY DEF TypeOK, Key, Keys

LEMMA StoreType ==
  ASSUME TypeOK, NEW k \in Keys, Store(k)
  PROVE  /\ DOMAIN cache' \subseteq Keys
         /\ \A j \in DOMAIN cache' : cache'[j] \in Entries
<1> DEFINE entry == [output |-> now, created |-> now, accessed |-> 0]
<1>1. entry \in Entries
  BY DEF TypeOK, Entries
<1>2. PICK gone : cache' = [j \in (DOMAIN cache \ gone) \union {k} |->
                              IF j = k THEN entry ELSE cache[j]]
  BY DEF Store
<1> QED BY <1>1, <1>2 DEF TypeOK

LEMMA AdvanceType ==
  ASSUME TypeOK, NEW b \in Batches, Advance(b)
  PROVE  /\ phase' \in [Batches -> {"new", "running", "ended", "rejected"}]
         /\ rest' \in [Batches -> SUBSET Calls]
         /\ layer' \in [Batches -> SUBSET Calls]
         /\ args' \in [Calls -> UNION {[S -> Values] : S \in SUBSET Calls}]
         /\ pc' \in [Calls -> {"idle", "queued", "running", "backoff", "done"}]
<1> DEFINE next == NextLayer(Deps, rest[b])
<1>1. next \subseteq Calls
  BY DEF NextLayer, TypeOK
<1>2. CASE next = {}
  BY <1>2 DEF Advance, TypeOK
<1>3. CASE next # {}
  <2>1. /\ phase' = [phase EXCEPT ![b] = "running"]
        /\ StartLayer(b, next)
    BY <1>3 DEF Advance
  <2> HIDE DEF next
  <2>2. \A c \in Calls : [d \in DOMAIN refs[c] |-> Resolved(c, d)]
                           \in UNION {[S -> Values] : S \in SUBSET Calls}
    <3> SUFFICES ASSUME NEW c \in Calls
                 PROVE  [d \in DOMAIN refs[c] |-> Resolved(c, d)]
                           \in UNION {[S -> Values] : S \in SUBSET Calls}
      OBVIOUS
    <3>1. DOMAIN refs[c] \subseteq Calls
      BY ReferencesAreCalls DEF TypeOK
    <3>2. \A d \in DOMAIN refs[c] : Resolved(c, d) \in Values
      BY <3>1, ResolvedIsValue
    <3>3. [d \in DOMAIN refs[c] |-> Resolved(c, d)] \in [DOMAIN refs[c] -> Values]
      BY <3>2
    <3> QED BY <3>1, <3>3
  <2>3. args' \in [Calls -> UNION {[S -> Values] : S \in SUBSET Calls}]
    BY <2>1, <2>2 DEF StartLayer, TypeOK
  <2> QED BY <1>1, <2>1, <2>3 DEF StartLayer, TypeOK
<1> QED BY <1>2, <1>3

\* A call that sleeps before a retry has one left.
MayTryAgain == \A c \in Calls : pc[c] = "backoff" => tries[c] <= Retries

LEMMA TypeStep == TypeOK /\ MayTryAgain /\ [Next]_vars => TypeOK'
<1> SUFFICES ASSUME TypeOK, MayTryAgain, [Next]_vars PROVE TypeOK'
  OBVIOUS
<1> USE CallsAssumption, BoundsAssumption
<1>1. ASSUME NEW c \in Calls, Hit(c) PROVE TypeOK'
  <2>1. cache[Key(c)].output \in Times
    BY <1>1 DEF Hit, TypeOK, Entries
  <2>2. result' \in [Calls -> Results]
    BY <1>1, <2>1, ResultFacts DEF Hit, TypeOK
  <2>3. /\ DOMAIN cache' = DOMAIN cache
        /\ \A k \in DOMAIN cache' : cache'[k] \in Entries
    <3>1. Key(c) \in DOMAIN cache /\ cache' = [cache EXCEPT ![Key(c)].accessed = now]
      BY <1>1 DEF Hit, Touch
    <3>2. now \in Times /\ \A k \in DOMAIN cache : cache[k] \in Entries
      BY DEF TypeOK
    <3>3. DOMAIN cache' = DOMAIN cache
      BY <3>1
    <3>4. ASSUME NEW k \in DOMAIN cache PROVE cache'[k] \in Entries
      <4>1. cache'[k] = IF k = Key(c) THEN [cache[k] EXCEPT !.accessed = now] ELSE cache[k]
        BY <3>1
      <4> QED BY <3>2, <4>1 DEF Entries
    <3> QED BY <3>3, <3>4
  <2> QED BY <1>1, <2>2, <2>3 DEF Hit, TypeOK, request, batchVars
<1>2. ASSUME NEW c \in Calls, Miss(c) PROVE TypeOK'
  <2>1. tries' \in [Calls -> 0 .. Retries + 1]
    BY <1>2 DEF Miss, TypeOK
  <2>2. /\ DOMAIN cache' \subseteq DOMAIN cache
        /\ \A k \in DOMAIN cache' : cache'[k] = cache[k]
    BY <1>2 DEF Miss, Without
  <2> QED BY <1>2, <2>1, <2>2 DEF Miss, TypeOK, request, batchVars
<1>3. ASSUME NEW c \in Calls, Succeed(c) PROVE TypeOK'
  <2>1. /\ DOMAIN cache' \subseteq Keys
        /\ \A k \in DOMAIN cache' : cache'[k] \in Entries
    BY <1>3, KeyType, StoreType DEF Succeed
  <2>2. result' \in [Calls -> Results]
    BY <1>3, ResultFacts DEF Succeed, TypeOK
  <2> QED BY <1>3, <2>1, <2>2 DEF Succeed, TypeOK, request, batchVars
<1>4. ASSUME NEW c \in Calls, Fail(c) PROVE TypeOK'
  <2>0. UNCHANGED result \/ result' = [result EXCEPT ![c] = Failure]
    BY <1>4 DEF Fail
  <2>1. result' \in [Calls -> Results]
    BY <2>0, ResultFacts DEF TypeOK
  <2>2. pc' \in [Calls -> {"idle", "queued", "running", "backoff", "done"}]
    BY <1>4 DEF Fail, TypeOK
  <2> QED BY <1>4, <2>1, <2>2 DEF Fail, TypeOK, request, batchVars
<1>5. ASSUME NEW c \in Calls, Retry(c) PROVE TypeOK'
  <2>1. tries[c] \in 0 .. Retries + 1 /\ tries[c] <= Retries
    BY <1>5 DEF Retry, MayTryAgain, TypeOK
  <2>2. tries' \in [Calls -> 0 .. Retries + 1]
    BY <1>5, <2>1 DEF Retry, TypeOK
  <2> QED BY <1>5, <2>2 DEF Retry, TypeOK, request, batchVars
<1>6. ASSUME NEW b \in Batches, SubmitFlat(b) PROVE TypeOK'
  <2>1. Members(b) \subseteq Calls
    BY DEF Members
  <2> QED BY <1>6, <2>1 DEF SubmitFlat, TypeOK, request
<1>7. ASSUME NEW b \in Batches, SubmitLayers(b) PROVE TypeOK'
  BY <1>7, AdvanceType DEF SubmitLayers, TypeOK, request
<1>8. ASSUME NEW b \in Batches, Reject(b) PROVE TypeOK'
  BY <1>8 DEF Reject, TypeOK, request, callVars
<1>9. ASSUME NEW b \in Batches, EndLayer(b) PROVE TypeOK'
  <2>1. CASE Advance(b)
    BY <1>9, <2>1, AdvanceType DEF EndLayer, TypeOK, request
  <2>2. CASE ~Advance(b)
    BY <1>9, <2>2 DEF EndLayer, TypeOK, request
  <2> QED BY <2>1, <2>2
<1>10. ASSUME Tick PROVE TypeOK'
  <2>1. now' \in Times
    BY <1>10 DEF Tick, TypeOK, Times
  <2> QED BY <1>10, <2>1 DEF Tick, TypeOK, request, batchVars, callVars
<1>11. ASSUME UNCHANGED vars PROVE TypeOK'
  BY <1>11 DEF vars, TypeOK, request, batchVars, callVars
<1> QED
  BY <1>1, <1>2, <1>3, <1>4, <1>5, <1>6, <1>7, <1>8, <1>9, <1>10, <1>11
     DEF Next, CallStep, BatchStep
-----------------------------------------------------------------------------
(***************************************************************************)
(* The inductive invariant.                                                *)
(***************************************************************************)

\* The calls of a batch are those no layer has had, those of the layer, and
\* those of earlier layers, which are done.
Structure ==
    /\ \A b \in Batches :
         /\ rest[b] \subseteq Members(b)
         /\ layer[b] \subseteq Members(b) \ rest[b]
         /\ phase[b] \in {"new", "rejected"} => rest[b] = Members(b)
    /\ \A c \in Calls :
         /\ pc[c] = "idle" <=> c \in rest[BatchOf[c]]
         /\ c \notin rest[BatchOf[c]] \union layer[BatchOf[c]] => pc[c] = "done"
         /\ pc[c] = "done" <=> result[c].status # "none"

\* What a call refers to is in an earlier layer.
Ordered ==
    \A c \in Calls :
        opts[BatchOf[c]].layers /\ c \notin rest[BatchOf[c]] =>
            Deps[c] \intersect (rest[BatchOf[c]] \union layer[BatchOf[c]]) = {}

\* In the layers before the current one nothing failed, unless failures are allowed.
Passed ==
    \A c \in Calls :
        /\ opts[BatchOf[c]].layers
        /\ ~opts[BatchOf[c]].partial
        /\ c \notin rest[BatchOf[c]] \union layer[BatchOf[c]]
        => result[c].status = "ok"

\* A batch that was taken on has no cycle, and ends behind its last layer or
\* behind a failure.
Completing ==
    \A b \in Batches : phase[b] \in {"running", "ended"} =>
        /\ opts[b].layers => ~HasCycle(Deps, Members(b))
        /\ ~opts[b].layers => rest[b] = {}
        /\ phase[b] = "ended" =>
             /\ \A c \in layer[b] : pc[c] = "done"
             /\ \/ rest[b] = {}
                \/ ~opts[b].partial /\ AnyFailed(b)

\* An entry was created when its output was.
CacheSound == \A k \in DOMAIN cache : cache[k].output = cache[k].created

CacheFits == IsFiniteSet(DOMAIN cache) /\ Cardinality(DOMAIN cache) <= MaxSize

IInv ==
    /\ TypeOK
    /\ MayTryAgain
    /\ Structure
    /\ Ordered
    /\ ReferencesCarry
    /\ Passed
    /\ Completing
    /\ CacheSound
    /\ CacheFits

(***************************************************************************)
(* What every step of a call, and every step of a batch, has in common.    *)
(***************************************************************************)
Works(c) ==
    /\ pc[c] \in {"queued", "running", "backoff"}
    /\ UNCHANGED <<request, batchVars>>
    /\ \E p \in {"running", "backoff", "done"}, r \in Results :
         /\ pc' = [pc EXCEPT ![c] = p]
         /\ result' = [result EXCEPT ![c] = r]
         /\ p = "done" => r.status # "none"
         /\ p # "done" => r = result[c]

LEMMA CallFrame == ASSUME TypeOK, NEW c \in Calls, CallStep(c) PROVE Works(c)
<1>1. result[c] \in Results /\ result = [result EXCEPT ![c] = result[c]]
  BY DEF TypeOK
<1>2. ASSUME Hit(c) PROVE Works(c)
  <2>1. cache[Key(c)].output \in Times
    BY <1>2 DEF Hit, TypeOK, Entries
  <2>2. Ok(cache[Key(c)].output, TRUE) \in Results /\ Ok(cache[Key(c)].output, TRUE).status # "none"
    BY <2>1, ResultFacts DEF Ok
  <2> QED BY <1>2, <2>2 DEF Hit, MayEnter, Works
<1>3. ASSUME Miss(c) PROVE Works(c)
  BY <1>1, <1>3 DEF Miss, MayEnter, Works
<1>4. ASSUME Succeed(c) PROVE Works(c)
  <2>1. Ok(now, FALSE) \in Results /\ Ok(now, FALSE).status # "none"
    BY ResultFacts DEF Ok, TypeOK
  <2> QED BY <1>4, <2>1 DEF Succeed, Returns, Works
<1>5. ASSUME Fail(c) PROVE Works(c)
  <2>1. Failure \in Results /\ Failure.status # "none"
    BY ResultFacts DEF Failure
  <2>2. CASE pc' = [pc EXCEPT ![c] = "backoff"] /\ UNCHANGED result
    BY <1>1, <1>5, <2>2 DEF Fail, Returns, Works
  <2>3. CASE pc' = [pc EXCEPT ![c] = "done"] /\ result' = [result EXCEPT ![c] = Failure]
    BY <1>5, <2>1, <2>3 DEF Fail, Returns, Works
  <2> QED BY <1>5, <2>2, <2>3 DEF Fail
<1>6. ASSUME Retry(c) PROVE Works(c)
  BY <1>1, <1>6 DEF Retry, Works
<1> QED BY <1>2, <1>3, <1>4, <1>5, <1>6 DEF CallStep

\* The calls of next are queued; next is empty if the batch ends or is rejected.
Starts(b, next) ==
    /\ next \subseteq rest[b]
    /\ UNCHANGED <<request, cache, tries, result>>
    /\ rest' = [rest EXCEPT ![b] = @ \ next]
    /\ layer' = [layer EXCEPT ![b] = IF next = {} THEN @ ELSE next]
    /\ pc' = [c \in Calls |-> IF c \in next THEN "queued" ELSE pc[c]]
    /\ next # {} =>
         /\ phase' = [phase EXCEPT ![b] = "running"]
         /\ \A d \in layer[b] : pc[d] = "done"
         /\ opts[b].layers /\ ~opts[b].partial => ~AnyFailed(b)
    /\ opts[b].layers =>
         \A c \in next :
             /\ Deps[c] \intersect rest[b] = {}
             /\ args'[c] = [d \in DOMAIN refs[c] |-> Resolved(c, d)]
    /\ \A c \in Calls \ next : args'[c] = args[c]
    /\ \A a \in Batches \ {b} : phase'[a] = phase[a]

LEMMA AdvanceFrame ==
  ASSUME TypeOK, Structure, NEW b \in Batches, Advance(b),
         UNCHANGED <<request, cache, tries, result>>,
         \A d \in layer[b] : pc[d] = "done",
         opts[b].layers /\ ~opts[b].partial => ~AnyFailed(b)
  PROVE  Starts(b, NextLayer(Deps, rest[b]))
<1> DEFINE next == NextLayer(Deps, rest[b])
<1>1. /\ next \subseteq rest[b]
      /\ next \subseteq Calls
      /\ \A c \in next : Deps[c] \intersect rest[b] = {}
  BY DEF NextLayer, TypeOK
<1>2. CASE next = {}
  <2>1. /\ phase' = [phase EXCEPT ![b] = "ended"]
        /\ UNCHANGED <<rest, layer, args, pc>>
    BY <1>2 DEF Advance
  <2> HIDE DEF next
  <2>2. rest' = [rest EXCEPT ![b] = @ \ next] /\ layer' = [layer EXCEPT ![b] = @]
    BY <1>2, <2>1 DEF TypeOK
  <2>3. pc' = [c \in Calls |-> IF c \in next THEN "queued" ELSE pc[c]]
    BY <1>2, <2>1 DEF TypeOK
  <2>4. Starts(b, next)
    BY <1>2, <2>1, <2>2, <2>3 DEF Starts, TypeOK
  <2> QED BY <2>4 DEF next
<1>3. CASE next # {}
  <2>1. /\ phase' = [phase EXCEPT ![b] = "running"]
        /\ StartLayer(b, next)
    BY <1>3 DEF Advance
  <2> HIDE DEF next
  <2>2. \A c \in next : args'[c] = [d \in DOMAIN refs[c] |-> Resolved(c, d)]
    BY <1>1, <2>1 DEF StartLayer
  <2>3. \A c \in Calls \ next : args'[c] = args[c]
    BY <2>1 DEF StartLayer
  <2>4. Starts(b, next)
    BY <1>1, <1>3, <2>1, <2>2, <2>3 DEF Starts, StartLayer, TypeOK
  <2> QED BY <2>4 DEF next
<1> QED BY <1>2, <1>3

LEMMA BatchFrame ==
  ASSUME TypeOK, Structure, NEW b \in Batches, BatchStep(b)
  PROVE  \E next \in SUBSET Calls : Starts(b, next)
<1>0. /\ rest[b] \subseteq Calls
      /\ NextLayer(Deps, rest[b]) \in SUBSET Calls
      /\ phase[b] \in {"new", "rejected"} => layer[b] = {}
      /\ phase[b] \in {"new", "rejected"} => rest[b] = Members(b)
  BY DEF TypeOK, NextLayer, Structure
<1>1. ASSUME SubmitFlat(b) PROVE \E next \in SUBSET Calls : Starts(b, next)
  <2>1. Starts(b, Members(b))
    <3>1. rest[b] = Members(b) /\ layer[b] = {} /\ ~opts[b].layers
      BY <1>0, <1>1 DEF SubmitFlat
    <3>2. rest' = [rest EXCEPT ![b] = @ \ Members(b)]
      BY <1>1, <3>1 DEF SubmitFlat, TypeOK
    <3>3. layer' = [layer EXCEPT ![b] = IF Members(b) = {} THEN @ ELSE Members(b)]
      BY <1>1, <3>1 DEF SubmitFlat, TypeOK
    <3> QED BY <1>1, <3>1, <3>2, <3>3 DEF SubmitFlat, Starts, TypeOK, request
  <2> QED BY <1>0, <1>1, <2>1 DEF SubmitFlat
<1>2. ASSUME SubmitLayers(b) PROVE \E next \in SUBSET Calls : Starts(b, next)
  <2>1. layer[b] = {} /\ ~AnyFailed(b)
    BY <1>0, <1>2 DEF SubmitLayers, AnyFailed
  <2>2. Starts(b, NextLayer(Deps, rest[b]))
    BY <1>2, <2>1, AdvanceFrame DEF SubmitLayers
  <2> QED BY <1>0, <2>2
<1>3. ASSUME Reject(b) PROVE \E next \in SUBSET Calls : Starts(b, next)
  <2>1. Starts(b, {})
    <3>1. /\ rest' = [rest EXCEPT ![b] = @ \ {}]
          /\ layer' = [layer EXCEPT ![b] = @]
          /\ pc' = [c \in Calls |-> pc[c]]
      BY <1>3 DEF Reject, TypeOK, callVars
    <3> QED BY <1>3, <3>1 DEF Reject, Starts, TypeOK, callVars
  <2> QED BY <2>1
<1>4. ASSUME EndLayer(b) PROVE \E next \in SUBSET Calls : Starts(b, next)
  <2>1. \A d \in layer[b] : pc[d] = "done"
    BY <1>4 DEF EndLayer, LayerIsDone
  <2>2. CASE Advance(b) /\ (opts[b].partial \/ ~AnyFailed(b))
    <3>1. UNCHANGED <<request, cache, tries, result>>
      BY <1>4 DEF EndLayer
    <3>2. Starts(b, NextLayer(Deps, rest[b]))
      BY <2>1, <2>2, <3>1, AdvanceFrame
    <3> QED BY <1>0, <3>2
  <2>3. CASE ~(Advance(b) /\ (opts[b].partial \/ ~AnyFailed(b)))
    <3>1. /\ phase' = [phase EXCEPT ![b] = "ended"]
          /\ UNCHANGED <<rest, layer, args, pc>>
      BY <1>4, <2>3 DEF EndLayer
    <3>2. /\ rest' = [rest EXCEPT ![b] = @ \ {}]
          /\ layer' = [layer EXCEPT ![b] = @]
          /\ pc' = [c \in Calls |-> pc[c]]
      BY <3>1 DEF TypeOK
    <3>3. Starts(b, {})
      BY <1>4, <3>1, <3>2 DEF EndLayer, Starts, TypeOK
    <3> QED BY <3>3
  <2> QED BY <2>2, <2>3
<1> QED BY <1>1, <1>2, <1>3, <1>4 DEF BatchStep

-----------------------------------------------------------------------------
(***************************************************************************)
(* Initial states.                                                         *)
(***************************************************************************)
LEMMA InitInv == Init => IInv
<1> SUFFICES ASSUME Init PROVE IInv
  OBVIOUS
<1> USE CallsAssumption, BoundsAssumption
<1>1. TypeOK
  BY TypeInit
<1>2. MayTryAgain
  BY DEF Init, MayTryAgain
<1>3. Structure
  BY DEF Init, Structure, Members, NoResult
<1>4. Ordered /\ ReferencesCarry /\ Passed
  BY DEF Init, Ordered, ReferencesCarry, Begun, Passed, Members
<1>5. Completing
  BY DEF Init, Completing
<1>6. DOMAIN cache = {}
  BY DEF Init
<1>7. CacheSound
  BY <1>6 DEF CacheSound
<1>8. CacheFits
  BY <1>6, FS_EmptySet DEF CacheFits
<1> QED BY <1>1, <1>2, <1>3, <1>4, <1>5, <1>7, <1>8 DEF IInv

(***************************************************************************)
(* Steps of calls.                                                         *)
(***************************************************************************)
LEMMA DepsSame == refs' = refs => Deps' = Deps
  BY DEF Deps

LEMMA WorksFacts ==
  ASSUME TypeOK, Structure, NEW c \in Calls, Works(c)
  PROVE  /\ c \in layer[BatchOf[c]]
         /\ c \notin rest[BatchOf[c]]
         /\ pc' \in [Calls -> {"idle", "queued", "running", "backoff", "done"}]
         /\ pc'[c] # "idle"
         /\ pc'[c] = "done" <=> result'[c].status # "none"
         /\ \A d \in Calls \ {c} : pc'[d] = pc[d] /\ result'[d] = result[d]
         /\ Deps' = Deps
         /\ UNCHANGED <<refs, opts, phase, rest, layer, args>>
<1>1. PICK p \in {"running", "backoff", "done"}, r \in Results :
        /\ pc' = [pc EXCEPT ![c] = p]
        /\ result' = [result EXCEPT ![c] = r]
        /\ p = "done" => r.status # "none"
        /\ p # "done" => r = result[c]
  BY DEF Works
<1>2. pc'[c] = p /\ result'[c] = r
  BY <1>1 DEF TypeOK
<1>3. p = "done" <=> r.status # "none"
  BY <1>1 DEF Works, Structure
<1>4. c \in layer[BatchOf[c]] /\ c \notin rest[BatchOf[c]]
  BY DEF Works, Structure
<1>5. \A d \in Calls \ {c} : pc'[d] = pc[d] /\ result'[d] = result[d]
  BY <1>1 DEF TypeOK
<1>6. UNCHANGED <<refs, opts, phase, rest, layer, args>>
  BY DEF Works, request, batchVars
<1>7. pc' \in [Calls -> {"idle", "queued", "running", "backoff", "done"}]
  BY <1>1 DEF TypeOK
<1> QED BY <1>2, <1>3, <1>4, <1>5, <1>6, <1>7, DepsSame

LEMMA WorksInv ==
  ASSUME IInv, NEW c \in Calls, Works(c)
  PROVE  Structure' /\ Ordered' /\ ReferencesCarry' /\ Passed' /\ Completing'
<1> USE CallsAssumption
<1>1. /\ c \in layer[BatchOf[c]]
      /\ c \notin rest[BatchOf[c]]
      /\ pc'[c] # "idle"
      /\ pc'[c] = "done" <=> result'[c].status # "none"
      /\ \A d \in Calls \ {c} : pc'[d] = pc[d] /\ result'[d] = result[d]
      /\ Deps' = Deps
      /\ UNCHANGED <<refs, opts, phase, rest, layer, args>>
  BY WorksFacts DEF IInv
<1>2. pc[c] \notin {"idle", "done"}
  BY DEF Works
<1>3. Structure'
  BY <1>1, <1>2 DEF IInv, Structure, Members
<1>4. Ordered'
  BY <1>1 DEF IInv, Ordered
<1>5. ReferencesCarry'
  <2> SUFFICES ASSUME NEW e \in Calls, Begun(e)', opts[BatchOf[e]].layers, NEW d \in Deps[e]
               PROVE  (LET attribute == refs[e][d] IN
                       args[e][d] =
                         CASE attribute = "output" /\ result[d].status = "ok" -> result[d].output
                           [] attribute = "error" /\ result[d].status = "ok" -> NoError
                           [] attribute = "error" /\ result[d].status = "failed" -> ErrorText
                           [] OTHER -> Literal(attribute))'
    BY <1>1 DEF ReferencesCarry
  <2>1. Begun(e)
    BY <1>1, <1>2 DEF Begun
  <2>2. d \in Calls
    BY DEF Deps, Members
  <2>3. d # c
    <3>1. e \notin rest[BatchOf[e]]
      BY <2>1 DEF Begun, IInv, Structure
    <3>2. d \notin layer[BatchOf[e]] /\ BatchOf[d] = BatchOf[e]
      BY <3>1 DEF IInv, Ordered, Deps, Members
    <3> QED BY <1>1, <3>2
  <2>4. result'[d] = result[d]
    BY <1>1, <2>2, <2>3
  <2> QED BY <1>1, <2>1, <2>4 DEF IInv, ReferencesCarry
<1>6. Passed'
  BY <1>1 DEF IInv, Passed
<1>7. Completing'
  <2> SUFFICES ASSUME NEW b \in Batches, phase[b] \in {"running", "ended"}
               PROVE  /\ opts[b].layers => ~HasCycle(Deps, Members(b))
                      /\ ~opts[b].layers => rest[b] = {}
                      /\ phase[b] = "ended" =>
                           /\ \A d \in layer[b] : pc'[d] = "done"
                           /\ \/ rest[b] = {}
                              \/ ~opts[b].partial /\ AnyFailed(b)'
    BY <1>1 DEF Completing, HasCycle, Members
  <2>1. CASE phase[b] # "ended"
    BY <2>1 DEF IInv, Completing
  <2>2. CASE phase[b] = "ended"
    <3>1. layer[b] \subseteq Calls /\ c \notin layer[b]
      BY <1>2, <2>2 DEF IInv, Completing, TypeOK
    <3>2. \A d \in layer[b] : pc'[d] = pc[d] /\ result'[d] = result[d]
      BY <1>1, <3>1
    <3>3. AnyFailed(b) => AnyFailed(b)'
      BY <1>1, <3>2 DEF AnyFailed
    <3> QED BY <3>2, <3>3 DEF IInv, Completing
  <2> QED BY <2>1, <2>2
<1> QED BY <1>3, <1>4, <1>5, <1>6, <1>7

(***************************************************************************)
(* Steps of batches.                                                       *)
(***************************************************************************)
LEMMA StartsFacts ==
  ASSUME TypeOK, NEW b \in Batches, NEW next \in SUBSET Calls, Starts(b, next)
  PROVE  /\ UNCHANGED <<refs, opts, cache, tries, result>>
         /\ Deps' = Deps
         /\ rest'[b] = rest[b] \ next
         /\ layer'[b] = IF next = {} THEN layer[b] ELSE next
         /\ \A a \in Batches \ {b} : rest'[a] = rest[a] /\ layer'[a] = layer[a]
         /\ \A c \in next : pc'[c] = "queued"
         /\ \A c \in Calls \ next : pc'[c] = pc[c] /\ args'[c] = args[c]
  BY DepsSame DEF Starts, TypeOK, request

LEMMA StartsInv ==
  ASSUME IInv, NEW b \in Batches, NEW next \in SUBSET Calls, Starts(b, next),
         phase'[b] \in {"new", "rejected"} => next = {} /\ phase[b] \in {"new", "rejected"}
  PROVE  Structure' /\ Ordered' /\ ReferencesCarry' /\ Passed'
<1> USE CallsAssumption
<1>1. /\ UNCHANGED <<refs, opts, cache, tries, result>>
      /\ Deps' = Deps
      /\ rest'[b] = rest[b] \ next
      /\ layer'[b] = IF next = {} THEN layer[b] ELSE next
      /\ \A a \in Batches \ {b} : rest'[a] = rest[a] /\ layer'[a] = layer[a]
      /\ \A c \in next : pc'[c] = "queued"
      /\ \A c \in Calls \ next : pc'[c] = pc[c] /\ args'[c] = args[c]
  BY StartsFacts DEF IInv
<1>2. /\ next \subseteq rest[b]
      /\ rest[b] \subseteq Members(b)
      /\ layer[b] \subseteq Members(b) \ rest[b]
      /\ next # {} => \A d \in layer[b] : pc[d] = "done"
  BY DEF Starts, IInv, Structure
<1>3. \A c \in next : BatchOf[c] = b /\ pc[c] = "idle"
  BY <1>2 DEF Members, IInv, Structure
<1>4. Structure'
  <2>1. ASSUME NEW a \in Batches
        PROVE  /\ rest'[a] \subseteq Members(a)
               /\ layer'[a] \subseteq Members(a) \ rest'[a]
               /\ phase'[a] \in {"new", "rejected"} => rest'[a] = Members(a)
    <3>0. /\ rest[a] \subseteq Members(a)
          /\ layer[a] \subseteq Members(a) \ rest[a]
          /\ phase[a] \in {"new", "rejected"} => rest[a] = Members(a)
      BY DEF IInv, Structure
    <3>1. CASE a = b /\ next = {}
      BY <1>1, <3>0, <3>1
    <3>2. CASE a = b /\ next # {}
      BY <1>1, <1>2, <3>0, <3>2
    <3>3. CASE a # b
      <4>1. phase'[a] = phase[a]
        BY <3>3 DEF Starts
      <4> QED BY <1>1, <3>0, <3>3, <4>1
    <3> QED BY <3>1, <3>2, <3>3
  <2>2. ASSUME NEW c \in Calls
        PROVE  /\ pc'[c] = "idle" <=> c \in rest'[BatchOf[c]]
               /\ c \notin rest'[BatchOf[c]] \union layer'[BatchOf[c]] => pc'[c] = "done"
               /\ pc'[c] = "done" <=> result'[c].status # "none"
    <3>0. /\ pc[c] = "idle" <=> c \in rest[BatchOf[c]]
          /\ c \notin rest[BatchOf[c]] \union layer[BatchOf[c]] => pc[c] = "done"
          /\ pc[c] = "done" <=> result[c].status # "none"
      BY DEF IInv, Structure
    <3>1. CASE c \in next
      <4>1. pc'[c] = "queued" /\ pc[c] = "idle" /\ BatchOf[c] = b
        BY <1>1, <1>3, <3>1
      <4>2. c \notin rest'[b] /\ c \in layer'[b]
        BY <1>1, <3>1
      <4>3. result'[c] = result[c]
        BY <1>1
      <4> QED BY <3>0, <4>1, <4>2, <4>3
    <3>2. CASE c \notin next /\ BatchOf[c] = b
      <4>1. pc'[c] = pc[c] /\ result'[c] = result[c]
        BY <1>1, <3>2
      <4>2. c \in rest'[b] <=> c \in rest[b]
        BY <1>1, <3>2
      <4>3. c \notin rest'[b] \union layer'[b] => pc[c] = "done"
        BY <1>1, <1>2, <3>0, <3>2, <4>2
      <4> QED BY <3>0, <3>2, <4>1, <4>2, <4>3
    <3>3. CASE BatchOf[c] # b
      <4>1. c \notin next
        BY <1>3, <3>3
      <4>2. BatchOf[c] \in Batches \ {b}
        BY <3>3
      <4>3. pc'[c] = pc[c] /\ result' = result
        BY <1>1, <4>1
      <4>4. /\ rest'[BatchOf[c]] = rest[BatchOf[c]]
            /\ layer'[BatchOf[c]] = layer[BatchOf[c]]
        BY <1>1, <4>2
      <4> QED BY <3>0, <4>3, <4>4
    <3> QED BY <3>1, <3>2, <3>3
  <2> QED BY <2>1, <2>2 DEF Structure, Members
<1>5. Ordered'
  <2> SUFFICES ASSUME NEW c \in Calls, opts[BatchOf[c]].layers, c \notin rest'[BatchOf[c]]
               PROVE  Deps[c] \intersect (rest'[BatchOf[c]] \union layer'[BatchOf[c]]) = {}
    BY <1>1 DEF Ordered
  <2>1. CASE c \in next
    <3>1. Deps[c] \intersect rest[b] = {}
      BY <1>3, <2>1 DEF Starts
    <3> QED BY <1>1, <1>2, <1>3, <2>1, <3>1
  <2>2. CASE c \notin next /\ BatchOf[c] = b
    BY <1>1, <1>2, <2>2 DEF IInv, Ordered
  <2>3. CASE BatchOf[c] # b
    <3>1. BatchOf[c] \in Batches \ {b}
      BY <2>3
    <3> QED BY <1>1, <3>1 DEF IInv, Ordered
  <2> QED BY <1>3, <2>1, <2>2, <2>3
<1>6. ReferencesCarry'
  <2> SUFFICES ASSUME NEW c \in Calls, Begun(c)', opts[BatchOf[c]].layers, NEW d \in Deps[c]
               PROVE  args'[c][d] =
                        CASE refs[c][d] = "output" /\ result[d].status = "ok" -> result[d].output
                          [] refs[c][d] = "error" /\ result[d].status = "ok" -> NoError
                          [] refs[c][d] = "error" /\ result[d].status = "failed" -> ErrorText
                          [] OTHER -> Literal(refs[c][d])
    BY <1>1 DEF ReferencesCarry
  <2>1. CASE c \notin next
    <3>1. Begun(c) /\ args'[c] = args[c]
      BY <1>1, <2>1 DEF Begun
    <3> QED BY <3>1 DEF IInv, ReferencesCarry
  <2>2. CASE c \in next
    <3>1. BatchOf[c] = b /\ Deps[c] \intersect rest[b] = {}
      BY <1>3, <2>2 DEF Starts
    <3>2. d \in Members(b) \ rest[b] /\ d \in DOMAIN refs[c]
      BY <3>1 DEF Deps
    <3>3. d \in Calls /\ BatchOf[d] = b
      BY <3>2 DEF Members
    <3>4. pc[d] = "done"
      BY <1>2, <2>2, <3>2, <3>3 DEF IInv, Structure
    <3>5. result[d].status \in {"ok", "failed"}
      <4>1. result[d] \in Results /\ result[d].status # "none"
        BY <3>3, <3>4 DEF IInv, Structure, TypeOK
      <4> QED BY <4>1 DEF Results, NoResult, Failure, Ok
    <3>6. args'[c][d] = Resolved(c, d)
      <4>1. args'[c] = [e \in DOMAIN refs[c] |-> Resolved(c, e)]
        BY <2>2, <3>1 DEF Starts
      <4> QED BY <3>2, <4>1
    <3>7. Resolved(c, d) =
            IF refs[c][d] = "output" /\ result[d].status = "ok" THEN result[d].output
            ELSE IF refs[c][d] = "error"
            THEN IF result[d].status = "ok" THEN NoError ELSE ErrorText
            ELSE Literal(refs[c][d])
      BY <3>1, <3>2 DEF Resolved, Previous
    <3> QED BY <3>5, <3>6, <3>7
  <2> QED BY <2>1, <2>2
<1>7. Passed'
  <2> SUFFICES ASSUME NEW c \in Calls,
                      opts[BatchOf[c]].layers, ~opts[BatchOf[c]].partial,
                      c \notin rest'[BatchOf[c]] \union layer'[BatchOf[c]]
               PROVE  result[c].status = "ok"
    BY <1>1 DEF Passed
  <2>1. CASE BatchOf[c] # b \/ next = {}
    <3>1. c \notin rest[BatchOf[c]] \union layer[BatchOf[c]]
      BY <1>1, <2>1
    <3> QED BY <3>1 DEF IInv, Passed
  <2>2. CASE BatchOf[c] = b /\ next # {}
    <3>1. c \notin rest[b]
      BY <1>1, <2>2
    <3>2. CASE c \notin layer[b]
      BY <2>2, <3>1, <3>2 DEF IInv, Passed
    <3>3. CASE c \in layer[b]
      <4>1. pc[c] = "done" /\ result[c].status # "failed"
        BY <1>2, <2>2, <3>3 DEF Starts, AnyFailed
      <4>2. result[c] \in Results /\ result[c].status # "none"
        BY <4>1 DEF IInv, Structure, TypeOK
      <4> QED BY <4>1, <4>2 DEF Results, NoResult, Failure, Ok
    <3> QED BY <3>2, <3>3
  <2> QED BY <2>1, <2>2
<1> QED BY <1>4, <1>5, <1>6, <1>7

LEMMA StartsCompleting ==
  ASSUME IInv, NEW b \in Batches, NEW next \in SUBSET Calls, Starts(b, next),
         phase'[b] \in {"running", "ended"} =>
             /\ opts[b].layers => ~HasCycle(Deps, Members(b))
             /\ ~opts[b].layers => rest'[b] = {},
         phase'[b] = "ended" =>
             /\ next = {}
             /\ \A c \in layer[b] : pc[c] = "done"
             /\ \/ rest[b] = {}
                \/ ~opts[b].partial /\ AnyFailed(b)
  PROVE  Completing'
<1> USE CallsAssumption
<1>1. /\ UNCHANGED <<refs, opts, cache, tries, result>>
      /\ Deps' = Deps
      /\ rest'[b] = rest[b] \ next
      /\ layer'[b] = IF next = {} THEN layer[b] ELSE next
      /\ \A a \in Batches \ {b} : rest'[a] = rest[a] /\ layer'[a] = layer[a]
      /\ \A c \in next : pc'[c] = "queued"
      /\ \A c \in Calls \ next : pc'[c] = pc[c] /\ args'[c] = args[c]
  BY StartsFacts DEF IInv
<1> SUFFICES ASSUME NEW a \in Batches, phase'[a] \in {"running", "ended"}
             PROVE  /\ opts[a].layers => ~HasCycle(Deps, Members(a))
                    /\ ~opts[a].layers => rest'[a] = {}
                    /\ phase'[a] = "ended" =>
                         /\ \A c \in layer'[a] : pc'[c] = "done"
                         /\ \/ rest'[a] = {}
                            \/ ~opts[a].partial /\ AnyFailed(a)'
  BY <1>1 DEF Completing, HasCycle, Members
<1>2. layer[a] \subseteq Calls /\ rest[a] \subseteq Calls
  BY DEF IInv, TypeOK
<1>3. CASE a = b
  <2>1. CASE phase'[b] = "ended"
    <3>1. layer'[b] = layer[b] /\ rest'[b] = rest[b] /\ (\A c \in Calls : pc'[c] = pc[c])
      BY <1>1, <2>1
    <3>2. AnyFailed(b) => AnyFailed(b)'
      BY <1>1, <3>1 DEF AnyFailed
    <3> QED BY <1>2, <1>3, <2>1, <3>1, <3>2
  <2>2. CASE phase'[b] # "ended"
    BY <1>3, <2>2
  <2> QED BY <2>1, <2>2
<1>4. CASE a # b
  <2>1. phase'[a] = phase[a] /\ rest'[a] = rest[a] /\ layer'[a] = layer[a]
    BY <1>1, <1>4 DEF Starts
  <2>2. AnyFailed(a) => AnyFailed(a)'
    BY <1>1, <2>1 DEF AnyFailed
  <2>3. \A c \in layer[a] : pc'[c] = pc[c]
    <3>1. \A c \in layer[a] : c \notin next
      BY <1>4 DEF Starts, IInv, Structure, Members
    <3> QED BY <1>1, <1>2, <3>1
  <2> QED BY <2>1, <2>2, <2>3 DEF IInv, Completing
<1> QED BY <1>3, <1>4

\* A batch without a cycle whose next layer is empty has had all its layers.
LEMMA AcyclicEnds ==
  ASSUME NEW b \in Batches, rest[b] \subseteq Members(b),
         ~HasCycle(Deps, Members(b)), NextLayer(Deps, rest[b]) = {}
  PROVE  rest[b] = {}
<1> SUFFICES ASSUME rest[b] # {} PROVE FALSE
  OBVIOUS
<1>1. rest[b] \in (SUBSET Members(b)) \ {{}}
  OBVIOUS
<1>2. \A c \in rest[b] : Deps[c] \intersect rest[b] # {}
  BY DEF NextLayer
<1> QED BY <1>1, <1>2 DEF HasCycle

LEMMA BatchInv ==
  ASSUME IInv, NEW b \in Batches, BatchStep(b)
  PROVE  /\ Structure' /\ Ordered' /\ ReferencesCarry' /\ Passed' /\ Completing'
         /\ MayTryAgain'
         /\ UNCHANGED cache
<1> USE CallsAssumption
<1>1. PICK next \in SUBSET Calls : Starts(b, next)
  BY BatchFrame DEF IInv
<1>2. /\ UNCHANGED <<refs, opts, cache, tries, result>>
      /\ rest'[b] = rest[b] \ next
      /\ \A c \in next : pc'[c] = "queued"
      /\ \A c \in Calls \ next : pc'[c] = pc[c]
  BY <1>1, StartsFacts DEF IInv
<1>3. b \in DOMAIN phase
  BY DEF IInv, TypeOK
<1>4. phase'[b] # "running" => next = {}
  BY <1>1, <1>3 DEF Starts
<1>5. /\ rest[b] \subseteq Members(b)
      /\ phase[b] \in {"new", "rejected"} => layer[b] = {}
  BY DEF IInv, Structure
<1>6. /\ phase'[b] \in {"new", "rejected"} => phase[b] \in {"new", "rejected"}
      /\ phase'[b] \in {"running", "ended"} =>
           /\ opts[b].layers => ~HasCycle(Deps, Members(b))
           /\ ~opts[b].layers => rest'[b] = {}
      /\ phase'[b] = "ended" =>
           /\ \A c \in layer[b] : pc[c] = "done"
           /\ \/ rest[b] = {}
              \/ ~opts[b].partial /\ AnyFailed(b)
  <2>1. ASSUME Advance(b)
        PROVE  phase'[b] = "running" \/ (phase'[b] = "ended" /\ NextLayer(Deps, rest[b]) = {})
    BY <1>3, <2>1 DEF Advance
  <2>2. CASE SubmitFlat(b)
    <3>1. phase'[b] = "running" /\ rest'[b] = {} /\ ~opts[b].layers
      BY <1>3, <2>2 DEF SubmitFlat, IInv, TypeOK
    <3> QED BY <3>1
  <2>3. CASE SubmitLayers(b)
    <3>1. /\ phase[b] = "new" /\ opts[b].layers /\ ~HasCycle(Deps, Members(b))
          /\ Advance(b)
      BY <2>3 DEF SubmitLayers
    <3>2. phase'[b] = "ended" => rest[b] = {}
      BY <1>5, <2>1, <3>1, AcyclicEnds
    <3> QED BY <1>5, <2>1, <3>1, <3>2
  <2>4. CASE Reject(b)
    <3>1. phase'[b] = "rejected" /\ phase[b] = "new"
      BY <1>3, <2>4 DEF Reject
    <3> QED BY <3>1
  <2>5. CASE EndLayer(b)
    <3>1. phase[b] = "running" /\ \A c \in layer[b] : pc[c] = "done"
      BY <2>5 DEF EndLayer, LayerIsDone
    <3>2. /\ opts[b].layers => ~HasCycle(Deps, Members(b))
          /\ ~opts[b].layers => rest[b] = {}
      BY <3>1 DEF IInv, Completing
    <3>3. NextLayer(Deps, rest[b]) = {} => rest[b] = {}
      BY <1>5, <3>2, AcyclicEnds
    <3>4. CASE Advance(b)
      BY <1>2, <2>1, <3>1, <3>2, <3>3, <3>4
    <3>5. CASE ~Advance(b)
      <4>1. ~opts[b].partial /\ AnyFailed(b) /\ phase' = [phase EXCEPT ![b] = "ended"]
        BY <2>5, <3>5 DEF EndLayer
      <4>2. phase'[b] = "ended"
        BY <1>3, <4>1
      <4> QED BY <1>2, <3>1, <3>2, <4>1, <4>2
    <3> QED BY <3>4, <3>5
  <2> QED BY <2>2, <2>3, <2>4, <2>5 DEF BatchStep
<1>7. Structure' /\ Ordered' /\ ReferencesCarry' /\ Passed'
  BY <1>1, <1>4, <1>6, StartsInv
<1>8. Completing'
  BY <1>1, <1>4, <1>6, StartsCompleting
<1>9. MayTryAgain'
  BY <1>2 DEF IInv, MayTryAgain
<1> QED BY <1>2, <1>7, <1>8, <1>9
-----------------------------------------------------------------------------
(***************************************************************************)
(* The cache.                                                              *)
(***************************************************************************)
LEMMA StoreInv ==
  ASSUME TypeOK, CacheSound, CacheFits, NEW k \in Keys, Store(k)
  PROVE  CacheSound' /\ CacheFits'
<1> USE BoundsAssumption
<1> DEFINE D == DOMAIN cache
<1>1. PICK gone \in IF FullFor(k) THEN {{e} : e \in Evictable} ELSE {{}} :
        cache' = [j \in (D \ gone) \union {k} |->
                    IF j = k THEN [output |-> now, created |-> now, accessed |-> 0]
                    ELSE cache[j]]
  BY DEF Store
<1>2. DOMAIN cache' = (D \ gone) \union {k}
  BY <1>1
<1>3. CacheSound'
  BY <1>1 DEF CacheSound
<1>4. IsFiniteSet(D) /\ Cardinality(D) \in Nat /\ Cardinality(D) <= MaxSize
  BY FS_CardinalityType DEF CacheFits
<1>5. CASE FullFor(k)
  <2>1. PICK e \in Evictable : gone = {e}
    BY <1>1, <1>5
  <2>2. e \in D /\ k \notin D
    BY <1>5, <2>1 DEF Evictable, FullFor
  <2>3. IsFiniteSet(D \ {e}) /\ Cardinality(D \ {e}) = Cardinality(D) - 1
    BY <1>4, <2>2, FS_RemoveElement
  <2>4. /\ IsFiniteSet((D \ {e}) \union {k})
        /\ Cardinality((D \ {e}) \union {k}) = Cardinality(D \ {e}) + 1
    BY <2>2, <2>3, FS_AddElement
  <2> QED BY <1>2, <1>3, <1>4, <2>1, <2>3, <2>4 DEF CacheFits
<1>6. CASE ~FullFor(k) /\ k \in D
  <2>1. DOMAIN cache' = D
    BY <1>1, <1>2, <1>6
  <2> QED BY <1>3, <1>4, <2>1 DEF CacheFits
<1>7. CASE ~FullFor(k) /\ k \notin D
  <2>1. DOMAIN cache' = D \union {k}
    BY <1>1, <1>2, <1>7
  <2>2. Cardinality(D) < MaxSize
    BY <1>4, <1>7 DEF FullFor
  <2>3. IsFiniteSet(D \union {k}) /\ Cardinality(D \union {k}) = Cardinality(D) + 1
    BY <1>4, <1>7, FS_AddElement
  <2> QED BY <1>3, <1>4, <2>1, <2>2, <2>3 DEF CacheFits
<1> QED BY <1>5, <1>6, <1>7

LEMMA CallInv ==
  ASSUME IInv, NEW c \in Calls, CallStep(c)
  PROVE  CacheSound' /\ CacheFits' /\ MayTryAgain'
<1>0. /\ c \in DOMAIN pc /\ c \in DOMAIN tries
      /\ pc \in [Calls -> {"idle", "queued", "running", "backoff", "done"}]
      /\ tries \in [Calls -> 0 .. Retries + 1]
      /\ TypeOK /\ CacheSound /\ CacheFits /\ MayTryAgain
  BY DEF IInv, TypeOK
<1>1. CASE Hit(c)
  <2>1. /\ DOMAIN cache' = DOMAIN cache
        /\ \A k \in DOMAIN cache : /\ cache'[k].output = cache[k].output
                                   /\ cache'[k].created = cache[k].created
    BY <1>0, <1>1 DEF Hit, Touch, TypeOK, Entries
  <2>2. pc' = [pc EXCEPT ![c] = "done"] /\ UNCHANGED tries
    BY <1>1 DEF Hit
  <2> QED BY <1>0, <2>1, <2>2 DEF CacheSound, CacheFits, MayTryAgain
<1>2. CASE Miss(c)
  <2>1. /\ DOMAIN cache' \subseteq DOMAIN cache
        /\ \A k \in DOMAIN cache' : cache'[k] = cache[k]
    BY <1>2 DEF Miss, Without
  <2>2. /\ IsFiniteSet(DOMAIN cache')
        /\ Cardinality(DOMAIN cache') <= Cardinality(DOMAIN cache)
    BY <1>0, <2>1, FS_Subset DEF CacheFits
  <2>3. /\ Cardinality(DOMAIN cache) \in Nat
        /\ Cardinality(DOMAIN cache') \in Nat
    BY <1>0, <2>2, FS_CardinalityType DEF CacheFits
  <2>4. CacheFits'
    BY <1>0, <2>2, <2>3, BoundsAssumption DEF CacheFits
  <2>5. pc' = [pc EXCEPT ![c] = "running"] /\ tries' = [tries EXCEPT ![c] = 1]
    BY <1>2 DEF Miss
  <2> QED BY <1>0, <2>1, <2>4, <2>5 DEF CacheSound, MayTryAgain
<1>3. CASE Succeed(c)
  <2>1. CacheSound' /\ CacheFits'
    BY <1>0, <1>3, KeyType, StoreInv DEF Succeed
  <2>2. pc' = [pc EXCEPT ![c] = "done"] /\ UNCHANGED tries
    BY <1>3 DEF Succeed
  <2> QED BY <1>0, <2>1, <2>2 DEF MayTryAgain
<1>4. CASE Fail(c)
  <2>1. UNCHANGED <<cache, tries>>
    BY <1>4 DEF Fail
  <2>2. \/ pc' = [pc EXCEPT ![c] = "backoff"] /\ tries[c] <= Retries
        \/ pc' = [pc EXCEPT ![c] = "done"]
    BY <1>4 DEF Fail, MayRetry
  <2> QED BY <1>0, <2>1, <2>2 DEF CacheSound, CacheFits, MayTryAgain
<1>5. CASE Retry(c)
  <2>1. UNCHANGED cache
    BY <1>5 DEF Retry
  <2>2. pc' = [pc EXCEPT ![c] = "running"] /\ tries' = [tries EXCEPT ![c] = @ + 1]
    BY <1>5 DEF Retry
  <2> QED BY <1>0, <2>1, <2>2 DEF CacheSound, CacheFits, MayTryAgain
<1> QED BY <1>1, <1>2, <1>3, <1>4, <1>5 DEF CallStep
-----------------------------------------------------------------------------
LEMMA NextInv == IInv /\ [Next]_vars => IInv'
<1> SUFFICES ASSUME IInv, [Next]_vars PROVE IInv'
  OBVIOUS
<1>1. TypeOK'
  BY TypeStep DEF IInv
<1>2. ASSUME NEW c \in Calls, CallStep(c) PROVE IInv'
  <2>1. Works(c)
    BY <1>2, CallFrame DEF IInv
  <2> QED BY <1>1, <1>2, <2>1, WorksInv, CallInv DEF IInv
<1>3. ASSUME NEW b \in Batches, BatchStep(b) PROVE IInv'
  <2>1. CacheSound' /\ CacheFits'
    BY <1>3, BatchInv DEF IInv, CacheSound, CacheFits
  <2> QED BY <1>1, <1>3, <2>1, BatchInv DEF IInv
<1>4. ASSUME UNCHANGED <<cache, request, batchVars, callVars>> PROVE IInv'
  <2>1. UNCHANGED <<cache, refs, opts, phase, rest, layer, args, pc, tries, result>>
    BY <1>4 DEF request, batchVars, callVars
  <2>2. Deps' = Deps
    BY <2>1, DepsSame
  <2>3. MayTryAgain' /\ Structure' /\ Passed' /\ CacheSound' /\ CacheFits'
    BY <2>1 DEF IInv, MayTryAgain, Structure, Members, Passed, CacheSound, CacheFits
  <2>4. Ordered' /\ ReferencesCarry'
    BY <2>1, <2>2 DEF IInv, Ordered, ReferencesCarry, Begun
  <2>5. Completing'
    BY <2>1, <2>2 DEF IInv, Completing, HasCycle, Members, AnyFailed
  <2> QED BY <1>1, <2>3, <2>4, <2>5 DEF IInv
<1>5. Tick \/ UNCHANGED vars => UNCHANGED <<cache, request, batchVars, callVars>>
  BY DEF Tick, vars
<1> QED BY <1>2, <1>3, <1>4, <1>5 DEF Next

\* The inductive invariant holds.
LEMMA Invariance == Spec => []IInv
<1> QED BY InitInv, NextInv, PTL DEF Spec
-----------------------------------------------------------------------------
(***************************************************************************)
(* Theorems.                                                               *)
(***************************************************************************)

\* Every variable stays in its set; no call makes more than retry_count + 1 tries.
THEOREM TypeCorrect == Spec => []TypeOK
<1>1. IInv => TypeOK
  BY DEF IInv
<1> QED BY <1>1, Invariance, PTL

\* No call is queued before all it refers to have their results.
THEOREM LayersAreInOrder == Spec => []DependenciesFirst
<1>1. IInv => DependenciesFirst
  <2> SUFFICES ASSUME IInv, NEW c \in Calls, Begun(c), opts[BatchOf[c]].layers, NEW d \in Deps[c]
               PROVE  pc[d] = "done"
    BY DEF DependenciesFirst
  <2>1. c \notin rest[BatchOf[c]]
    BY DEF IInv, Structure, Begun
  <2>2. d \in Calls /\ BatchOf[d] = BatchOf[c]
    BY DEF Deps, Members
  <2>3. d \notin rest[BatchOf[d]] \union layer[BatchOf[d]]
    BY <2>1, <2>2 DEF IInv, Ordered
  <2> QED BY <2>2, <2>3 DEF IInv, Structure
<1> QED BY <1>1, Invariance, PTL

\* References to outputs and errors carry the results of the calls they name.
THEOREM ReferencesHold == Spec => []ReferencesCarry
<1>1. IInv => ReferencesCarry
  BY DEF IInv
<1> QED BY <1>1, Invariance, PTL

\* Without allow_partial_failure no layer begins behind one with a failure.
THEOREM FailuresStop == Spec => []FailureStopsLaterLayers
<1>1. IInv => FailureStopsLaterLayers
  <2> SUFFICES ASSUME IInv, NEW c \in Calls, NEW d \in Calls,
                      BatchOf[c] = BatchOf[d], opts[BatchOf[c]].layers,
                      ~opts[BatchOf[c]].partial, result[c].status = "failed", Begun(d)
               PROVE  /\ c \in layer[BatchOf[c]]
                      /\ d \in layer[BatchOf[c]] \/ result[d].status = "ok"
    BY DEF FailureStopsLaterLayers
  <2>1. pc[c] = "done" /\ c \notin rest[BatchOf[c]]
    BY DEF IInv, Structure
  <2>2. d \notin rest[BatchOf[d]]
    BY DEF IInv, Structure, Begun
  <2> QED BY <2>1, <2>2 DEF IInv, Passed
<1> QED BY <1>1, Invariance, PTL

\* A batch that ends has all its results unless a failure stopped it; one that is
\* rejected has run nothing.
THEOREM BatchesComplete == Spec => []EndedIsComplete
<1>1. IInv => EndedIsComplete
  <2> SUFFICES ASSUME IInv, NEW b \in Batches
               PROVE  /\ phase[b] = "ended" =>
                           \/ \A c \in Members(b) : result[c].status # "none"
                           \/ /\ ~opts[b].partial
                              /\ \E c \in Members(b) : result[c].status = "failed"
                      /\ phase[b] = "rejected" => \A c \in Members(b) : ~Begun(c)
    BY DEF EndedIsComplete
  <2>1. \A c \in Members(b) : c \in Calls /\ BatchOf[c] = b
    BY DEF Members
  <2>2. layer[b] \subseteq Members(b)
    BY DEF IInv, Structure
  <2>3. CASE phase[b] = "ended" /\ rest[b] = {}
    BY <2>1, <2>3 DEF IInv, Structure, Completing
  <2>4. CASE phase[b] = "ended" /\ rest[b] # {}
    BY <2>2, <2>4 DEF IInv, Completing, AnyFailed
  <2>5. CASE phase[b] = "rejected"
    BY <2>1, <2>5 DEF IInv, Structure, Begun
  <2> QED BY <2>3, <2>4, <2>5
<1> QED BY <1>1, Invariance, PTL

\* The cache holds max_size results at most.
THEOREM CacheStaysBounded == Spec => []CacheIsBounded
<1>1. IInv => CacheIsBounded
  BY DEF IInv, CacheFits, CacheIsBounded
<1> QED BY <1>1, Invariance, PTL

\* Some entry was read, and made, no later than any other.
LEMMA OneToEvict ==
  ASSUME TypeOK, DOMAIN cache # {}
  PROVE  Evictable # {}
<1> DEFINE A == {cache[k].accessed : k \in DOMAIN cache}
<1>1. \A k \in DOMAIN cache : cache[k].accessed \in Nat /\ cache[k].created \in Nat
  BY BoundsAssumption DEF TypeOK, Entries, Times
<1>2. PICK a \in A : \A x \in A : a <= x
  <2>1. A \subseteq Nat /\ A # {}
    BY <1>1
  <2> QED BY <2>1, LeastNumber
<1> DEFINE B == {cache[k].created : k \in {j \in DOMAIN cache : cache[j].accessed = a}}
<1>3. PICK b \in B : \A x \in B : b <= x
  <2>1. B \subseteq Nat /\ B # {}
    BY <1>1, <1>2
  <2> QED BY <2>1, LeastNumber
<1>4. PICK k \in DOMAIN cache : cache[k].accessed = a /\ cache[k].created = b
  BY <1>3
<1>5. ASSUME NEW j \in DOMAIN cache PROVE NotAfter(k, j)
  <2>1. a <= cache[j].accessed
    BY <1>2
  <2>2. cache[j].accessed = a => b <= cache[j].created
    BY <1>3
  <2> QED BY <1>1, <1>4, <2>1, <2>2 DEF NotAfter
<1> QED BY <1>4, <1>5 DEF Evictable

\* Of the calls that wait for a slot one is the first, and it gets in when no call is in.
LEMMA FirstMayEnter ==
  ASSUME TypeOK, NEW c \in Calls, pc[c] = "queued", Inside(BatchOf[c]) = {}
  PROVE  \E d \in Members(BatchOf[c]) : MayEnter(d)
<1> DEFINE Q == {d \in Members(BatchOf[c]) : pc[d] = "queued"}
<1>1. c \in Q /\ Q \subseteq Nat
  BY CallsAssumption DEF Members
<1>2. PICK d \in Q : \A x \in Q : d <= x
  BY <1>1, LeastNumber
<1>3. d \in Members(BatchOf[c]) /\ BatchOf[d] = BatchOf[c]
  BY DEF Members
<1>4. Cardinality(Inside(BatchOf[d])) < MaxConcurrent
  BY <1>3, FS_EmptySet, BoundsAssumption
<1> QED BY <1>2, <1>3, <1>4 DEF MayEnter

\* A batch that is running can always go on.
THEOREM NothingGetsStuck == Spec => []NothingIsStuck
<1>1. ASSUME IInv, NEW b \in Batches, phase[b] = "running" PROVE GoesOn(b)
  <2>1. TypeOK /\ layer[b] \subseteq Members(b)
    BY <1>1 DEF IInv, Structure
  <2>2. \A c \in Members(b) : c \in Calls /\ BatchOf[c] = b
    BY DEF Members
  <2>3. \A c \in Members(b) : pc[c] \notin {"idle", "done"} => c \in layer[b]
    BY <1>1, <2>2 DEF IInv, Structure
  <2>4. CASE Inside(b) # {}
    BY <2>2, <2>3, <2>4 DEF Inside, GoesOn, Returns
  <2>5. CASE Inside(b) = {} /\ \E c \in layer[b] : pc[c] = "queued"
    <3>1. PICK c \in layer[b] : pc[c] = "queued"
      BY <2>5
    <3>2. PICK d \in Members(b) : MayEnter(d)
      BY <2>1, <2>2, <2>5, <3>1, FirstMayEnter
    <3>3. d \in layer[b]
      BY <2>3, <3>2 DEF MayEnter
    <3> QED BY <3>2, <3>3 DEF GoesOn
  <2>6. CASE Inside(b) = {} /\ \A c \in layer[b] : pc[c] # "queued"
    <3>1. \A c \in layer[b] : pc[c] = "done"
      BY <1>1, <2>1, <2>2, <2>6 DEF Inside, IInv, Structure, TypeOK
    <3> QED BY <1>1, <3>1 DEF GoesOn, LayerIsDone
  <2> QED BY <2>4, <2>5, <2>6
<1>2. ASSUME IInv, NEW c \in Calls, FullFor(Key(c)) PROVE Evictable # {}
  <2>1. DOMAIN cache # {}
    BY <1>2, FS_EmptySet, BoundsAssumption DEF FullFor
  <2> QED BY <1>2, <2>1, OneToEvict DEF IInv
<1>3. IInv => NothingIsStuck
  BY <1>1, <1>2 DEF NothingIsStuck
<1> QED BY <1>3, Invariance, PTL

\* No result is served TTL or longer after its tool was run.
THEOREM HitsStayFresh == Spec => HitsAreFresh
<1> DEFINE Fresh == \A c \in Calls : result'[c] # result[c] /\ result'[c].cached =>
                        now - result'[c].output < TTL
<1>1. IInv /\ [Next]_vars => [Fresh]_vars
  <2> SUFFICES ASSUME IInv, Next, NEW c \in Calls, result'[c] # result[c], result'[c].cached
               PROVE  now - result'[c].output < TTL
    BY DEF vars, request, batchVars, callVars
  <2>1. PICK e \in Calls : CallStep(e)
    <3>1. ASSUME NEW b \in Batches, BatchStep(b) PROVE result' = result
      BY <3>1 DEF BatchStep, SubmitFlat, SubmitLayers, Reject, EndLayer, callVars
    <3>2. Tick => result' = result
      BY DEF Tick, callVars
    <3> QED BY <3>1, <3>2 DEF Next
  <2>2. result \in [Calls -> Results]
    BY DEF IInv, TypeOK
  <2>3. CASE Hit(e)
    <3>1. /\ result' = [result EXCEPT ![e] = Ok(cache[Key(e)].output, TRUE)]
          /\ Key(e) \in DOMAIN cache
          /\ ~(now - cache[Key(e)].created >= TTL)
      BY <2>3 DEF Hit, Expired
    <3>2. e = c /\ result'[c].output = cache[Key(e)].output
      BY <2>2, <3>1 DEF Ok
    <3>3. cache[Key(e)].output = cache[Key(e)].created
      BY <3>1 DEF IInv, CacheSound
    <3>4. now \in Int /\ cache[Key(e)].created \in Int /\ TTL \in Int
      BY <3>1, BoundsAssumption DEF IInv, TypeOK, Entries, Times
    <3>5. now - cache[Key(e)].created < TTL
      BY <3>1, <3>4
    <3>6. result'[c].output = cache[Key(e)].created
      BY <3>2, <3>3
    <3> QED BY <3>5, <3>6
  <2>4. CASE ~Hit(e)
    <3>1. \/ result' = result
          \/ \E r \in {Ok(now, FALSE), Failure} : result' = [result EXCEPT ![e] = r]
      BY <2>1, <2>4 DEF CallStep, Miss, Succeed, Fail, Retry
    <3>2. ~Ok(now, FALSE).cached /\ ~Failure.cached
      BY DEF Ok, Failure
    <3> QED BY <2>2, <3>1, <3>2
  <2> QED BY <2>3, <2>4
<1> QED BY <1>1, Invariance, PTL DEF Spec, HitsAreFresh

-----------------------------------------------------------------------------
(***************************************************************************)
(* The search for cycles, in whichever order it goes through the graph.    *)
(***************************************************************************)
IsGraph(deps) == deps \in [DOMAIN deps -> SUBSET DOMAIN deps]

\* The nodes that dfs has returned from.
Finished(s) == s.visited \ OnPath(s)

IsSearchState(deps, s) ==
    s \in [visited : SUBSET DOMAIN deps,
           path : Seq(DOMAIN deps),
           todo : [DOMAIN deps -> SUBSET DOMAIN deps],
           cycles : SUBSET Seq(DOMAIN deps)]

\* The path is one: no node twice, each referred to by the next.
PathOK(deps, s) ==
    /\ OnPath(s) \subseteq s.visited
    /\ \A i, j \in 1..Len(s.path) : s.path[i] = s.path[j] => i = j
    /\ \A i \in 1 .. Len(s.path) - 1 : s.path[i] \in deps[s.path[i + 1]]

\* What a node has still to look at refers to it, all of that before it is visited.
TodoOK(deps, s) ==
    \A n \in DOMAIN deps :
        /\ s.todo[n] \subseteq Edges(deps, n)
        /\ n \notin s.visited => s.todo[n] = Edges(deps, n)

\* As long as no cycle was found: what was looked at from the path is finished or next on
\* it, what refers to a finished node is finished, and the finished nodes have no cycle.
NoCycleYet(deps, s) ==
    /\ \A i \in 1..Len(s.path) : \A m \in Edges(deps, s.path[i]) \ s.todo[s.path[i]] :
         \/ m \in Finished(s)
         \/ i < Len(s.path) /\ m = s.path[i + 1]
    /\ \A n \in Finished(s) : Edges(deps, n) \subseteq Finished(s)
    /\ \A S \in SUBSET Finished(s) : S # {} => \E c \in S : deps[c] \intersect S = {}

IsCycle(deps, q) ==
    /\ Len(q) > 1
    /\ q[1] = q[Len(q)]
    /\ \A i \in 1 .. Len(q) - 1 : q[i] \in deps[q[i + 1]]

SearchInv(deps, s) ==
    /\ IsSearchState(deps, s)
    /\ PathOK(deps, s)
    /\ TodoOK(deps, s)
    /\ s.cycles = {} => NoCycleYet(deps, s)
    /\ \A q \in s.cycles : IsCycle(deps, q)

LEMMA SearchInit ==
  ASSUME NEW deps, IsGraph(deps)
  PROVE  SearchInv(deps, SearchBegins(deps))
<1> DEFINE s == SearchBegins(deps)
<1>1. /\ s.visited = {} /\ s.path = <<>> /\ s.cycles = {}
      /\ s.todo = [n \in DOMAIN deps |-> Edges(deps, n)]
  BY DEF SearchBegins
<1>2. IsSearchState(deps, s)
  BY DEF SearchBegins, IsSearchState, Edges
<1> HIDE DEF s
<1>3. Len(s.path) = 0 /\ OnPath(s) = {}
  BY <1>1 DEF OnPath
<1>4. PathOK(deps, s) /\ TodoOK(deps, s)
  BY <1>1, <1>3 DEF PathOK, TodoOK
<1>5. NoCycleYet(deps, s)
  BY <1>1, <1>3 DEF NoCycleYet, Finished
<1>6. SearchInv(deps, s)
  BY <1>1, <1>2, <1>4, <1>5 DEF SearchInv
<1> QED BY <1>6 DEF s

\* From s to t the node at the end of the path was found to have the neighbor m.
LooksAt(deps, s, t, m) ==
    \A n \in DOMAIN deps : t.todo[n] =
        IF s.path # <<>> /\ n = s.path[Len(s.path)] THEN s.todo[n] \ {m} ELSE s.todo[n]

\* A dfs that is called for a node not visited yet.
LEMMA EnterKeeps ==
  ASSUME NEW deps, IsGraph(deps), NEW s, NEW t, SearchInv(deps, s),
         NEW n \in DOMAIN deps, n \notin s.visited,
         IsSearchState(deps, t),
         t.visited = s.visited \union {n},
         t.path = Append(s.path, n),
         t.cycles = s.cycles,
         s.path # <<>> => n \in Edges(deps, s.path[Len(s.path)]),
         LooksAt(deps, s, t, n)
  PROVE  SearchInv(deps, t)
<1> DEFINE L == Len(s.path)
<1>1. /\ s.path \in Seq(DOMAIN deps) /\ L \in Nat /\ s.path = <<>> <=> L = 0
      /\ \A i \in 1..L : s.path[i] \in DOMAIN deps
  BY DEF SearchInv, IsSearchState
<1>2. /\ Len(t.path) = L + 1 /\ t.path[L + 1] = n
      /\ \A i \in 1..L : t.path[i] = s.path[i]
  BY <1>1
<1>3. OnPath(t) = OnPath(s) \union {n}
  <2>1. 1 .. L + 1 = 1..L \union {L + 1}
    BY <1>1
  <2> QED BY <1>2, <2>1 DEF OnPath
<1>4. n \notin OnPath(s)
  BY DEF SearchInv, PathOK
<1>5. Finished(t) = Finished(s)
  BY <1>3, <1>4 DEF Finished
<1>6. PathOK(deps, t)
  <2>1. OnPath(t) \subseteq t.visited
    BY <1>3 DEF SearchInv, PathOK
  <2>2. ASSUME NEW i \in 1..Len(t.path), NEW j \in 1..Len(t.path), t.path[i] = t.path[j]
        PROVE  i = j
    BY <1>1, <1>2, <1>4, <2>2 DEF SearchInv, PathOK, OnPath
  <2>3. ASSUME NEW i \in 1 .. Len(t.path) - 1 PROVE t.path[i] \in deps[t.path[i + 1]]
    <3>1. CASE i < L
      BY <1>1, <1>2, <3>1 DEF SearchInv, PathOK
    <3>2. CASE i = L
      BY <1>1, <1>2, <3>2 DEF Edges
    <3> QED BY <1>1, <1>2, <3>1, <3>2
  <2> QED BY <2>1, <2>2, <2>3 DEF PathOK
<1>7. TodoOK(deps, t)
  <2>1. s.path # <<>> => s.path[L] \in s.visited
    BY <1>1 DEF SearchInv, PathOK, OnPath
  <2> QED BY <2>1 DEF SearchInv, TodoOK, LooksAt
<1>8. ASSUME t.cycles = {} PROVE NoCycleYet(deps, t)
  <2>1. NoCycleYet(deps, s)
    BY <1>8 DEF SearchInv
  <2>2. ASSUME NEW i \in 1..Len(t.path), NEW m \in Edges(deps, t.path[i]) \ t.todo[t.path[i]]
        PROVE  m \in Finished(t) \/ (i < Len(t.path) /\ m = t.path[i + 1])
    <3>1. CASE i = L + 1
      <4>1. s.path # <<>> => s.path[L] # n
        BY <1>1, <1>4 DEF OnPath
      <4>2. t.todo[n] = Edges(deps, n)
        BY <4>1 DEF SearchInv, TodoOK, LooksAt
      <4> QED BY <1>2, <2>2, <3>1, <4>2
    <3>2. CASE i \in 1..L /\ m \notin s.todo[s.path[i]]
      <4>1. m \in Finished(s) \/ (i < L /\ m = s.path[i + 1])
        BY <1>2, <2>1, <2>2, <3>2 DEF NoCycleYet
      <4> QED BY <1>1, <1>2, <1>5, <3>2, <4>1
    <3>3. CASE i \in 1..L /\ m \in s.todo[s.path[i]]
      <4>1. t.path[i] = s.path[i] /\ s.path[i] \in DOMAIN deps /\ s.path # <<>>
        BY <1>1, <1>2, <3>3
      <4>2. s.path[i] = s.path[L] /\ m = n
        BY <2>2, <3>3, <4>1 DEF LooksAt
      <4>3. i = L
        BY <1>1, <3>3, <4>2 DEF SearchInv, PathOK
      <4> QED BY <1>1, <1>2, <4>2, <4>3
    <3> QED BY <1>1, <1>2, <3>1, <3>2, <3>3
  <2> QED BY <1>5, <2>1, <2>2 DEF NoCycleYet
<1> QED BY <1>6, <1>7, <1>8 DEF SearchInv

\* A look at a neighbor that was visited before.
LEMMA LookKeeps ==
  ASSUME NEW deps, IsGraph(deps), NEW s, NEW t, SearchInv(deps, s), IsSearchState(deps, t),
         s.path # <<>>, NEW m \in s.todo[s.path[Len(s.path)]], m \in s.visited,
         m \in Edges(deps, s.path[Len(s.path)]),
         t.visited = s.visited, t.path = s.path,
         t.cycles = s.cycles \union Closed(s, m),
         LooksAt(deps, s, t, m)
  PROVE  SearchInv(deps, t)
<1> DEFINE L == Len(s.path)
<1>1. /\ s.path \in Seq(DOMAIN deps) /\ L \in Nat \ {0}
      /\ \A i \in 1..L : s.path[i] \in DOMAIN deps /\ s.path[i] \in s.visited
  BY DEF SearchInv, IsSearchState, PathOK, OnPath
<1>2. PathOK(deps, t)
  BY DEF SearchInv, PathOK, OnPath
<1>3. TodoOK(deps, t)
  <2>1. TodoOK(deps, s)
    BY DEF SearchInv
  <2>2. s.path[L] \in s.visited
    BY <1>1
  <2>3. ASSUME NEW n \in DOMAIN deps
        PROVE  t.todo[n] \subseteq s.todo[n] /\ (n \notin s.visited => t.todo[n] = s.todo[n])
    BY <2>2 DEF LooksAt
  <2> QED BY <2>1, <2>3 DEF TodoOK
<1>4. ASSUME NEW q \in Closed(s, m) PROVE IsCycle(deps, q)
  <2>1. PICK i \in 1..L : s.path[i] = m /\ q = Append(SubSeq(s.path, i, L), m)
    BY <1>4 DEF Closed
  <2> DEFINE p == SubSeq(s.path, i, L)
  <2>2. /\ p \in Seq(DOMAIN deps) /\ Len(p) = L - i + 1
        /\ \A j \in 1 .. L - i + 1 : p[j] = s.path[i + j - 1]
    BY <1>1, <2>1
  <2> HIDE DEF p
  <2>3. /\ Len(q) = L - i + 2 /\ q[L - i + 2] = m
        /\ \A j \in 1 .. L - i + 1 : q[j] = s.path[i + j - 1]
    BY <1>1, <2>1, <2>2 DEF p
  <2>4. Len(q) > 1 /\ q[1] = q[Len(q)]
    <3>1. 1 \in 1 .. L - i + 1 /\ i + 1 - 1 = i /\ L - i + 2 > 1
      BY <1>1, <2>1
    <3>2. q[1] = s.path[i]
      BY <2>3, <3>1
    <3> QED BY <2>1, <2>3, <3>1, <3>2
  <2>5. ASSUME NEW j \in 1 .. Len(q) - 1 PROVE q[j] \in deps[q[j + 1]]
    <3>0. i \in 1..L /\ L \in Nat /\ j \in 1 .. L - i + 1
      BY <1>1, <2>1, <2>3
    <3>1. CASE j = L - i + 1
      <4>1. i + j - 1 = L /\ j + 1 = L - i + 2
        BY <3>0, <3>1
      <4>2. q[j] = s.path[L] /\ q[j + 1] = m
        BY <2>3, <3>0, <4>1
      <4> QED BY <4>2 DEF Edges
    <3>2. CASE j < L - i + 1
      <4> DEFINE k == i + j - 1
      <4>1. k \in 1 .. L - 1 /\ j \in 1 .. L - i + 1 /\ j + 1 \in 1 .. L - i + 1 /\ i + (j + 1) - 1 = k + 1
        BY <3>0, <3>2
      <4>2. q[j] = s.path[k] /\ q[j + 1] = s.path[k + 1]
        BY <2>3, <4>1
      <4> HIDE DEF k
      <4>3. s.path[k] \in deps[s.path[k + 1]]
        BY <4>1 DEF SearchInv, PathOK
      <4> QED BY <4>2, <4>3
    <3>3. j = L - i + 1 \/ j < L - i + 1
      BY <3>0
    <3> QED BY <3>1, <3>2, <3>3
  <2> QED BY <2>4, <2>5 DEF IsCycle
<1>5. ASSUME t.cycles = {} PROVE NoCycleYet(deps, t)
  <2>1. NoCycleYet(deps, s)
    BY <1>5 DEF SearchInv
  <2>2. m \in Finished(s)
    <3>1. Closed(s, m) = {}
      BY <1>5
    <3>2. ASSUME NEW j \in 1..L, s.path[j] = m PROVE FALSE
      <4>1. Append(SubSeq(s.path, j, L), m) \in Closed(s, m)
        BY <3>2 DEF Closed
      <4> QED BY <3>1, <4>1
    <3> QED BY <3>2 DEF Finished, OnPath
  <2>3. Finished(t) = Finished(s)
    BY DEF Finished, OnPath
  <2>4. ASSUME NEW i \in 1..L, NEW n \in Edges(deps, s.path[i]) \ t.todo[s.path[i]]
        PROVE  n \in Finished(s) \/ (i < L /\ n = s.path[i + 1])
    <3>1. n = m \/ n \notin s.todo[s.path[i]]
      BY <1>1, <2>4 DEF LooksAt
    <3> QED BY <2>1, <2>2, <2>4, <3>1 DEF NoCycleYet
  <2> QED BY <2>1, <2>3, <2>4 DEF NoCycleYet
<1> QED BY <1>2, <1>3, <1>4, <1>5 DEF SearchInv

\* dfs returns.
LEMMA ReturnKeeps ==
  ASSUME NEW deps, IsGraph(deps), NEW s, NEW t, SearchInv(deps, s), IsSearchState(deps, t),
         s.path # <<>>, s.todo[s.path[Len(s.path)]] = {},
         t.visited = s.visited, t.todo = s.todo, t.cycles = s.cycles,
         t.path = SubSeq(s.path, 1, Len(s.path) - 1)
  PROVE  SearchInv(deps, t)
<1> DEFINE L == Len(s.path)
<1> DEFINE top == s.path[L]
<1>1. /\ s.path \in Seq(DOMAIN deps) /\ L \in Nat \ {0}
      /\ \A i \in 1..L : s.path[i] \in DOMAIN deps /\ s.path[i] \in s.visited
  BY DEF SearchInv, IsSearchState, PathOK, OnPath
<1>2. Len(t.path) = L - 1 /\ \A i \in 1 .. L - 1 : t.path[i] = s.path[i]
  BY <1>1
<1>3. OnPath(s) = OnPath(t) \union {top} /\ top \notin OnPath(t)
  <2>1. ASSUME NEW n \in OnPath(s) PROVE n \in OnPath(t) \union {top}
    <3>1. PICK i \in 1..L : n = s.path[i]
      BY DEF OnPath
    <3>2. i \in 1 .. L - 1 => n \in OnPath(t)
      BY <1>2, <3>1 DEF OnPath
    <3>3. i = L \/ i \in 1 .. L - 1
      BY <1>1
    <3> QED BY <3>1, <3>2, <3>3
  <2>2. ASSUME NEW n \in OnPath(t) PROVE n \in OnPath(s) /\ n # top
    <3>1. PICK i \in 1 .. L - 1 : n = s.path[i]
      BY <1>2 DEF OnPath
    <3>2. i \in 1..L /\ L \in 1..L /\ i # L
      BY <1>1
    <3>3. s.path[i] # s.path[L]
      BY <3>2 DEF SearchInv, PathOK
    <3> QED BY <3>1, <3>2, <3>3 DEF OnPath
  <2>3. top \in OnPath(s)
    BY <1>1 DEF OnPath
  <2> QED BY <2>1, <2>2, <2>3
<1>4. Finished(t) = Finished(s) \union {top} /\ top \notin Finished(s)
  BY <1>1, <1>3 DEF Finished
<1>5. PathOK(deps, t)
  BY <1>1, <1>2, <1>3 DEF SearchInv, PathOK
<1>6. TodoOK(deps, t)
  BY DEF SearchInv, TodoOK
<1>7. ASSUME t.cycles = {} PROVE NoCycleYet(deps, t)
  <2>1. NoCycleYet(deps, s)
    BY <1>7 DEF SearchInv
  <2>2. Edges(deps, top) \subseteq Finished(s)
    <3>1. L \in 1..L /\ ~ (L < L)
      BY <1>1
    <3> QED BY <2>1, <3>1 DEF NoCycleYet
  <2>3. ASSUME NEW i \in 1 .. L - 1, NEW n \in Edges(deps, s.path[i]) \ s.todo[s.path[i]]
        PROVE  n \in Finished(t) \/ (i < L - 1 /\ n = s.path[i + 1])
    <3>1. n \in Finished(s) \/ n = s.path[i + 1]
      <4>1. i \in 1..L
        BY <1>1
      <4> QED BY <2>1, <2>3, <4>1 DEF NoCycleYet
    <3>2. i = L - 1 => s.path[i + 1] = top
      BY <1>1
    <3> QED BY <1>1, <1>4, <3>1, <3>2
  <2>4. \A n \in Finished(t) : Edges(deps, n) \subseteq Finished(t)
    BY <1>4, <2>1, <2>2 DEF NoCycleYet
  <2>5. ASSUME NEW S \in SUBSET Finished(t), S # {}, \A c \in S : deps[c] \intersect S # {}
        PROVE  FALSE
    <3>1. CASE top \notin S
      BY <1>4, <2>1, <2>5, <3>1 DEF NoCycleYet
    <3>2. CASE top \in S
      <4>1. PICK d \in S : d \in deps[top]
        BY <2>5, <3>2
      <4>2. top \in Edges(deps, d)
        BY <1>1, <4>1 DEF Edges
      <4> QED BY <1>4, <2>1, <2>2, <4>1, <4>2 DEF NoCycleYet
    <3> QED BY <3>1, <3>2
  <2>6. \A i \in 1..Len(t.path) : \A n \in Edges(deps, t.path[i]) \ t.todo[t.path[i]] :
          n \in Finished(t) \/ (i < Len(t.path) /\ n = t.path[i + 1])
    BY <1>1, <1>2, <2>3
  <2> QED BY <2>4, <2>5, <2>6 DEF NoCycleYet
<1> QED BY <1>5, <1>6, <1>7 DEF SearchInv

\* The three shapes of a step: dfs is called, looks at a node it knows, or returns.
Enters(deps, s, t, n) ==
    /\ n \in DOMAIN deps \ s.visited
    /\ s.path # <<>> => n \in s.todo[s.path[Len(s.path)]]
    /\ t.visited = s.visited \union {n}
    /\ t.path = Append(s.path, n)
    /\ t.cycles = s.cycles
    /\ LooksAt(deps, s, t, n)

LooksBack(deps, s, t, m) ==
    /\ s.path # <<>>
    /\ m \in s.todo[s.path[Len(s.path)]] \intersect s.visited
    /\ t.visited = s.visited
    /\ t.path = s.path
    /\ t.cycles = s.cycles \union Closed(s, m)
    /\ LooksAt(deps, s, t, m)

GoesBack(s, t) ==
    /\ s.path # <<>>
    /\ s.todo[s.path[Len(s.path)]] = {}
    /\ t.visited = s.visited
    /\ t.path = SubSeq(s.path, 1, Len(s.path) - 1)
    /\ t.todo = s.todo
    /\ t.cycles = s.cycles

LEMMA StepShapes ==
  ASSUME NEW deps, NEW s, SearchInv(deps, s), NEW t \in SearchSteps(deps, s)
  PROVE  /\ IsSearchState(deps, t)
         /\ \/ \E n : Enters(deps, s, t, n)
            \/ \E m : LooksBack(deps, s, t, m)
            \/ GoesBack(s, t)
<1> DEFINE L == Len(s.path)
<1>0. s = [visited |-> s.visited, path |-> s.path, todo |-> s.todo, cycles |-> s.cycles]
  BY DEF SearchInv, IsSearchState
<1>1. /\ s.visited \in SUBSET DOMAIN deps /\ s.path \in Seq(DOMAIN deps)
      /\ s.todo \in [DOMAIN deps -> SUBSET DOMAIN deps] /\ s.cycles \in SUBSET Seq(DOMAIN deps)
      /\ L \in Nat /\ \A i \in 1..L : s.path[i] \in DOMAIN deps
  BY DEF SearchInv, IsSearchState
<1>2. CASE t \in Roots(deps, s)
  <2>1. PICK n \in DOMAIN deps : s.path = <<>> /\ n \notin s.visited /\ t = Enter(s, n)
    BY <1>2 DEF Roots
  <2>2. t = [visited |-> s.visited \union {n}, path |-> Append(s.path, n),
             todo |-> s.todo, cycles |-> s.cycles]
    BY <1>0, <2>1 DEF Enter
  <2>3. s.visited \union {n} \in SUBSET DOMAIN deps /\ Append(s.path, n) \in Seq(DOMAIN deps)
    BY <1>1, <2>1
  <2>4. /\ IsSearchState(deps, t)
        /\ t.visited = s.visited \union {n} /\ t.path = Append(s.path, n)
        /\ t.todo = s.todo /\ t.cycles = s.cycles
    BY <1>1, <2>2, <2>3 DEF IsSearchState
  <2>5. LooksAt(deps, s, t, n)
    BY <2>1, <2>4 DEF LooksAt
  <2> QED BY <2>1, <2>4, <2>5 DEF Enters
<1>3. CASE t \in Looks(s)
  <2> DEFINE top == s.path[L]
  <2>1. PICK m \in s.todo[top] : s.path # <<>> /\ t = Look(s, m)
    BY <1>3 DEF Looks
  <2>2. top \in DOMAIN deps
    BY <1>1, <2>1
  <2>3. m \in Edges(deps, top) /\ m \in DOMAIN deps
    BY <1>1, <2>1, <2>2 DEF SearchInv, TodoOK, Edges
  <2> DEFINE left == [s.todo EXCEPT ![top] = @ \ {m}]
  <2>4. /\ left \in [DOMAIN deps -> SUBSET DOMAIN deps]
        /\ \A n \in DOMAIN deps : left[n] = IF n = top THEN s.todo[n] \ {m} ELSE s.todo[n]
    BY <1>1, <2>2
  <2> DEFINE looked == [s EXCEPT !.todo[top] = @ \ {m}]
  <2>5. looked = [visited |-> s.visited, path |-> s.path, todo |-> left, cycles |-> s.cycles]
    <3>1. looked = [s EXCEPT !.todo = left]
      OBVIOUS
    <3> HIDE DEF left, looked
    <3> QED BY <1>0, <3>1
  <2>6. CASE m \notin s.visited
    <3>1. t = Enter(looked, m)
      BY <2>1, <2>6 DEF Look
    <3> HIDE DEF left, looked
    <3>2. t = [visited |-> s.visited \union {m}, path |-> Append(s.path, m),
               todo |-> left, cycles |-> s.cycles]
      BY <2>5, <3>1 DEF Enter
    <3>3. s.visited \union {m} \in SUBSET DOMAIN deps /\ Append(s.path, m) \in Seq(DOMAIN deps)
      BY <1>1, <2>3
    <3>4. /\ IsSearchState(deps, t)
          /\ t.visited = s.visited \union {m} /\ t.path = Append(s.path, m)
          /\ t.todo = left /\ t.cycles = s.cycles
      BY <1>1, <2>4, <3>2, <3>3 DEF IsSearchState
    <3>5. LooksAt(deps, s, t, m)
      BY <2>1, <2>4, <3>4 DEF LooksAt
    <3> QED BY <2>1, <2>3, <2>6, <3>4, <3>5 DEF Enters
  <2>7. CASE m \in s.visited
    <3>1. t = [looked EXCEPT !.cycles = @ \union Closed(s, m)]
      BY <2>1, <2>7 DEF Look
    <3> HIDE DEF left, looked
    <3>2. t = [visited |-> s.visited, path |-> s.path, todo |-> left,
               cycles |-> s.cycles \union Closed(s, m)]
      BY <2>5, <3>1
    <3>3. Closed(s, m) \subseteq Seq(DOMAIN deps)
      <4>1. ASSUME NEW i \in 1..L PROVE Append(SubSeq(s.path, i, L), m) \in Seq(DOMAIN deps)
        <5>1. SubSeq(s.path, i, L) \in Seq(DOMAIN deps)
          BY <1>1
        <5> QED BY <2>3, <5>1
      <4> QED BY <4>1 DEF Closed
    <3>4. /\ IsSearchState(deps, t)
          /\ t.visited = s.visited /\ t.path = s.path
          /\ t.todo = left /\ t.cycles = s.cycles \union Closed(s, m)
      <4>1. s.cycles \union Closed(s, m) \in SUBSET Seq(DOMAIN deps)
        BY <1>1, <3>3
      <4> QED BY <1>1, <2>4, <3>2, <4>1 DEF IsSearchState
    <3>5. LooksAt(deps, s, t, m)
      BY <2>1, <2>4, <3>4 DEF LooksAt
    <3> QED BY <2>1, <2>7, <3>4, <3>5 DEF LooksBack
  <2> QED BY <2>6, <2>7
<1>4. CASE t \in Returned(s)
  <2>1. /\ L # 0 /\ s.todo[s.path[L]] = {}
        /\ t = [s EXCEPT !.path = SubSeq(@, 1, Len(@) - 1)]
    BY <1>1, <1>4 DEF Returned, OnPath
  <2>2. t = [visited |-> s.visited, path |-> SubSeq(s.path, 1, L - 1),
             todo |-> s.todo, cycles |-> s.cycles]
    BY <1>0, <2>1
  <2>3. SubSeq(s.path, 1, L - 1) \in Seq(DOMAIN deps)
    BY <1>1, <2>1
  <2>4. /\ IsSearchState(deps, t)
        /\ t.visited = s.visited /\ t.path = SubSeq(s.path, 1, L - 1)
        /\ t.todo = s.todo /\ t.cycles = s.cycles
    BY <1>1, <2>2, <2>3 DEF IsSearchState
  <2>5. s.path # <<>>
    BY <2>1
  <2> QED BY <2>1, <2>4, <2>5 DEF GoesBack
<1> QED BY <1>2, <1>3, <1>4 DEF SearchSteps

LEMMA StepKeeps ==
  ASSUME NEW deps, IsGraph(deps), NEW s, SearchInv(deps, s), NEW t \in SearchSteps(deps, s)
  PROVE  SearchInv(deps, t)
<1> DEFINE top == s.path[Len(s.path)]
<1>1. IsSearchState(deps, t)
  BY StepShapes
<1>2. s.path # <<>> => s.todo[top] \subseteq Edges(deps, top)
  <2>1. s.path # <<>> => top \in DOMAIN deps
    BY DEF SearchInv, IsSearchState
  <2> QED BY <2>1 DEF SearchInv, TodoOK
<1>3. ASSUME NEW n, Enters(deps, s, t, n) PROVE SearchInv(deps, t)
  BY <1>1, <1>2, <1>3, EnterKeeps DEF Enters
<1>4. ASSUME NEW m, LooksBack(deps, s, t, m) PROVE SearchInv(deps, t)
  <2>1. m \in s.todo[top] /\ m \in s.visited /\ m \in Edges(deps, top) /\ s.path # <<>>
    BY <1>2, <1>4 DEF LooksBack
  <2> QED BY <1>1, <1>4, <2>1, LookKeeps DEF LooksBack
<1>5. ASSUME GoesBack(s, t) PROVE SearchInv(deps, t)
  BY <1>1, <1>5, ReturnKeeps DEF GoesBack
<1> QED BY <1>3, <1>4, <1>5, StepShapes

LEMMA SearchKeeps ==
  ASSUME NEW deps, IsGraph(deps), NEW s, NEW n \in Nat, IsSearching(deps, s, n)
  PROVE  \A i \in 0..n : SearchInv(deps, s[i])
<1> DEFINE wrong == {i \in 0..n : ~ SearchInv(deps, s[i])}
<1> SUFFICES ASSUME wrong # {} PROVE FALSE
  OBVIOUS
<1>1. PICK m \in wrong : \A i \in wrong : m <= i
  <2>1. wrong \subseteq Nat
    OBVIOUS
  <2> QED BY <2>1, LeastNumber
<1>2. m # 0
  BY <1>1, SearchInit DEF IsSearching
<1>3. m - 1 \in 0 .. n - 1 /\ m - 1 \in 0..n /\ (m - 1) + 1 = m /\ ~ (m <= m - 1)
  BY <1>1, <1>2
<1>4. SearchInv(deps, s[m - 1])
  BY <1>1, <1>3
<1>5. s[m] \in SearchSteps(deps, s[m - 1])
  BY <1>3 DEF IsSearching
<1>6. SearchInv(deps, s[m])
  BY <1>4, <1>5, StepKeeps
<1> QED BY <1>1, <1>6

\* The nodes of a cycle that was reported each refer to one of them.
LEMMA CycleIsOne ==
  ASSUME NEW deps, NEW q \in Seq(DOMAIN deps), IsCycle(deps, q)
  PROVE  HasCycle(deps, DOMAIN deps)
<1> DEFINE S == {q[i] : i \in 1 .. Len(q) - 1}
<1>1. Len(q) \in Nat /\ Len(q) > 1 /\ \A i \in 1..Len(q) : q[i] \in DOMAIN deps
  BY DEF IsCycle
<1>2. S \subseteq DOMAIN deps /\ q[1] \in S
  BY <1>1
<1>3. ASSUME NEW i \in 1 .. Len(q) - 1 PROVE deps[q[i]] \intersect S # {}
  <2>1. CASE i = 1
    <3>1. Len(q) - 1 \in 1 .. Len(q) - 1 /\ (Len(q) - 1) + 1 = Len(q)
      BY <1>1
    <3>2. q[Len(q) - 1] \in deps[q[Len(q)]]
      BY <3>1 DEF IsCycle
    <3>3. q[Len(q) - 1] \in S /\ deps[q[i]] = deps[q[Len(q)]]
      BY <2>1, <3>1 DEF IsCycle
    <3> QED BY <3>2, <3>3
  <2>2. CASE i # 1
    <3>1. i - 1 \in 1 .. Len(q) - 1 /\ (i - 1) + 1 = i
      BY <1>1, <2>2
    <3>2. q[i - 1] \in deps[q[i]] /\ q[i - 1] \in S
      BY <3>1 DEF IsCycle
    <3> QED BY <3>2
  <2> QED BY <2>1, <2>2
<1> HIDE DEF S
<1>4. \A c \in S : deps[c] \intersect S # {}
  BY <1>3 DEF S
<1> QED BY <1>2, <1>4 DEF HasCycle

\* detect_cycles: it reports a cycle exactly if some nodes each refer to one of them, and
\* what it reports is one, for every graph and whichever way its loops go.
THEOREM SearchAnswers ==
  ASSUME NEW deps, IsGraph(deps), NEW s, NEW n \in Nat, IsSearch(deps, s, n)
  PROVE  /\ s[n].cycles # {} <=> HasCycle(deps, DOMAIN deps)
         /\ \A q \in s[n].cycles : IsCycle(deps, q)
<1>1. SearchInv(deps, s[n])
  BY SearchKeeps DEF IsSearch
<1>2. s[n].path = <<>> /\ s[n].visited = DOMAIN deps
  BY DEF IsSearch, SearchEnds
<1>3. ASSUME NEW q \in s[n].cycles PROVE IsCycle(deps, q) /\ q \in Seq(DOMAIN deps)
  BY <1>1 DEF SearchInv, IsSearchState
<1>4. ASSUME s[n].cycles = {} PROVE ~ HasCycle(deps, DOMAIN deps)
  <2>1. Finished(s[n]) = DOMAIN deps
    <3>1. 1..Len(s[n].path) = {}
      BY <1>2
    <3>2. OnPath(s[n]) = {}
      BY <3>1 DEF OnPath
    <3> QED BY <1>2, <3>2 DEF Finished
  <2>2. NoCycleYet(deps, s[n])
    BY <1>1, <1>4 DEF SearchInv
  <2> QED BY <2>1, <2>2 DEF NoCycleYet, HasCycle
<1> QED BY <1>3, <1>4, CycleIsOne

\* A search that has not come to its end has a step to take.
THEOREM SearchGoesOn ==
  ASSUME NEW deps, IsGraph(deps), NEW s, NEW n \in Nat, IsSearching(deps, s, n),
         ~ SearchEnds(deps, s[n])
  PROVE  SearchSteps(deps, s[n]) # {}
<1> DEFINE t == s[n]
<1> DEFINE L == Len(t.path)
<1>1. t.path \in Seq(DOMAIN deps) /\ t.visited \subseteq DOMAIN deps /\ L \in Nat
  BY SearchKeeps DEF SearchInv, IsSearchState
<1>2. CASE t.path = <<>>
  <2>1. PICK m \in DOMAIN deps : m \notin t.visited
    BY <1>1, <1>2 DEF SearchEnds
  <2>2. Enter(t, m) \in Roots(deps, t)
    BY <1>2, <2>1 DEF Roots
  <2> QED BY <2>2 DEF SearchSteps
<1>3. CASE t.path # <<>> /\ t.todo[t.path[L]] # {}
  <2>1. PICK m \in t.todo[t.path[L]] : TRUE
    BY <1>3
  <2>2. Look(t, m) \in Looks(t)
    BY <1>3, <2>1 DEF Looks
  <2> QED BY <2>2 DEF SearchSteps
<1>4. CASE t.path # <<>> /\ t.todo[t.path[L]] = {}
  <2>1. t.path[L] \in OnPath(t)
    BY <1>1, <1>4 DEF OnPath
  <2>2. Returned(t) # {}
    BY <1>4, <2>1 DEF Returned
  <2> QED BY <2>2 DEF SearchSteps
<1> QED BY <1>2, <1>3, <1>4

\* What has been looked at, and how many steps it takes to get to s: every node is entered
\* and left, and what the steps in between look at is never looked at again.
Looked(deps, s) ==
    {e \in (DOMAIN deps) \X (DOMAIN deps) : e[2] \in Edges(deps, e[1]) \ s.todo[e[1]]}

StepsMade(deps, s) ==
    2 * Cardinality(s.visited) - Len(s.path) + Cardinality(Looked(deps, s))

LEMMA Sizes ==
  ASSUME NEW deps, IsFiniteSet(DOMAIN deps), NEW s, SearchInv(deps, s)
  PROVE  /\ IsFiniteSet(s.visited) /\ Cardinality(s.visited) \in Nat
         /\ Cardinality(s.visited) <= Cardinality(DOMAIN deps)
         /\ IsFiniteSet(Looked(deps, s)) /\ Cardinality(Looked(deps, s)) \in Nat
         /\ Cardinality(Looked(deps, s)) <= Cardinality(DOMAIN deps) * Cardinality(DOMAIN deps)
         /\ s.path \in Seq(DOMAIN deps) /\ Len(s.path) \in Nat
<1>1. s.visited \in SUBSET DOMAIN deps /\ s.path \in Seq(DOMAIN deps)
  BY DEF SearchInv, IsSearchState
<1>2. /\ IsFiniteSet(s.visited) /\ Cardinality(s.visited) \in Nat
      /\ Cardinality(s.visited) <= Cardinality(DOMAIN deps)
  BY <1>1, FS_Subset, FS_CardinalityType
<1>3. Looked(deps, s) \in SUBSET ((DOMAIN deps) \X (DOMAIN deps))
  BY DEF Looked
<1>4. /\ IsFiniteSet((DOMAIN deps) \X (DOMAIN deps))
      /\ Cardinality((DOMAIN deps) \X (DOMAIN deps)) = Cardinality(DOMAIN deps) * Cardinality(DOMAIN deps)
  BY FS_Product
<1>5. /\ IsFiniteSet(Looked(deps, s)) /\ Cardinality(Looked(deps, s)) \in Nat
      /\ Cardinality(Looked(deps, s)) <= Cardinality((DOMAIN deps) \X (DOMAIN deps))
  BY <1>3, <1>4, FS_Subset, FS_CardinalityType
<1> QED BY <1>1, <1>2, <1>4, <1>5

LEMMA StepIsCounted ==
  ASSUME NEW deps, IsGraph(deps), IsFiniteSet(DOMAIN deps), NEW s, SearchInv(deps, s),
         NEW t \in SearchSteps(deps, s)
  PROVE  StepsMade(deps, t) >= StepsMade(deps, s) + 1
<1> DEFINE top == s.path[Len(s.path)]
<1>1. SearchInv(deps, t)
  BY StepKeeps
<1>2. /\ IsFiniteSet(s.visited) /\ Cardinality(s.visited) \in Nat
      /\ s.path \in Seq(DOMAIN deps) /\ Len(s.path) \in Nat
      /\ IsFiniteSet(Looked(deps, s)) /\ Cardinality(Looked(deps, s)) \in Nat
      /\ IsFiniteSet(Looked(deps, t)) /\ Cardinality(Looked(deps, t)) \in Nat
  BY <1>1, Sizes
<1>3. ASSUME NEW n, LooksAt(deps, s, t, n)
      PROVE  Looked(deps, s) \subseteq Looked(deps, t)
  <2>1. \A m \in DOMAIN deps : t.todo[m] \subseteq s.todo[m]
    BY <1>3 DEF LooksAt
  <2>2. ASSUME NEW e \in Looked(deps, s) PROVE e \in Looked(deps, t)
    <3>1. e \in (DOMAIN deps) \X (DOMAIN deps)
      BY Zenon DEF Looked
    <3>2. e[2] \in Edges(deps, e[1]) /\ e[2] \notin s.todo[e[1]]
      BY Zenon DEF Looked
    <3>3. e[1] \in DOMAIN deps
      BY <3>1
    <3>4. e[2] \notin t.todo[e[1]]
      BY <2>1, <3>2, <3>3
    <3> QED BY <3>1, <3>2, <3>4 DEF Looked
  <2> QED BY <2>2
<1>4. ASSUME NEW n, Enters(deps, s, t, n)
      PROVE  StepsMade(deps, t) >= StepsMade(deps, s) + 1
  <2>1. Cardinality(t.visited) = Cardinality(s.visited) + 1
    <3>1. n \notin s.visited /\ t.visited = s.visited \union {n}
      BY <1>4 DEF Enters
    <3> QED BY <1>2, <3>1, FS_AddElement
  <2>2. Len(t.path) = Len(s.path) + 1
    BY <1>2, <1>4 DEF Enters
  <2>3. Cardinality(Looked(deps, s)) <= Cardinality(Looked(deps, t))
    <3>1. Looked(deps, s) \in SUBSET Looked(deps, t)
      BY <1>3, <1>4 DEF Enters
    <3> QED BY <1>2, <3>1, FS_Subset
  <2> QED BY <1>2, <2>1, <2>2, <2>3 DEF StepsMade
<1>5. ASSUME NEW m, LooksBack(deps, s, t, m)
      PROVE  StepsMade(deps, t) >= StepsMade(deps, s) + 1
  <2>1. m \in s.todo[top] /\ s.path # <<>> /\ top \in DOMAIN deps
    BY <1>2, <1>5 DEF LooksBack
  <2>2. m \in Edges(deps, top) /\ m \in DOMAIN deps
    BY <2>1 DEF SearchInv, TodoOK, Edges
  <2>3. t.todo[top] = s.todo[top] \ {m}
    BY <1>5, <2>1 DEF LooksBack, LooksAt
  <2>4. <<top, m>> \in Looked(deps, t) /\ <<top, m>> \notin Looked(deps, s)
    <3> DEFINE e == <<top, m>>
    <3>1. e \in (DOMAIN deps) \X (DOMAIN deps) /\ e[1] = top /\ e[2] = m
      BY <2>1, <2>2
    <3> HIDE DEF e
    <3>2. e[2] \in Edges(deps, e[1]) /\ e[2] \notin t.todo[e[1]] /\ e[2] \in s.todo[e[1]]
      BY <2>1, <2>2, <2>3, <3>1
    <3>3. e \in Looked(deps, t) /\ e \notin Looked(deps, s)
      BY <3>1, <3>2 DEF Looked
    <3> QED BY <3>3 DEF e
  <2>5. Looked(deps, s) \union {<<top, m>>} \in SUBSET Looked(deps, t)
    BY <1>3, <1>5, <2>4 DEF LooksBack
  <2>6. Cardinality(Looked(deps, s)) + 1 <= Cardinality(Looked(deps, t))
    <3>1. Cardinality(Looked(deps, s) \union {<<top, m>>}) = Cardinality(Looked(deps, s)) + 1
      BY <1>2, <2>4, FS_AddElement
    <3> QED BY <1>2, <2>5, <3>1, FS_Subset
  <2>7. t.visited = s.visited /\ t.path = s.path
    BY <1>5 DEF LooksBack
  <2> QED BY <1>2, <2>6, <2>7 DEF StepsMade
<1>6. ASSUME GoesBack(s, t) PROVE StepsMade(deps, t) >= StepsMade(deps, s) + 1
  <2>1. t.visited = s.visited /\ Looked(deps, t) = Looked(deps, s)
    BY <1>6 DEF GoesBack, Looked
  <2>2. Len(t.path) = Len(s.path) - 1
    <3>1. Len(s.path) # 0
      BY <1>2, <1>6 DEF GoesBack
    <3>2. t.path = SubSeq(s.path, 1, Len(s.path) - 1)
      BY <1>6 DEF GoesBack
    <3> QED BY <1>2, <3>1, <3>2
  <2> QED BY <1>2, <2>1, <2>2 DEF StepsMade
<1> QED BY <1>4, <1>5, <1>6, StepShapes

\* A search makes no more steps than to enter and leave every node and to look at every pair
\* of them once: with SearchGoesOn, detect_cycles comes to its end for every finite graph.
THEOREM SearchIsBounded ==
  ASSUME NEW deps, IsGraph(deps), IsFiniteSet(DOMAIN deps),
         NEW s, NEW n \in Nat, IsSearching(deps, s, n)
  PROVE  n <= 2 * Cardinality(DOMAIN deps) + Cardinality(DOMAIN deps) * Cardinality(DOMAIN deps)
<1>1. \A i \in 0..n : SearchInv(deps, s[i])
  BY SearchKeeps
<1>2. ASSUME NEW i \in 0..n PROVE StepsMade(deps, s[i]) \in Int
  <2>1. SearchInv(deps, s[i])
    BY <1>1
  <2>2. /\ Cardinality(s[i].visited) \in Nat /\ Len(s[i].path) \in Nat
        /\ Cardinality(Looked(deps, s[i])) \in Nat
    BY <2>1, Sizes
  <2> QED BY <2>2 DEF StepsMade
<1>3. \A i \in 0..n : StepsMade(deps, s[i]) >= i
  <2> DEFINE wrong == {i \in 0..n : ~ (StepsMade(deps, s[i]) >= i)}
  <2> SUFFICES ASSUME wrong # {} PROVE FALSE
    OBVIOUS
  <2>1. PICK m \in wrong : \A i \in wrong : m <= i
    <3>1. wrong \subseteq Nat
      OBVIOUS
    <3> QED BY <3>1, LeastNumber
  <2>2. m # 0
    <3>1. SearchInv(deps, s[0])
      BY <1>1
    <3>2. Len(s[0].path) = 0
      BY DEF IsSearching, SearchBegins
    <3>3. StepsMade(deps, s[0]) >= 0
      BY <3>1, <3>2, Sizes DEF StepsMade
    <3> QED BY <2>1, <3>3
  <2>3. m - 1 \in 0 .. n - 1 /\ m - 1 \in 0..n /\ (m - 1) + 1 = m /\ ~ (m <= m - 1)
    BY <2>1, <2>2
  <2>4. StepsMade(deps, s[m - 1]) >= m - 1
    BY <2>1, <2>3
  <2>5. s[m] \in SearchSteps(deps, s[m - 1])
    BY <2>3 DEF IsSearching
  <2>6. StepsMade(deps, s[m]) >= StepsMade(deps, s[m - 1]) + 1
    BY <1>1, <2>3, <2>5, StepIsCounted
  <2> QED BY <1>2, <2>1, <2>3, <2>4, <2>6
<1>4. StepsMade(deps, s[n]) >= n /\ SearchInv(deps, s[n])
  BY <1>1, <1>3
<1>5. Cardinality(DOMAIN deps) \in Nat
  BY FS_CardinalityType
<1> DEFINE pairs == Cardinality(DOMAIN deps) * Cardinality(DOMAIN deps)
<1>6. /\ Cardinality(s[n].visited) \in Nat /\ Cardinality(s[n].visited) <= Cardinality(DOMAIN deps)
      /\ Cardinality(Looked(deps, s[n])) \in Nat /\ Cardinality(Looked(deps, s[n])) <= pairs
      /\ Len(s[n].path) \in Nat
  BY <1>4, Sizes
<1>7. pairs \in Nat
  BY <1>5
<1> HIDE DEF pairs
<1>8. n <= 2 * Cardinality(s[n].visited) - Len(s[n].path) + Cardinality(Looked(deps, s[n]))
  BY <1>4 DEF StepsMade
<1>9. n <= 2 * Cardinality(DOMAIN deps) + pairs
  BY <1>5, <1>6, <1>7, <1>8, SMTT(20)
<1> QED BY <1>9 DEF pairs

(***************************************************************************)
(* The plan, and what the executor does with both.                         *)
(***************************************************************************)

LEMMA PlanHasCalls ==
  ASSUME NEW deps, NEW left, NEW n \in Nat, IsPlanning(deps, left, n)
  PROVE  \A i \in 0..n : left[i] \subseteq DOMAIN deps
<1> DEFINE wrong == {i \in 0..n : ~ (left[i] \subseteq DOMAIN deps)}
<1> SUFFICES ASSUME wrong # {} PROVE FALSE
  OBVIOUS
<1>1. PICK m \in wrong : \A i \in wrong : m <= i
  <2>1. wrong \subseteq Nat
    OBVIOUS
  <2> QED BY <2>1, LeastNumber
<1>2. m # 0
  BY <1>1 DEF IsPlanning
<1>3. m - 1 \in 0 .. n - 1 /\ m - 1 \in 0..n /\ (m - 1) + 1 = m /\ ~ (m <= m - 1)
  BY <1>1, <1>2
<1>4. left[m] = left[m - 1] \ NextLayer(deps, left[m - 1])
  BY <1>3 DEF IsPlanning
<1> QED BY <1>1, <1>3, <1>4

\* build_execution_plan stops with calls left over exactly if there is a cycle.
LEMMA PlanLeaves ==
  ASSUME NEW deps, NEW left, NEW n \in Nat, IsPlanning(deps, left, n)
  PROVE  left[n] # {} <=> HasCycle(deps, DOMAIN deps)
<1>1. ASSUME NEW S \in SUBSET DOMAIN deps, \A c \in S : deps[c] \intersect S # {}
      PROVE  \A i \in 0..n : S \subseteq left[i]
  <2> DEFINE wrong == {i \in 0..n : ~ (S \subseteq left[i])}
  <2> SUFFICES ASSUME wrong # {} PROVE FALSE
    OBVIOUS
  <2>1. PICK m \in wrong : \A i \in wrong : m <= i
    <3>1. wrong \subseteq Nat
      OBVIOUS
    <3> QED BY <3>1, LeastNumber
  <2>2. m # 0
    BY <2>1 DEF IsPlanning
  <2>3. m - 1 \in 0 .. n - 1 /\ m - 1 \in 0..n /\ (m - 1) + 1 = m /\ ~ (m <= m - 1)
    BY <2>1, <2>2
  <2>4. S \subseteq left[m - 1]
    BY <2>1, <2>3
  <2>5. left[m] = left[m - 1] \ NextLayer(deps, left[m - 1])
    BY <2>3 DEF IsPlanning
  <2>6. \A c \in S : c \notin NextLayer(deps, left[m - 1])
    BY <1>1, <2>4 DEF NextLayer
  <2> QED BY <2>1, <2>4, <2>5, <2>6
<1>2. left[n] \subseteq DOMAIN deps
  BY PlanHasCalls
<1>3. ASSUME left[n] # {} PROVE HasCycle(deps, DOMAIN deps)
  <2>1. \A c \in left[n] : deps[c] \intersect left[n] # {}
    BY DEF IsPlanning, NextLayer
  <2> QED BY <1>2, <1>3, <2>1 DEF HasCycle
<1>4. ASSUME HasCycle(deps, DOMAIN deps) PROVE left[n] # {}
  <2>1. PICK S \in (SUBSET DOMAIN deps) \ {{}} : \A c \in S : deps[c] \intersect S # {}
    BY <1>4 DEF HasCycle
  <2>2. n \in 0..n
    OBVIOUS
  <2>3. S \subseteq left[n]
    BY <1>1, <2>1, <2>2
  <2> QED BY <2>1, <2>3
<1> QED BY <1>3, <1>4

\* A layer of the plan is the first that is behind all its calls refer to: nothing starts
\* too early, and nothing is put off that could run.
THEOREM LayersAreEarliest ==
  ASSUME NEW deps, IsGraph(deps), NEW left, NEW n \in Nat, IsPlanning(deps, left, n),
         NEW i \in 0..n, NEW c \in NextLayer(deps, left[i])
  PROVE  /\ deps[c] \subseteq DOMAIN deps \ left[i]
         /\ i > 0 => deps[c] \intersect NextLayer(deps, left[i - 1]) # {}
<1>1. c \in left[i] /\ deps[c] \intersect left[i] = {}
  BY DEF NextLayer
<1>2. deps[c] \subseteq DOMAIN deps
  BY <1>1, PlanHasCalls DEF IsGraph
<1>3. ASSUME i > 0 PROVE deps[c] \intersect NextLayer(deps, left[i - 1]) # {}
  <2>1. i - 1 \in 0 .. n - 1 /\ (i - 1) + 1 = i
    BY <1>3
  <2>2. left[i] = left[i - 1] \ NextLayer(deps, left[i - 1])
    BY <2>1 DEF IsPlanning
  <2>3. PICK d \in deps[c] : d \in left[i - 1]
    BY <1>1, <2>2 DEF NextLayer
  <2> QED BY <1>1, <2>2, <2>3
<1> QED BY <1>1, <1>2, <1>3

\* The plan leaves calls out, without an error, exactly when the search reports a cycle.
THEOREM OmissionsReported ==
  ASSUME NEW deps, IsGraph(deps), NEW left, NEW k \in Nat, IsPlanning(deps, left, k),
         NEW s, NEW n \in Nat, IsSearch(deps, s, n)
  PROVE  left[k] # {} <=> s[n].cycles # {}
BY PlanLeaves, SearchAnswers

\* The graph that analyze_dependencies makes of a batch.
GraphOf(b) == [c \in Members(b) |-> Deps[c]]

\* execute_with_dependencies turns a batch down exactly if the search through the graph of
\* the batch reports a cycle: the guards of SubmitLayers and Reject are what the code tests.
THEOREM RejectedAsSearched ==
  ASSUME TypeOK, NEW b \in Batches, NEW s, NEW n \in Nat, IsSearch(GraphOf(b), s, n)
  PROVE  HasCycle(Deps, Members(b)) <=> s[n].cycles # {}
<1>1. /\ DOMAIN GraphOf(b) = Members(b)
      /\ \A c \in Members(b) : GraphOf(b)[c] = Deps[c] /\ Deps[c] \subseteq Members(b)
  BY DEF GraphOf, Deps, Members
<1>2. IsGraph(GraphOf(b))
  BY <1>1 DEF IsGraph, GraphOf
<1>3. HasCycle(GraphOf(b), Members(b)) <=> HasCycle(Deps, Members(b))
  BY <1>1 DEF HasCycle
<1> QED BY <1>1, <1>2, <1>3, SearchAnswers

=============================================================================
