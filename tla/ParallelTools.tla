---------------------------- MODULE ParallelTools ----------------------------
(***************************************************************************)
(* Batches of tool calls (parallel_tool_executor.py) and the cache of tool *)
(* results that all batches of the process share (tool_result_cache.py).   *)
(* execute_batch runs the calls side by side, execute_with_dependencies in *)
(* layers.  Everything runs on one event loop; registry.execute and the    *)
(* sleep before a retry are the only awaits that let others run.           *)
(*                                                                         *)
(* The output of an execution is the time at which it ended: it stands for *)
(* the state of the world that the tool saw.                               *)
(***************************************************************************)
EXTENDS Integers, FiniteSets, ToolGraph

CONSTANTS
    Batches,
    Calls,          \* numbered by their places in the lists
    BatchOf,        \* BatchOf[c]: the batch of the call
    ToolOf,         \* ToolOf[c]: tool_name with the arguments that refer to nothing
    Graphs,         \* the references in the arguments: g[c][d], what c asks of d
    Options,        \* which execute method the batches use, allow_partial_failure
    MaxConcurrent,  \* slots of the semaphore
    Retries,        \* retry_count
    MaxSize,        \* of the cache
    TTL,
    MaxTime         \* bound: the clock stops behind this time

\* "success" stands for all other attributes, and "nested" for an output that is asked
\* for within a list or a dictionary: neither is resolved.
Attributes == {"output", "error", "success", "nested"}

ASSUME CallsAssumption ==
    /\ Calls \subseteq Nat
    /\ BatchOf \in [Calls -> Batches]
    /\ DOMAIN ToolOf = Calls
    /\ Graphs \subseteq [Calls -> UNION {[S -> Attributes] : S \in SUBSET Calls}]
    /\ Options \subseteq [Batches -> [layers : BOOLEAN, partial : BOOLEAN]]

ASSUME BoundsAssumption ==
    /\ MaxConcurrent \in Nat \ {0}
    /\ MaxSize \in Nat \ {0}
    /\ TTL \in Nat
    /\ Retries \in Nat
    /\ MaxTime \in Nat

VARIABLES
    now,
    cache,    \* entries by key
    refs,     \* the references in the arguments of every call
    opts,     \* opts[b]: whether the batch has layers, allow_partial_failure
    phase,    \* phase[b]: "new", "running", "ended" or "rejected"
    rest,     \* rest[b]: the calls that no layer has had yet
    layer,    \* layer[b]: the calls of the current layer
    args,     \* args[c]: the arguments that the call runs with
    pc,       \* pc[c]: "idle", "queued", "running", "backoff" or "done"
    tries,    \* tries[c]: executions begun
    result

request == <<refs, opts>>
batchVars == <<phase, rest, layer, args>>
callVars == <<pc, tries, result>>
vars == <<now, cache, request, batchVars, callVars>>

Members(b) == {c \in Calls : BatchOf[c] = b}

\* _extract_dependencies finds every reference, to known calls and others, and those
\* within lists and dictionaries too.
Deps == [c \in Calls |-> DOMAIN refs[c] \intersect Members(BatchOf[c])]

\* Values of arguments and outputs other than times: None, the message of an
\* error, and the reference itself as it stands.
NoError == -1
ErrorText == -2
Literal(attribute) ==
    CASE attribute = "output" -> -3
      [] attribute = "error" -> -4
      [] attribute = "nested" -> -5
      [] OTHER -> -6

Times == 1 .. MaxTime + 1
Values == Times \union -6 .. -1
Keys == {<<ToolOf[c], a>> :
    c \in Calls, a \in UNION {[S -> Values] : S \in SUBSET Calls}}
Entries == [output : Times, created : Times, accessed : Times \union {0}]
NoResult == [status |-> "none", output |-> 0, cached |-> FALSE]
Ok(output, cached) == [status |-> "ok", output |-> output, cached |-> cached]
Failure == [status |-> "failed", output |-> 0, cached |-> FALSE]
Results == {NoResult, Failure} \union {Ok(t, hit) : t \in Times, hit \in BOOLEAN}

TypeOK ==
    /\ now \in Times
    /\ DOMAIN cache \subseteq Keys
    /\ \A k \in DOMAIN cache : cache[k] \in Entries
    /\ refs \in Graphs
    /\ opts \in Options
    /\ phase \in [Batches -> {"new", "running", "ended", "rejected"}]
    /\ rest \in [Batches -> SUBSET Calls]
    /\ layer \in [Batches -> SUBSET Calls]
    /\ args \in [Calls -> UNION {[S -> Values] : S \in SUBSET Calls}]
    /\ pc \in [Calls -> {"idle", "queued", "running", "backoff", "done"}]
    /\ tries \in [Calls -> 0 .. Retries + 1]
    /\ result \in [Calls -> Results]

Init ==
    /\ now = 1
    /\ cache = [k \in {} |-> NoResult]
    /\ refs \in Graphs
    /\ opts \in Options
    /\ phase = [b \in Batches |-> "new"]
    /\ rest = [b \in Batches |-> Members(b)]
    /\ layer = [b \in Batches |-> {}]
    /\ args = [c \in Calls |-> [d \in DOMAIN refs[c] |-> Literal(refs[c][d])]]
    /\ pc = [c \in Calls |-> "idle"]
    /\ tries = [c \in Calls |-> 0]
    /\ result = [c \in Calls |-> NoResult]
-----------------------------------------------------------------------------
(***************************************************************************)
(* The cache.                                                              *)
(***************************************************************************)
Key(c) == <<ToolOf[c], args[c]>>

Expired(k) == now - cache[k].created >= TTL

Without(S) == [k \in DOMAIN cache \ S |-> cache[k]]

\* _evict_lru: the least of (last_accessed, created_at); an entry that was never
\* read has last_accessed 0.
NotAfter(j, k) ==
    \/ cache[j].accessed < cache[k].accessed
    \/ cache[j].accessed = cache[k].accessed /\ cache[j].created <= cache[k].created

Evictable == {k \in DOMAIN cache : \A j \in DOMAIN cache : NotAfter(k, j)}

FullFor(k) == Cardinality(DOMAIN cache) >= MaxSize /\ k \notin DOMAIN cache

Store(k) ==
    LET entry == [output |-> now, created |-> now, accessed |-> 0] IN
    \E gone \in IF FullFor(k) THEN {{e} : e \in Evictable} ELSE {{}} :
        cache' = [j \in (DOMAIN cache \ gone) \union {k} |->
                     IF j = k THEN entry ELSE cache[j]]

\* Mutant: a hit renews the entry.
TouchAndRenew(k) ==
    cache' = [cache EXCEPT ![k].accessed = now, ![k].created = now]

Touch(k) == cache' = [cache EXCEPT ![k].accessed = now]
-----------------------------------------------------------------------------
(***************************************************************************)
(* Calls.                                                                  *)
(***************************************************************************)

\* Mutant: a call that was answered from the cache keeps its slot.
InsideOrHit(b) ==
    {c \in Members(b) : pc[c] \in {"running", "backoff"} \/ result[c].cached}

\* The calls of the batch that are in its semaphore.
Inside(b) == {c \in Members(b) : pc[c] \in {"running", "backoff"}}

\* The semaphore lets calls in in the order of the list.
MayEnter(c) ==
    /\ pc[c] = "queued"
    /\ Cardinality(Inside(BatchOf[c])) < MaxConcurrent
    /\ \A d \in Members(BatchOf[c]) : pc[d] = "queued" => c <= d

Hit(c) ==
    /\ MayEnter(c)
    /\ Key(c) \in DOMAIN cache
    /\ ~Expired(Key(c))
    /\ Touch(Key(c))
    /\ result' = [result EXCEPT ![c] = Ok(cache[Key(c)].output, TRUE)]
    /\ pc' = [pc EXCEPT ![c] = "done"]
    /\ UNCHANGED <<now, request, batchVars, tries>>

Miss(c) ==
    /\ MayEnter(c)
    /\ Key(c) \in DOMAIN cache => Expired(Key(c))
    /\ cache' = Without({Key(c)})
    /\ pc' = [pc EXCEPT ![c] = "running"]
    /\ tries' = [tries EXCEPT ![c] = 1]
    /\ UNCHANGED <<now, request, batchVars, result>>

\* The tool returns whenever it likes: no timeout is applied.
Returns(c) == pc[c] = "running"

Succeed(c) ==
    /\ Returns(c)
    /\ Store(Key(c))
    /\ result' = [result EXCEPT ![c] = Ok(now, FALSE)]
    /\ pc' = [pc EXCEPT ![c] = "done"]
    /\ UNCHANGED <<now, request, batchVars, tries>>

MayRetry(c) == tries[c] <= Retries

\* A record that says so, or an exception.
Fail(c) ==
    /\ Returns(c)
    /\ \/ /\ MayRetry(c)
          /\ pc' = [pc EXCEPT ![c] = "backoff"]
          /\ UNCHANGED result
       \/ /\ ~MayRetry(c)
          /\ pc' = [pc EXCEPT ![c] = "done"]
          /\ result' = [result EXCEPT ![c] = Failure]
    /\ UNCHANGED <<now, cache, request, batchVars, tries>>

\* The call keeps its slot in the meantime, and does not look at the cache again.
Retry(c) ==
    /\ pc[c] = "backoff"
    /\ pc' = [pc EXCEPT ![c] = "running"]
    /\ tries' = [tries EXCEPT ![c] = @ + 1]
    /\ UNCHANGED <<now, cache, request, batchVars, result>>
-----------------------------------------------------------------------------
(***************************************************************************)
(* Batches.                                                                *)
(***************************************************************************)

\* Mutant: only the results of the last layer are at hand.
LastLayer(b) == layer[b]

\* The calls whose results are in `results`.
Previous(b) == Members(b) \ rest[b]

\* What a reference stands for when its call is resolved: _resolve_call_dependencies
\* looks at the arguments themselves, not into them.
Resolved(c, d) ==
    LET attribute == refs[c][d]
        known == d \in Previous(BatchOf[c])
    IN  IF known /\ attribute = "output" /\ result[d].status = "ok"
        THEN result[d].output
        ELSE IF known /\ attribute = "error"
        THEN IF result[d].status = "ok" THEN NoError ELSE ErrorText
        ELSE Literal(attribute)

StartLayer(b, next) ==
    /\ rest' = [rest EXCEPT ![b] = @ \ next]
    /\ layer' = [layer EXCEPT ![b] = next]
    /\ pc' = [c \in Calls |-> IF c \in next THEN "queued" ELSE pc[c]]
    /\ args' = [c \in Calls |->
                   IF c \in next THEN [d \in DOMAIN refs[c] |-> Resolved(c, d)]
                   ELSE args[c]]

\* To the next layer of the plan, or to the end of it.
Advance(b) ==
    LET next == NextLayer(Deps, rest[b]) IN
    \/ /\ next # {}
       /\ phase' = [phase EXCEPT ![b] = "running"]
       /\ StartLayer(b, next)
    \/ /\ next = {}
       /\ phase' = [phase EXCEPT ![b] = "ended"]
       /\ UNCHANGED <<rest, layer, args, pc>>

\* execute_batch: all calls at once, with their arguments as they are.
SubmitFlat(b) ==
    /\ phase[b] = "new"
    /\ ~opts[b].layers
    /\ phase' = [phase EXCEPT ![b] = "running"]
    /\ rest' = [rest EXCEPT ![b] = {}]
    /\ layer' = [layer EXCEPT ![b] = Members(b)]
    /\ pc' = [c \in Calls |-> IF c \in Members(b) THEN "queued" ELSE pc[c]]
    /\ UNCHANGED <<now, cache, request, args, tries, result>>

\* Mutant: the plan is carried out whatever detect_cycles says.
SubmitUnchecked(b) ==
    /\ phase[b] = "new"
    /\ opts[b].layers
    /\ Advance(b)
    /\ UNCHANGED <<now, cache, request, tries, result>>

SubmitLayers(b) ==
    /\ phase[b] = "new"
    /\ opts[b].layers
    /\ ~HasCycle(Deps, Members(b))
    /\ Advance(b)
    /\ UNCHANGED <<now, cache, request, tries, result>>

Reject(b) ==
    /\ phase[b] = "new"
    /\ opts[b].layers
    /\ HasCycle(Deps, Members(b))
    /\ phase' = [phase EXCEPT ![b] = "rejected"]
    /\ UNCHANGED <<now, cache, request, rest, layer, args, callVars>>

\* Mutant: the batch stops when a whole layer has failed.
AllFailed(b) == \A c \in layer[b] : result[c].status = "failed"

AnyFailed(b) == \E c \in layer[b] : result[c].status = "failed"

LayerIsDone(b) == phase[b] = "running" /\ \A c \in layer[b] : pc[c] = "done"

EndLayer(b) ==
    /\ LayerIsDone(b)
    /\ \/ /\ ~opts[b].partial
          /\ AnyFailed(b)
          /\ phase' = [phase EXCEPT ![b] = "ended"]
          /\ UNCHANGED <<rest, layer, args, pc>>
       \/ /\ opts[b].partial \/ ~AnyFailed(b)
          /\ Advance(b)
    /\ UNCHANGED <<now, cache, request, tries, result>>
-----------------------------------------------------------------------------
Tick ==
    /\ now <= MaxTime
    /\ now' = now + 1
    /\ UNCHANGED <<cache, request, batchVars, callVars>>

CallStep(c) == Hit(c) \/ Miss(c) \/ Succeed(c) \/ Fail(c) \/ Retry(c)
BatchStep(b) == SubmitFlat(b) \/ SubmitLayers(b) \/ Reject(b) \/ EndLayer(b)

Next ==
    \/ \E c \in Calls : CallStep(c)
    \/ \E b \in Batches : BatchStep(b)
    \/ Tick

Spec == Init /\ [][Next]_vars

\* The event loop runs what is ready, sleeps end, and the tools return, which is
\* assumed of them; whether a batch comes is not promised.
Fairness ==
    /\ \A c \in Calls : WF_vars(CallStep(c))
    /\ \A b \in Batches : WF_vars(EndLayer(b))

FairSpec == Spec /\ Fairness
-----------------------------------------------------------------------------
(***************************************************************************)
(* Properties.                                                             *)
(***************************************************************************)
Begun(c) == pc[c] # "idle"

\* A call of a batch with layers is not even queued before every call that it
\* refers to has its result (build_execution_plan, execute_with_dependencies).
DependenciesFirst ==
    \A c \in Calls : Begun(c) /\ opts[BatchOf[c]].layers =>
        \A d \in Deps[c] : pc[d] = "done"

\* An argument that is a reference to an output or an error carries the result of the
\* call it names, from whichever layer, and stands as it is when there is no such
\* output; references within lists and dictionaries stand as they are, whatever has
\* become of the call (_resolve_call_dependencies against the results of all layers).
ReferencesCarry ==
    \A c \in Calls : Begun(c) /\ opts[BatchOf[c]].layers =>
        \A d \in Deps[c] :
            LET attribute == refs[c][d] IN
            args[c][d] =
                CASE attribute = "output" /\ result[d].status = "ok" -> result[d].output
                  [] attribute = "error" /\ result[d].status = "ok" -> NoError
                  [] attribute = "error" /\ result[d].status = "failed" -> ErrorText
                  [] OTHER -> Literal(attribute)

\* Without allow_partial_failure nothing that refers to a failed call is run, not
\* even through calls that did not fail; nor is any call of a later layer.
FailureStopsLaterLayers ==
    \A c, d \in Calls :
        /\ BatchOf[c] = BatchOf[d]
        /\ opts[BatchOf[c]].layers
        /\ ~opts[BatchOf[c]].partial
        /\ result[c].status = "failed"
        /\ Begun(d)
        => /\ c \in layer[BatchOf[c]]
           /\ d \in layer[BatchOf[c]] \/ result[d].status = "ok"

\* A batch that ends without having been stopped has a result for every call, and
\* one that is rejected has run none, though its plan was made before the cycles
\* were looked for.
EndedIsComplete ==
    \A b \in Batches :
        /\ phase[b] = "ended" =>
             \/ \A c \in Members(b) : result[c].status # "none"
             \/ ~opts[b].partial /\ \E c \in Members(b) : result[c].status = "failed"
        /\ phase[b] = "rejected" => \A c \in Members(b) : ~Begun(c)

\* A batch that is running always has a next step: its layer is done, or one of its calls
\* may enter the semaphore, or is in it; and whoever stores a result in a full cache finds
\* an entry to evict. The slots held through retries and their sleeps never add up to a halt.
GoesOn(b) ==
    \/ LayerIsDone(b)
    \/ \E c \in layer[b] : MayEnter(c) \/ Returns(c) \/ pc[c] = "backoff"
NothingIsStuck ==
    /\ \A b \in Batches : phase[b] = "running" => GoesOn(b)
    /\ \A c \in Calls : Returns(c) /\ FullFor(Key(c)) => Evictable # {}

\* The cache never holds more than max_size results, however the calls of several
\* batches interleave between their looks into it and their stores.
CacheIsBounded == Cardinality(DOMAIN cache) <= MaxSize

\* No result is served TTL or longer after its tool was run, however often it was
\* served in between: the bound on how far a cached result is behind what tools have
\* changed since.
HitsAreFresh ==
    [][\A c \in Calls : result'[c] # result[c] /\ result'[c].cached =>
           now - result'[c].output < TTL]_vars

\* Every batch that was taken on ends: no call waits for a slot for ever, and no
\* layer for a call (if the tools return).
BatchEnds == \A b \in Batches : phase[b] = "running" ~> phase[b] = "ended"

=============================================================================
