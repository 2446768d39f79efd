----------------------------- MODULE TaskService -----------------------------
(***************************************************************************)
(* What the sandbox tasks promise, with no heap, lock, consumer or loop:   *)
(* accepted tasks wait, the most urgent one first; one runs at a time, as  *)
(* often as it was asked for; and each is accounted for until it has an    *)
(* answer, was withdrawn, or was lost while it ran.                        *)
(***************************************************************************)
EXTENDS Integers

CONSTANTS
    Tasks,       \* in the order in which they are accepted
    Priorities,  \* the smaller the more urgent
    None         \* no task

VARIABLES
    accepted,
    waiting,
    urgency,     \* urgency[t]: the priority t was last asked for with
    credit,      \* credit[t]: how often t may be run from now on
    running,
    answered,    \* tasks whose last run has ended
    withdrawn,
    lost         \* tasks that were interrupted, without an answer

requests == <<accepted, urgency, credit, withdrawn>>
outcomes == <<answered, lost>>
serviceVars == <<requests, waiting, running, outcomes>>

ServiceInit ==
    /\ accepted = {}
    /\ waiting = {}
    /\ urgency \in [Tasks -> Priorities]
    /\ credit = [t \in Tasks |-> 1]
    /\ running = None
    /\ answered = {}
    /\ withdrawn = {}
    /\ lost = {}

Accept(t, p) ==
    /\ t \notin accepted
    /\ accepted' = accepted \union {t}
    /\ waiting' = waiting \union {t}
    /\ urgency' = [urgency EXCEPT ![t] = p]
    /\ UNCHANGED <<credit, withdrawn, running, outcomes>>

\* A task is asked for once more, wherever it is.
AskAgain(t, p) ==
    /\ t \in accepted
    /\ waiting' = waiting \union {t}
    /\ urgency' = [urgency EXCEPT ![t] = p]
    /\ credit' = [credit EXCEPT ![t] = @ + 1]
    /\ UNCHANGED <<accepted, withdrawn, running, outcomes>>

\* Only tasks that wait can be withdrawn.
Withdraw(S) ==
    /\ waiting' = waiting \ S
    /\ withdrawn' = withdrawn \union S
    /\ UNCHANGED <<accepted, urgency, credit, running, outcomes>>

\* Among equally urgent tasks the one accepted first.
NoLaterThan(t, s) ==
    urgency[t] < urgency[s] \/ (urgency[t] = urgency[s] /\ t <= s)

Run(t) ==
    /\ running = None
    /\ credit[t] > 0
    /\ \A s \in waiting : NoLaterThan(t, s)
    /\ running' = t
    /\ waiting' = waiting \ {t}
    /\ credit' = [credit EXCEPT ![t] = @ - 1]
    /\ answered' = answered \ {t}
    /\ UNCHANGED <<accepted, urgency, withdrawn, lost>>

Answer ==
    /\ running # None
    /\ running' = None
    /\ answered' = answered \union {running}
    /\ UNCHANGED <<requests, waiting, lost>>

Interrupt ==
    /\ running # None
    /\ running' = None
    /\ lost' = lost \union {running}
    /\ UNCHANGED <<requests, waiting, answered>>

ServiceNext ==
    \/ \E t \in Tasks, p \in Priorities : Accept(t, p) \/ AskAgain(t, p)
    \/ \E S \in SUBSET waiting : Withdraw(S)
    \/ \E t \in waiting : Run(t)
    \/ Answer
    \/ Interrupt

ServiceSpec == ServiceInit /\ [][ServiceNext]_serviceVars

=============================================================================
