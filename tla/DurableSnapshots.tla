-------------------------- MODULE DurableSnapshots --------------------------
(***************************************************************************)
(* What the workflow definition store promises, with no threads, locks or  *)
(* file steps: a log of the states the map has gone through, and the       *)
(* position of the one that would survive a crash.  The position only      *)
(* moves forward; a crash discards what lies beyond it and nothing else.   *)
(***************************************************************************)
EXTENDS Naturals

CONSTANTS
    Content,     \* what one snapshot of the definitions can be
    Empty,       \* the content of a store that has no file yet
    MaxVersion   \* bound on the positions of the log

VARIABLES
    history,     \* history[v]: the definitions as of version v
    latest,      \* the version that is in memory
    durable      \* the version that is on disk

absVars == <<history, latest, durable>>

AbsInit ==
    /\ history = [v \in 0..MaxVersion |-> Empty]
    /\ latest = 0
    /\ durable = 0

\* A call changes the map in memory.
Mutate ==
    /\ latest < MaxVersion
    /\ latest' = latest + 1
    /\ \E c \in Content : history' = [history EXCEPT ![latest + 1] = c]
    /\ UNCHANGED durable

\* Some newer state reaches the disk; states in between may be skipped.
Flush ==
    /\ durable' \in (durable + 1)..latest
    /\ UNCHANGED <<history, latest>>

\* The process dies and starts again from the disk.
Lose ==
    /\ latest' = durable
    /\ UNCHANGED <<history, durable>>

AbsNext == Mutate \/ Flush \/ Lose

AbsSpec == AbsInit /\ [][AbsNext]_absVars

=============================================================================
