---------------------------- MODULE ShardRegister ----------------------------
(***************************************************************************)
(* What the charm promises about num-history-shards: a register that is    *)
(* written once, and servers that only ever run with the count that is in  *)
(* it, or that goes into it next.  A Temporal cluster whose servers        *)
(* disagree about the count, or change it, loses its histories.            *)
(***************************************************************************)
EXTENDS Naturals

CONSTANTS
    Servers,  \* the servers that read the register
    Counts,   \* the counts there may be
    None

VARIABLES
    value,  \* the register, None before it is written
    held    \* the count each server runs with, None if it has none

vars == <<value, held>>

\* Nobody has another count than c.
Agreed(c) == value \in {None, c} /\ \A s \in Servers : held[s] \in {None, c}

\* A server may be started before the register is written, but not with a
\* count that is not written in the end.
Start(s) ==
    \E c \in Counts :
        /\ Agreed(c)
        /\ held' = [held EXCEPT ![s] = c]
        /\ UNCHANGED value

Stop(s) ==
    /\ held' = [held EXCEPT ![s] = None]
    /\ UNCHANGED value

Write ==
    \E c \in Counts :
        /\ value = None
        /\ Agreed(c)
        /\ value' = c
        /\ UNCHANGED held

Init == value = None /\ held = [s \in Servers |-> None]

Next ==
    \/ \E s \in Servers : Start(s)
    \/ \E s \in Servers : Stop(s)
    \/ Write

Spec == Init /\ [][Next]_vars
=============================================================================
