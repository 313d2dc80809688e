------------------------------- MODULE Outside -------------------------------
(***************************************************************************)
(* The bound on what the models of the vendored libraries let the outside  *)
(* world do: operators, remote charms, clocks and calls of the charm.      *)
(***************************************************************************)
EXTENDS Integers

CONSTANTS
    None,
    MaxChanges  \* bound on the number of outside changes

ASSUME ChangesAssumption == MaxChanges \in Nat

VARIABLE changes  \* how many more outside changes may happen

ChangesLeft == changes \in 0..MaxChanges

\* One outside change.
Change == changes > 0 /\ changes' = changes - 1
=============================================================================
