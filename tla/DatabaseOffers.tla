--------------------------- MODULE DatabaseOffers ----------------------------
(***************************************************************************)
(* What DatabaseRequires promises the units of a charm: each of them is    *)
(* told of a connection that stays, and told again when its endpoint has   *)
(* changed.  Nobody is told of new credentials behind the same endpoint.   *)
(* OfferDb and RemoveDb of TemporalCharm are these steps.                  *)
(***************************************************************************)
CONSTANTS
    Units,
    Endpoints,
    None

VARIABLES
    offered,  \* the endpoint of a complete connection, None if there is none
    told      \* per unit, the endpoint of the last event, None if incomplete

vars == <<offered, told>>

Offer(e) == offered # e /\ offered' = e /\ UNCHANGED told

Withdraw == offered # None /\ offered' = None /\ UNCHANGED told

\* database_created or endpoints_changed.
Tell(u) ==
    /\ offered # None
    /\ told[u] # offered
    /\ told' = [told EXCEPT ![u] = offered]
    /\ UNCHANGED offered

\* An event may come while the connection is incomplete.
Forget(u) ==
    /\ offered = None
    /\ told[u] # None
    /\ told' = [told EXCEPT ![u] = None]
    /\ UNCHANGED offered

\* The relation goes, for every unit.
Break ==
    /\ offered' = None
    /\ told' = [u \in Units |-> None]

Init == offered = None /\ told = [u \in Units |-> None]

Next ==
    \/ \E e \in Endpoints : Offer(e)
    \/ Withdraw
    \/ \E u \in Units : Tell(u) \/ Forget(u)
    \/ Break

\* The safety part alone.
Safe == Init /\ [][Next]_vars

Spec == Safe /\ \A u \in Units : WF_vars(Tell(u))
=============================================================================
