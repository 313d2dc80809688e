----------------------------- MODULE Reconciler -----------------------------
(***************************************************************************)
(* TemporalK8SCharm._validate and ._update (src/src/charm.py): the one     *)
(* routine every handler ends in.  It checks configuration and shared      *)
(* state, pins the number of history shards, opens ports and replans the   *)
(* workload.                                                               *)
(***************************************************************************)
EXTENDS Juju

DBs == {"db", "visibility"}

\* Services with ports of their own; internal-frontend follows frontend.
Services == {"frontend", "history", "matching", "worker"}

\* The notices raised by actions: an action cannot be deferred.
IsAction(n) == n.handler \in ActionEvents

(***************************************************************************)
(* _validate.  config.bad names what is wrong with the configuration:      *)
(* "options" is checked before the shard count (log level, services),      *)
(* "limits" after it (rps, connection limits and durations).               *)
(***************************************************************************)
PassesFirstChecks == "options" \notin config.bad /\ peerReady

\* The databag holds a shard count and the option has been reset: reading
\* config["num-history-shards"] raises KeyError, which nobody catches.
ShardsUnreadable(b) ==
    PassesFirstChecks /\ b.shards # None /\ config.shards = None

ShardsAccepted(b) ==
    IF b.shards = None
    THEN config.shards # None /\ config.shards > 0
    ELSE b.shards = config.shards

\* Mutant of Pinned: the leader takes over whatever the option says.
PinnedAnew(h) ==
    IF PassesFirstChecks /\ config.shards # None /\ config.shards > 0 /\ leader = h.unit
    THEN [h EXCEPT !.bag.shards = config.shards]
    ELSE h

\* The leader pins the shard count, whatever the later checks say.
Pinned(h) ==
    IF /\ PassesFirstChecks /\ h.bag.shards = None
       /\ ShardsAccepted(h.bag) /\ leader = h.unit
    THEN [h EXCEPT !.bag.shards = config.shards]
    ELSE h

DatabasesConnected(b) == \A r \in DBs : b.conn[r] # None

AuthorizationReady(b) ==
    config.auth => /\ b.openfga # None
                   /\ b.openfga.complete
                   /\ b.openfga.model # None

ArchivalReady(b) == b.s3 # None => b.s3.bucket_created

Valid(b) ==
    /\ PassesFirstChecks
    /\ ShardsAccepted(b)
    /\ "limits" \notin config.bad
    /\ DatabasesConnected(b)
    /\ "frontend" \in config.services => b.schema_ready
    /\ AuthorizationReady(b)
    /\ ArchivalReady(b)

(***************************************************************************)
(* _update.                                                                *)
(***************************************************************************)
\* _open_service_ports, by the leader only.
ServicePorts(services) ==
    services \cup (IF "frontend" \in services THEN {"internal-frontend"} ELSE {})

\* Mutant of PortsOpened: ports are never closed.
PortsNeverClosed(h) ==
    IF leader = h.unit
    THEN [h EXCEPT !.ports = @ \cup ServicePorts(config.services)]
    ELSE h

PortsOpened(h) ==
    IF leader = h.unit THEN [h EXCEPT !.ports = ServicePorts(config.services)] ELSE h

\* Mutant of PlanOf: the shard count is read from the option.
PlanOfOption(b) ==
    [shards   |-> config.shards,
     conn     |-> b.conn,
     services |-> config.services,
     openfga  |-> IF config.auth THEN b.openfga ELSE None,
     s3       |-> b.s3]

\* The environment and command of the pebble layer, as far as it depends on
\* shared state and on the services option.
PlanOf(b) ==
    [shards   |-> b.shards,
     conn     |-> b.conn,
     services |-> config.services,
     openfga  |-> IF config.auth THEN b.openfga ELSE None,
     s3       |-> b.s3]

SetStatus(s) == status' = [status EXCEPT ![hook.unit] = s]

\* _update(event), called by a handler that has buffered h and set status s.
Update(h, s) ==
    LET p == Pinned(h) IN
    \/ /\ ShardsUnreadable(h.bag)
       /\ Raise
       /\ SetStatus(s)
       /\ UNCHANGED plan
    \/ /\ ~ShardsUnreadable(h.bag)
       /\ ~Valid(h.bag)
       /\ Return(p)
       /\ SetStatus("blocked")
       /\ UNCHANGED plan
    \/ /\ Valid(h.bag)
       /\ ~up[h.unit]
       /\ IF IsAction(Head(h.todo)) THEN Raise ELSE Defer(PortsOpened(p))
       /\ SetStatus(s)
       /\ UNCHANGED plan
    \/ /\ Valid(h.bag)
       /\ up[h.unit]
       /\ Return(PortsOpened(p))
       /\ plan' = [plan EXCEPT ![h.unit] = PlanOf(p.bag)]
       /\ SetStatus("maintenance")

\* A handler that returns, or defers, without having changed anything.
Ignore    == Return(hook) /\ UNCHANGED <<status, plan>>
Postpone  == Defer(hook) /\ UNCHANGED <<status, plan>>
Fail      == Raise /\ UNCHANGED <<status, plan>>
IsLeader  == leader = hook.unit
=============================================================================
