---------------------------- MODULE LogForwarding ----------------------------
(***************************************************************************)
(* LogForwarder of loki_push_api.py on one unit of the charm, related to   *)
(* several Lokis of several units.  The units share nothing, and forward   *)
(* for their own container only.  Alert rules, of which the charm has      *)
(* none, and the labels of a log target are left out.                      *)
(***************************************************************************)
EXTENDS Outside

CONSTANTS
    Lokis,     \* the applications the logging relation may lead to
    Replicas,  \* the units of each
    LokiUrls   \* the URLs their units may have

ASSUME LogAssumption == None \notin LokiUrls

VARIABLES
    lokiUnits,     \* the units of Loki in the relations
    lokiEndpoints, \* the endpoint in the databag of each, None if not written
    lokiJoined,    \* units of Loki with a hook to dispatch
    logTargets,    \* the endpoints Pebble forwards to, None where disabled
    logContainer,  \* the container can be reached
    logPending     \* hooks of the unit not dispatched

lokiSide == <<lokiUnits, lokiEndpoints, lokiJoined>>
logVars  == <<lokiSide, logTargets, logContainer, logPending, changes>>

LokiUnits == Lokis \X Replicas
NoTargets == [l \in LokiUnits |-> None]

(***************************************************************************)
(* The forwarder.                                                          *)
(***************************************************************************)
\* is_ready: a relation counts as soon as all of its units have an endpoint.
ReadyLokis == {r \in Lokis : \A l \in lokiUnits : l[1] = r => lokiEndpoints[l] # None}

ActiveEndpoints ==
    [l \in LokiUnits |-> IF l \in lokiUnits /\ l[1] \in ReadyLokis THEN lokiEndpoints[l] ELSE None]

\* Mutant of UpdateEndpoints: inactive ones are not disabled.
EnableEndpoints(targets) ==
    [l \in LokiUnits |-> IF ActiveEndpoints[l] # None THEN ActiveEndpoints[l] ELSE targets[l]]

\* Inactive endpoints are disabled and active ones enabled, unless there is
\* none: then everything stays as it is.
UpdateEndpoints(targets) == IF ActiveEndpoints = NoTargets THEN targets ELSE ActiveEndpoints

\* relation-joined, -changed, -departed and -broken.
UpdateLogging ==
    /\ "logging" \in logPending
    /\ logPending' = logPending \ {"logging"}
    /\ logTargets' = IF logContainer THEN UpdateEndpoints(logTargets) ELSE logTargets
    /\ UNCHANGED <<lokiSide, logContainer, changes>>

LogPebbleReady ==
    /\ "pebble_ready" \in logPending
    /\ logContainer
    /\ logPending' = logPending \ {"pebble_ready"}
    /\ logTargets' = UpdateEndpoints(logTargets)
    /\ UNCHANGED <<lokiSide, logContainer, changes>>

(***************************************************************************)
(* Loki.                                                                   *)
(***************************************************************************)
WriteEndpoint(l, url) ==
    /\ lokiEndpoints' = [lokiEndpoints EXCEPT ![l] = url]
    /\ logPending' = logPending \cup {"logging"}
    /\ UNCHANGED <<lokiUnits, logTargets, logContainer>>

\* Its own relation-changed, later than ours perhaps.
LokiChanged(l) ==
    /\ l \in lokiJoined
    /\ lokiJoined' = lokiJoined \ {l}
    /\ \E url \in LokiUrls : WriteEndpoint(l, url)
    /\ UNCHANGED changes

\* update_endpoint, when Loki is given another address.
UpdateEndpoint(l, url) ==
    /\ Change
    /\ l \in lokiUnits \ lokiJoined
    /\ lokiEndpoints[l] # url
    /\ WriteEndpoint(l, url)
    /\ UNCHANGED lokiJoined

(***************************************************************************)
(* Juju and Kubernetes.                                                    *)
(***************************************************************************)
LokiJoins(l) ==
    /\ Change
    /\ l \notin lokiUnits
    /\ lokiUnits' = lokiUnits \cup {l}
    /\ lokiJoined' = lokiJoined \cup {l}
    /\ logPending' = logPending \cup {"logging"}
    /\ UNCHANGED <<lokiEndpoints, logTargets, logContainer>>

\* A unit is removed, or all of them with the relation.
LokiDeparts(l) ==
    /\ Change
    /\ l \in lokiUnits
    /\ lokiUnits' = lokiUnits \ {l}
    /\ lokiJoined' = lokiJoined \ {l}
    /\ lokiEndpoints' = [lokiEndpoints EXCEPT ![l] = None]
    /\ logPending' = logPending \cup {"logging"}
    /\ UNCHANGED <<logTargets, logContainer>>

\* The layers go with the container.
LogContainerLost ==
    /\ Change
    /\ logContainer
    /\ logContainer' = FALSE
    /\ logTargets' = NoTargets
    /\ logPending' = logPending \ {"pebble_ready"}
    /\ UNCHANGED lokiSide

LogContainerUp ==
    /\ ~logContainer
    /\ logContainer' = TRUE
    /\ logPending' = logPending \cup {"pebble_ready"}
    /\ UNCHANGED <<lokiSide, logTargets, changes>>

LogInit ==
    /\ lokiUnits = {}
    /\ lokiEndpoints = NoTargets
    /\ lokiJoined = {}
    /\ logTargets = NoTargets
    /\ logContainer = FALSE
    /\ logPending = {}

LogNext ==
    \/ UpdateLogging
    \/ LogPebbleReady
    \/ \E l \in LokiUnits : LokiChanged(l)
    \/ \E l \in LokiUnits, url \in LokiUrls : UpdateEndpoint(l, url)
    \/ \E l \in LokiUnits : LokiJoins(l)
    \/ \E l \in LokiUnits : LokiDeparts(l)
    \/ LogContainerLost
    \/ LogContainerUp

LogSpec == LogInit /\ changes = MaxChanges /\ [][LogNext]_logVars

LogTypeOK ==
    /\ lokiUnits \in SUBSET LokiUnits
    /\ lokiEndpoints \in [LokiUnits -> LokiUrls \cup {None}]
    /\ lokiJoined \in SUBSET lokiUnits
    /\ logTargets \in [LokiUnits -> LokiUrls \cup {None}]
    /\ logContainer \in BOOLEAN
    /\ logPending \in SUBSET {"logging", "pebble_ready"}

(***************************************************************************)
(* Properties.                                                             *)
(***************************************************************************)
\* Once every hook has run, Pebble forwards to the units of Loki there are, at
\* their addresses, and to no other, over restarts of the container: unless
\* no unit is left, where forwarding goes on to those that were.
LogsFollowLoki ==
    /\ logPending = {}
    /\ logContainer
    /\ ActiveEndpoints # NoTargets
    => logTargets = ActiveEndpoints
=============================================================================
