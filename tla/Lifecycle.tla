----------------------------- MODULE Lifecycle ------------------------------
(***************************************************************************)
(* The handlers of src/src/charm.py itself: install, pebble-ready,         *)
(* config-changed, peer-relation-changed, update-status and the restart    *)
(* action.                                                                 *)
(***************************************************************************)
EXTENDS Relations

OnInstall ==
    /\ Current("install")
    /\ Return(hook)
    /\ IF IsLeader THEN SetStatus("maintenance") ELSE UNCHANGED status
    /\ UNCHANGED plan

\* Mutant of OnPebbleReady: a new container is left to update-status.
OnPebbleIgnored == Current("pebble_ready") /\ Ignore

OnPebbleReady ==
    /\ Current("pebble_ready")
    /\ Update(hook, status[hook.unit])

\* Mutant of OnConfigChanged: only the leader looks at the configuration.
OnConfigChangedByLeader ==
    /\ Current("config_changed")
    /\ \/ ~IsLeader /\ Ignore
       \/ IsLeader /\ Update(hook, "waiting")

\* "sans-dns" in config.bad: frontend-cert-sans-dns holds an invalid name.
\* Only this handler looks at it, and it leaves without an update.
OnConfigChanged ==
    /\ Current("config_changed")
    /\ \/ /\ "sans-dns" \in config.bad
          /\ Return(hook)
          /\ SetStatus("blocked")
          /\ UNCHANGED plan
       \/ /\ "sans-dns" \notin config.bad
          /\ Update(hook, "waiting")

\* Mutant of OnPeerRelationChanged: followers do not react to the databag.
OnPeerIgnored == Current("peer_changed") /\ Ignore

OnPeerRelationChanged ==
    /\ Current("peer_changed")
    /\ \/ IsLeader /\ Ignore
       \/ ~IsLeader /\ Update(hook, "waiting")

\* Pebble refuses to restart a service it does not know, or does not answer.
OnRestart ==
    /\ Current("restart")
    /\ \/ /\ plan[hook.unit] = None
          /\ Raise
          /\ SetStatus("maintenance")
       \/ /\ plan[hook.unit] # None
          /\ Return(hook)
          /\ SetStatus("active")
    /\ UNCHANGED plan

\* The "up" check of the layer is UP or not; what it says is Temporal's own.
CheckUp(h, healthy) ==
    \/ /\ ~healthy
       /\ Return(h)
       /\ SetStatus("maintenance")
    \/ /\ healthy
       /\ Return(IF IsLeader THEN ServerStatusProvided(h, "active") ELSE h)
       /\ SetStatus("active")

\* update-status reconciles: it records database data nobody announced, and
\* plans again a workload that lost its plan.  On an invalid state it leaves
\* everything, the status included, as it is.
OnUpdateStatus ==
    LET u == hook.unit
        v == Pinned(hook)
        h == IF IsLeader THEN ConnsRecorded(v) ELSE v
    IN  /\ Current("update_status")
        /\ \/ ShardsUnreadable(hook.bag) /\ Fail
           \/ /\ ~ShardsUnreadable(hook.bag)
              /\ ~Valid(hook.bag)
              /\ Return(v)
              /\ UNCHANGED <<status, plan>>
           \/ /\ Valid(hook.bag)
              /\ \/ IsLeader /\ ShouldReplan(v.bag)
                 \/ plan[u] = None
              /\ Update(h, status[u])
           \/ /\ Valid(hook.bag)
              /\ ~(IsLeader /\ ShouldReplan(v.bag))
              /\ plan[u] # None
              /\ \E healthy \in BOOLEAN : CheckUp(h, healthy)
              /\ UNCHANGED plan

LifecycleStep ==
    \/ OnInstall
    \/ OnPebbleReady
    \/ OnConfigChanged
    \/ OnPeerRelationChanged
    \/ OnRestart
    \/ OnUpdateStatus

\* One handler runs, from its notice to its return or its exception.
Handle ==
    /\ RelationStep \/ LifecycleStep
    /\ UNCHANGED outside
=============================================================================
