-------------------------------- MODULE Juju --------------------------------
(***************************************************************************)
(* The part of Juju and of the ops framework that the charm's handlers     *)
(* rely on.  It is external to the repository: it is modelled from how     *)
(* src/src uses it (is_leader, defer, relation data, Pebble).              *)
(*                                                                         *)
(* A unit runs one dispatch at a time.  A dispatch first re-emits the      *)
(* notices the unit deferred earlier, then emits the Juju event to its     *)
(* observers.  Databag writes and port changes are buffered in the         *)
(* dispatch and take effect when it ends well; unit status and everything  *)
(* sent to Pebble take effect at once.  A dispatch that ends with an       *)
(* exception loses what it buffered, and Juju retries the same hook.       *)
(*                                                                         *)
(* Dispatches of different units are serialised: only the leader writes    *)
(* the shared databag, it does so when its dispatch ends, and every other  *)
(* unit is then told by peer_changed.                                      *)
(***************************************************************************)
EXTENDS Naturals, Sequences, SequencesExt

CONSTANTS
    Units,          \* the units of the application
    None,           \* Python's None, JSON's null, an unset config option
    Disturbances,   \* the kinds of outside change this instance allows
    MaxDisturbances \* bound on the number of outside changes

VARIABLES
    config,     \* the application configuration
    leader,     \* the unit holding the leadership lease
    peerReady,  \* the peer relation exists (State.is_ready)
    remote,     \* what the related applications have published to us
    up,         \* unit -> its workload container answers (can_connect)
    budget,     \* how many more outside changes may happen
    bag,        \* the application databag of the peer relation (State)
    pub,        \* what we have published to related applications
    ports,      \* unit -> opened service ports, by service
    pending,    \* unit -> Juju events not dispatched yet
    deferred,   \* unit -> notices deferred by earlier dispatches, in order
    failed,     \* unit -> the hook that raised and has to be retried
    status,     \* unit -> unit status
    plan,       \* unit -> Pebble plan of the workload, None if there is none
    hook        \* the dispatch in progress, None if there is none

vars == <<config, leader, peerReady, remote, up, budget, bag, pub, ports,
          pending, deferred, failed, status, plan, hook>>

\* What a handler never touches before its dispatch is committed.
outside == <<config, leader, peerReady, remote, up, budget, bag, pub, ports,
             pending, deferred>>

\* Juju actions: run on demand, never queued, never retried, not deferrable.
ActionEvents == {"restart", "create_model"}

\* The events of the two database relations.
DbChanged == [db |-> "db_changed", visibility |-> "visibility_changed"]
DbBroken  == [db |-> "db_broken",  visibility |-> "visibility_broken"]

HookEvents ==
    {"install", "config_changed", "pebble_ready", "peer_changed",
     "db_changed", "visibility_changed", "db_broken", "visibility_broken",
     "admin_joined", "admin_changed", "admin_broken", "ui_joined",
     "openfga_changed", "openfga_broken", "s3_changed", "s3_broken"}

Events == HookEvents \cup ActionEvents \cup {"update_status"}

\* A notice: one observer of one event.  arg is the relation name or the
\* event's payload where the handler reads it, "" elsewhere.
Notice(h, a) == [handler |-> h, arg |-> a]

\* The observers of an event, in the order the charm registers them.
Observers(e) ==
    CASE e \in {"db_changed", "visibility_changed"} ->
            LET r == IF e = "db_changed" THEN "db" ELSE "visibility"
            IN  <<Notice("database_changed", r), Notice("admin_database_changed", r)>>
      [] e \in {"db_broken", "visibility_broken"} ->
            LET r == IF e = "db_broken" THEN "db" ELSE "visibility"
            IN  <<Notice("database_broken", r)>>
      [] e = "admin_broken" -> << >>
      [] OTHER -> <<Notice(e, "")>>

(***************************************************************************)
(* Dispatching.                                                            *)
(***************************************************************************)
\* The buffered side of a dispatch of event e on unit u.
NewHook(u, e) ==
    [unit |-> u, event |-> e, todo |-> deferred[u] \o Observers(e),
     kept |-> << >>, bag |-> bag, pub |-> pub, ports |-> ports[u]]

Dispatch(u, e) ==
    /\ hook = None
    /\ hook' = NewHook(u, e)
    /\ UNCHANGED <<outside, failed, status, plan>>

\* A queued Juju event is dispatched; install is the first hook of a unit.
DispatchPending(u) ==
    /\ failed[u] = None
    /\ \E e \in pending[u] :
          /\ "install" \in pending[u] => e = "install"
          /\ Dispatch(u, e)

\* Juju retries a hook that failed before it dispatches anything else.
DispatchRetry(u) ==
    /\ failed[u] # None
    /\ Dispatch(u, failed[u])

\* Juju fires update-status on a timer, when the unit has nothing else to do.
DispatchUpdateStatus(u) ==
    /\ failed[u] = None
    /\ pending[u] = {}
    /\ Dispatch(u, "update_status")

\* An operator runs an action on a unit that is not in error.
DispatchAction(u, a) ==
    /\ "install" \notin pending[u]
    /\ failed[u] = None
    /\ Dispatch(u, a)

\* The notice a handler of name h is to handle now.
Current(h) ==
    /\ hook # None
    /\ hook.todo # << >>
    /\ Head(hook.todo).handler = h
    /\ ~ Contains(hook.kept, Head(hook.todo))

\* The handler returns: go on to the next notice, with h's buffered writes.
Return(h) ==
    /\ hook' = [h EXCEPT !.todo = Tail(@)]
    /\ UNCHANGED failed

\* The handler deferred its event and returned.
Defer(h) ==
    /\ hook' = [h EXCEPT !.todo = Tail(@), !.kept = Append(@, Head(h.todo))]
    /\ UNCHANGED failed

\* The handler raised: the dispatch is over and its buffered writes are lost.
Raise ==
    /\ hook' = None
    /\ failed' = [failed EXCEPT ![hook.unit] =
                    IF hook.event \in ActionEvents THEN None ELSE hook.event]

\* ops does not notify an observer again of an event it has just deferred.
SkipKept ==
    /\ hook # None
    /\ hook.todo # << >>
    /\ Contains(hook.kept, Head(hook.todo))
    /\ Return(hook)
    /\ UNCHANGED <<outside, status, plan>>

\* The dispatch ends well: databags and ports are flushed, the notices
\* deferred in it are stored, and the other units hear of a changed databag.
Commit ==
    LET u == hook.unit IN
    /\ hook # None
    /\ hook.todo = << >>
    /\ bag' = hook.bag
    /\ pub' = hook.pub
    /\ ports' = [ports EXCEPT ![u] = hook.ports]
    /\ deferred' = [deferred EXCEPT ![u] = hook.kept]
    /\ failed' = [failed EXCEPT ![u] = None]
    /\ pending' = [v \in Units |->
                     IF v = u THEN pending[v] \ {hook.event}
                     ELSE IF hook.bag = bag THEN pending[v]
                     ELSE pending[v] \cup {"peer_changed"}]
    /\ hook' = None
    /\ UNCHANGED <<config, leader, peerReady, remote, up, budget, status, plan>>

(***************************************************************************)
(* Outside changes.  They happen between dispatches: a dispatch sees one   *)
(* snapshot of the model, and a container that goes away in the middle of  *)
(* one makes a Pebble call raise, which is Crash.                          *)
(***************************************************************************)
Disturb(d) ==
    /\ d \in Disturbances
    /\ budget > 0
    /\ budget' = budget - 1

Notify(e) == [u \in Units |-> pending[u] \cup {e}]

\* The charm process dies, or a call to Juju or Pebble fails, in a dispatch.
Crash ==
    /\ Disturb("crash")
    /\ hook # None
    /\ Raise
    /\ UNCHANGED <<config, leader, peerReady, remote, up, bag, pub, ports,
                   pending, deferred, status, plan>>

PeerRelationCreated ==
    /\ hook = None
    /\ ~peerReady
    /\ peerReady' = TRUE
    /\ pending' = Notify("peer_changed")
    /\ UNCHANGED <<config, leader, remote, up, budget, bag, pub, ports,
                   deferred, failed, status, plan, hook>>

\* The lease moves; the charm observes no leader-elected event.  A leader in
\* the middle of a dispatch keeps it (is_leader holds for thirty seconds).
ChangeLeader(u) ==
    /\ Disturb("leader")
    /\ hook = None
    /\ leader # u
    /\ leader' = u
    /\ UNCHANGED <<config, peerReady, remote, up, bag, pub, ports, pending,
                   deferred, failed, status, plan, hook>>

\* The workload container restarts: Pebble is gone and its plan with it.
ContainerLost(u) ==
    /\ Disturb("container")
    /\ hook = None
    /\ up[u]
    /\ up' = [up EXCEPT ![u] = FALSE]
    /\ plan' = [plan EXCEPT ![u] = None]
    /\ pending' = [pending EXCEPT ![u] = @ \ {"pebble_ready"}]
    /\ UNCHANGED <<config, leader, peerReady, remote, bag, pub, ports,
                   deferred, failed, status, hook>>

ContainerUp(u) ==
    /\ hook = None
    /\ ~up[u]
    /\ up' = [up EXCEPT ![u] = TRUE]
    /\ pending' = [pending EXCEPT ![u] = @ \cup {"pebble_ready"}]
    /\ UNCHANGED <<config, leader, peerReady, remote, budget, bag, pub, ports,
                   deferred, failed, status, plan, hook>>
=============================================================================
