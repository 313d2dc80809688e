----------------------------- MODULE FrontendTls -----------------------------
(***************************************************************************)
(* Frontend TLS in src/src/charm.py on one unit, one step per effect on    *)
(* the workload: the certificate files, charm.yaml, the Pebble layer and   *)
(* the restart.  A dispatch may die between any two of them.               *)
(*                                                                         *)
(* config.valid stands for everything else _validate looks at, config.rev  *)
(* for every other option that reaches the workload's environment, and the *)
(* database connections whose changes are announced.  The unit is the      *)
(* leader: only its update-status records changed connections.  There is   *)
(* one private key for good, the charm never calls regenerate_private_key, *)
(* so that files.key only tells whether it is stored.                      *)
(***************************************************************************)
EXTENDS Integers, Sequences, SequencesExt

CONSTANTS
    None,
    Disturbances,   \* the kinds of outside change this instance allows
    MaxDisturbances \* bound on the number of outside changes

ASSUME TlsBoundAssumption == MaxDisturbances \in Nat

VARIABLES
    config,    \* [frontend, valid, dns, rev]; dns tells whether the entries
               \* of frontend-cert-sans-dns are valid
    relation,  \* the certificates relation: [alive, cert, issued]; cert is
               \* the one assigned to this unit, 0 if none, issued the last made
    database,  \* the connection in the peer databag: what the provider offers,
               \* what is saved, what the dispatch in progress sees
    files,     \* the workload's certificate and key files: [cert, key]
    conf,      \* the charm.yaml last pushed to the workload
    plan,      \* the workload's service in the Pebble plan
    server,    \* what the running server was started with: [env, conf, files]
    up,        \* can_connect
    pending,   \* events not dispatched yet
    deferred,  \* events deferred by earlier dispatches, in order
    failed,    \* the hook that raised and has to be retried
    status,    \* unit status
    hook,      \* the dispatch in progress: [event, todo, kept, extra, at]
    budget     \* how many more outside changes may happen

vars == <<config, relation, database, files, conf, plan, server, up, pending, deferred,
          failed, status, hook, budget>>

outside  == <<config, relation, up, budget>>
model    == <<outside, database>>
delivery == <<pending, deferred, failed>>
workload == <<files, conf, plan, server>>

NoFiles == [cert |-> 0, key |-> FALSE]

HookEvents == {"config_changed", "pebble_ready", "cert_joined",
               "cert_available", "cert_broken", "update_status"}
Events     == HookEvents \cup {"restart"}

(***************************************************************************)
(* Dispatching, as in Juju.  extra is _extra_context: it lives as long as  *)
(* the charm process, so a deferred event's handler leaves it to the next. *)
(***************************************************************************)
Dispatch(e) ==
    /\ hook = None
    /\ hook' = [event |-> e, todo |-> Append(deferred, e), kept |-> << >>,
                extra |-> FALSE, at |-> "handler"]
    /\ UNCHANGED <<model, delivery, workload, status>>

DispatchPending == failed = None /\ \E e \in pending : Dispatch(e)
DispatchRetry   == failed # None /\ Dispatch(failed)
DispatchUpdateStatus == failed = None /\ pending = {} /\ Dispatch("update_status")
DispatchRestart == "restart" \in Disturbances /\ failed = None /\ Dispatch("restart")

Running(e) == hook # None /\ hook.todo # << >> /\ Head(hook.todo) = e
At(step)   == hook # None /\ hook.at = step
Event      == Head(hook.todo)

GoTo(step) == hook' = [hook EXCEPT !.at = step]
Return     == hook' = [hook EXCEPT !.todo = Tail(@), !.at = "handler"]
Defer      == hook' = [hook EXCEPT !.todo = Tail(@), !.kept = Append(@, Event)]

SkipKept ==
    /\ At("handler")
    /\ hook.todo # << >>
    /\ Contains(hook.kept, Event)
    /\ Return
    /\ UNCHANGED <<model, delivery, workload, status>>

Commit ==
    /\ hook # None
    /\ hook.todo = << >>
    /\ hook' = None
    /\ pending' = pending \ {hook.event}
    /\ deferred' = hook.kept
    /\ failed' = None
    /\ database' = [database EXCEPT !.saved = database.seen]
    /\ UNCHANGED <<outside, workload, status>>

\* Juju forgets what a failed hook has written to the databag.
Raise ==
    /\ hook' = None
    /\ failed' = IF hook.event = "restart" THEN None ELSE hook.event
    /\ database' = [database EXCEPT !.seen = database.saved]

(***************************************************************************)
(* The handlers, up to the Pebble calls of _update.                        *)
(***************************************************************************)
\* Mutant of Visible: the pre-flight check is missing.
AlwaysVisible == TRUE

\* get_relation finds the relation: ops hides it from its own broken hook,
\* any other dispatch of a unit that has not run that hook still sees it.
Visible ==
    \/ relation.alive
    \/ "cert_broken" \in pending /\ hook.event # "cert_broken"

\* _update(event) of a handler that has set status s.
Update(s) ==
    \/ ~config.valid /\ Return /\ status' = "blocked"
    \/ config.valid /\ ~up /\ Defer /\ status' = s
    \/ config.valid /\ up /\ GoTo("tls") /\ status' = s

Handler(e) == At("handler") /\ Running(e) /\ ~Contains(hook.kept, e)

\* Every observer that is _update itself, and pebble-ready.
OnUpdate ==
    /\ \E e \in {"pebble_ready", "cert_joined", "cert_available", "cert_broken"} : Handler(e)
    /\ Update(status)
    /\ UNCHANGED <<model, delivery, workload>>

OnConfigChanged ==
    /\ Handler("config_changed")
    /\ \/ ~config.dns /\ Return /\ status' = "blocked"
       \/ config.dns /\ Update("waiting")
    /\ UNCHANGED <<model, delivery, workload>>

\* update_db_relation_data_in_state has recorded another connection.
ShouldUpdate == database.seen # database.offered

OnUpdateStatus ==
    /\ Handler("update_status")
    /\ \/ ~config.valid /\ Return /\ UNCHANGED <<database, status>>
       \/ /\ config.valid /\ ShouldUpdate /\ Update(status)
          /\ database' = [database EXCEPT !.seen = database.offered]
       \/ /\ config.valid /\ ~ShouldUpdate /\ plan = None /\ Update(status)
          /\ UNCHANGED database
       \/ /\ config.valid /\ ~ShouldUpdate /\ plan # None /\ Return
          /\ status' \in {"active", "maintenance"}
          /\ UNCHANGED database
    /\ UNCHANGED <<outside, delivery, workload>>

\* Mutant of OnRestart: an action that cannot be carried out is deferred.
OnRestartDeferred ==
    /\ Handler("restart")
    /\ \/ /\ plan = None
          /\ Defer
          /\ status' = "maintenance"
          /\ UNCHANGED server
       \/ /\ plan # None
          /\ Return
          /\ status' = "active"
          /\ server' = [env |-> plan, conf |-> conf, files |-> files]
    /\ UNCHANGED <<model, delivery, files, conf, plan>>

\* container.restart starts the service of the plan, whatever it ran before.
OnRestart ==
    /\ Handler("restart")
    /\ \/ /\ plan = None
          /\ Raise
          /\ status' = "maintenance"
          /\ UNCHANGED <<pending, deferred, server>>
       \/ /\ plan # None
          /\ Return
          /\ status' = "active"
          /\ server' = [env |-> plan, conf |-> conf, files |-> files]
          /\ UNCHANGED <<database, delivery>>
    /\ UNCHANGED <<outside, files, conf, plan>>

(***************************************************************************)
(* _update with a container that answers.                                  *)
(***************************************************************************)
\* Mutant of UpdateRequired: a stored certificate is taken for a current one.
UpdateMissing == files.cert = 0 \/ ~files.key

UpdateRequired == files.cert # relation.cert \/ ~files.key

\* _handle_frontend_tls, as far as _store_certificate.
HandleFrontendTls ==
    /\ At("tls")
    /\ \/ /\ ~config.frontend /\ Visible
          /\ GoTo("remove") /\ status' = "blocked" /\ UNCHANGED files
       \/ /\ ~Visible
          /\ GoTo("remove") /\ UNCHANGED <<status, files>>
       \/ /\ config.frontend /\ Visible /\ relation.cert = 0
          /\ GoTo("remove") /\ status' = "waiting" /\ UNCHANGED files
       \/ /\ config.frontend /\ Visible /\ relation.cert # 0 /\ ~UpdateRequired
          /\ GoTo("remove") /\ UNCHANGED <<status, files>>
       \/ /\ config.frontend /\ Visible /\ relation.cert # 0 /\ UpdateRequired
          /\ hook' = [hook EXCEPT !.extra = TRUE, !.at = "key"]
          /\ files' = [files EXCEPT !.cert = relation.cert]
          /\ UNCHANGED status
    /\ UNCHANGED <<model, delivery, conf, plan, server>>

\* Mutant of StorePrivateKey: only the certificate is stored.
NoPrivateKey ==
    /\ At("key")
    /\ GoTo("remove")
    /\ UNCHANGED <<model, delivery, workload, status>>

StorePrivateKey ==
    /\ At("key")
    /\ files' = [files EXCEPT !.key = TRUE]
    /\ GoTo("remove")
    /\ UNCHANGED <<model, delivery, conf, plan, server, status>>

\* _remove_certificates looks at the event only, a deferred one included.
RemoveCertificates ==
    /\ At("remove")
    /\ files' = IF Event = "cert_broken" THEN NoFiles ELSE files
    /\ GoTo("config")
    /\ UNCHANGED <<model, delivery, conf, plan, server, status>>

Environment ==
    [tls |-> hook.extra, frontend |-> config.frontend, rev |-> config.rev,
     conn |-> database.seen]

PushConfig ==
    /\ At("config")
    /\ conf' = Environment
    /\ GoTo("layer")
    /\ UNCHANGED <<model, delivery, files, plan, server, status>>

\* Mutant of AddLayer: no replan when the layer is there already.
AddLayerOnce ==
    /\ At("layer")
    /\ plan' = Environment
    /\ IF plan = Environment THEN Return ELSE GoTo("replan")
    /\ UNCHANGED <<model, delivery, files, conf, server, status>>

AddLayer ==
    /\ At("layer")
    /\ plan' = Environment
    /\ GoTo("replan")
    /\ UNCHANGED <<model, delivery, files, conf, server, status>>

\* Pebble restarts the service only if its part of the plan has changed.
Replan ==
    /\ At("replan")
    /\ server' = IF server # None /\ server.env = plan THEN server
                 ELSE [env |-> plan, conf |-> conf, files |-> files]
    /\ status' = "maintenance"
    /\ Return
    /\ UNCHANGED <<model, delivery, files, conf, plan>>

(***************************************************************************)
(* Outside changes.                                                        *)
(***************************************************************************)
Disturb(d) == d \in Disturbances /\ budget > 0 /\ budget' = budget - 1

\* The charm process dies, or a call to Pebble fails, in a dispatch.
Crash ==
    /\ Disturb("crash")
    /\ hook # None
    /\ Raise
    /\ UNCHANGED <<config, relation, up, pending, deferred, workload, status>>

\* The certificate that is assigned once the configuration is c.  A request
\* names the sans-dns entries: for others there is none, until the entries are
\* what they were when the request was made.
Assigned(c) ==
    IF c.dns = config.dns THEN {relation.cert}
    ELSE {0} \cup (IF "config_changed" \in pending THEN {relation.issued} ELSE {})

SetConfig(c) ==
    /\ Disturb("config")
    /\ hook = None
    /\ config # c
    /\ config' = c
    /\ \E cert \in Assigned(c) : relation' = [relation EXCEPT !.cert = cert]
    /\ pending' = {"config_changed"} \cup
          IF c.dns = config.dns THEN pending ELSE pending \ {"cert_available"}
    /\ UNCHANGED <<database, up, deferred, failed, workload, status, hook>>

\* The database's credentials, endpoint or TLS change and no event says so.
Rotate ==
    /\ Disturb("database")
    /\ hook = None
    /\ database' = [database EXCEPT !.offered = 1 - @]
    /\ UNCHANGED <<config, relation, up, delivery, workload, status, hook>>

ContainerLost ==
    /\ Disturb("container")
    /\ hook = None
    /\ up
    /\ up' = FALSE
    /\ files' = NoFiles
    /\ conf' = None
    /\ plan' = None
    /\ server' = None
    /\ pending' = pending \ {"pebble_ready"}
    /\ UNCHANGED <<config, relation, database, deferred, failed, status, hook>>

ContainerUp ==
    /\ hook = None
    /\ ~up
    /\ up' = TRUE
    /\ pending' = pending \cup {"pebble_ready"}
    /\ UNCHANGED <<config, relation, database, budget, deferred, failed, workload, status, hook>>

\* r is the certificates relation, q the events left to deliver.
Provider(r, q) ==
    /\ hook = None
    /\ relation' = r
    /\ pending' = q
    /\ UNCHANGED <<config, database, up, deferred, failed, workload, status, hook>>

Relate ==
    /\ Disturb("certificates")
    /\ ~relation.alive
    /\ "cert_broken" \notin pending
    /\ Provider([alive |-> TRUE, cert |-> 0, issued |-> relation.issued],
                pending \cup {"cert_joined"})

\* The provider issues the unit's first certificate.
Issue ==
    /\ relation.alive
    /\ relation.cert = 0
    /\ Provider([alive |-> TRUE, cert |-> relation.issued + 1, issued |-> relation.issued + 1],
                pending \cup {"cert_available"})
    /\ UNCHANGED budget

\* The provider renews the certificate before it expires.
Renew ==
    /\ Disturb("certificates")
    /\ relation.alive
    /\ relation.cert # 0
    /\ Provider([alive |-> TRUE, cert |-> relation.issued + 1, issued |-> relation.issued + 1],
                pending \cup {"cert_available"})

\* The request is renewed or replaced: until it is answered no certificate
\* is assigned, and no event says so.
Withdraw ==
    /\ Disturb("certificates")
    /\ relation.alive
    /\ relation.cert # 0
    /\ Provider([relation EXCEPT !.cert = 0], pending \ {"cert_available"})

RemoveRelation ==
    /\ Disturb("certificates")
    /\ relation.alive
    /\ Provider([alive |-> FALSE, cert |-> relation.cert, issued |-> relation.issued],
                (pending \ {"cert_joined", "cert_available"}) \cup {"cert_broken"})

(***************************************************************************)
(* The specification: a frontend that runs without TLS.                    *)
(***************************************************************************)
Configs == [frontend : BOOLEAN, valid : BOOLEAN, dns : BOOLEAN, rev : {0, 1}]

PlainEnvironment == [tls |-> FALSE, frontend |-> TRUE, rev |-> 0, conn |-> 0]

Init ==
    /\ config = [frontend |-> TRUE, valid |-> TRUE, dns |-> TRUE, rev |-> 0]
    /\ relation = [alive |-> FALSE, cert |-> 0, issued |-> 0]
    /\ database = [offered |-> 0, saved |-> 0, seen |-> 0]
    /\ files = NoFiles
    /\ conf = PlainEnvironment
    /\ plan = PlainEnvironment
    /\ server = [env |-> PlainEnvironment, conf |-> PlainEnvironment, files |-> NoFiles]
    /\ up = TRUE
    /\ pending = {}
    /\ deferred = << >>
    /\ failed = None
    /\ status = "active"
    /\ hook = None
    /\ budget = MaxDisturbances

HandlerStep ==
    \/ OnUpdate
    \/ OnConfigChanged
    \/ OnUpdateStatus
    \/ OnRestart
    \/ HandleFrontendTls
    \/ StorePrivateKey
    \/ RemoveCertificates
    \/ PushConfig
    \/ AddLayer
    \/ Replan

Next ==
    \/ DispatchPending
    \/ DispatchRetry
    \/ DispatchUpdateStatus
    \/ DispatchRestart
    \/ HandlerStep
    \/ SkipKept
    \/ Commit
    \/ Crash
    \/ \E c \in Configs : SetConfig(c)
    \/ Rotate
    \/ ContainerLost
    \/ ContainerUp
    \/ Relate
    \/ Issue
    \/ Renew
    \/ Withdraw
    \/ RemoveRelation

Spec == Init /\ [][Next]_vars

Environments == [tls : BOOLEAN, frontend : BOOLEAN, rev : {0, 1}, conn : {0, 1}]
FilesType    == [cert : 0..MaxDisturbances, key : BOOLEAN]
Steps        == {"handler", "tls", "key", "remove", "config", "layer", "replan"}
ServerType   == [env : Environments, conf : Environments, files : FilesType]
HookType     == [event : Events, todo : Seq(Events), kept : Seq(HookEvents),
                 extra : BOOLEAN, at : Steps]

\* None is no event, no environment, no server and no dispatch.
ASSUME TlsNoneAssumption ==
    None \notin Events /\ None \notin Environments /\ None \notin ServerType /\ None \notin HookType

\* Every variable holds a value the charm, the provider or Pebble can give it.
TypeOK ==
    /\ config \in Configs
    /\ relation \in [alive : BOOLEAN, cert : 0..MaxDisturbances, issued : 0..MaxDisturbances]
    /\ database \in [offered : {0, 1}, saved : {0, 1}, seen : {0, 1}]
    /\ files \in FilesType
    /\ conf \in Environments \cup {None}
    /\ plan \in Environments \cup {None}
    /\ server \in ServerType \cup {None}
    /\ up \in BOOLEAN
    /\ pending \in SUBSET HookEvents
    /\ deferred \in Seq(HookEvents)
    /\ failed \in HookEvents \cup {None}
    /\ status \in {"waiting", "blocked", "maintenance", "active"}
    /\ hook \in HookType \cup {None}
    /\ budget \in 0..MaxDisturbances

(***************************************************************************)
(* Safety.                                                                 *)
(***************************************************************************)
\* Nothing is left to be delivered and the container answers.
Quiet == hook = None /\ pending = {} /\ deferred = << >> /\ failed = None /\ up

\* _validate and the check of the sans-dns entries have nothing to object to.
Valid == config.valid /\ config.dns

Serving == Valid /\ config.frontend /\ relation.alive /\ relation.cert # 0

\* When everything has been delivered, the files of a valid frontend with a
\* certificate are that certificate and its key, however often it was renewed,
\* the container replaced or a dispatch cut short between the two files, and
\* whatever was wrong with its configuration when the certificate arrived.
FreshCertificateStored ==
    Quiet /\ Serving => files = [cert |-> relation.cert, key |-> TRUE]

\* When everything has been delivered, a valid unit that has lost the
\* certificates relation runs a server without TLS.
PlainWithoutRelation ==
    Quiet /\ Valid /\ ~relation.alive =>
        server # None /\ ~server.env.tls

\* When everything has been delivered, the server of a valid unit was started
\* with the plan that is in the workload: a dispatch that dies between the
\* layer and the replan is made up for.  Excepted is the plan of an
\* update-status that died with a connection it had not saved: when the
\* provider is back to the saved one by the retry, nothing is noticed.
ServerRunsPlan ==
    Quiet /\ Valid /\ plan # None /\ plan.conn = database.saved =>
        server # None /\ server.env = plan

\* A dispatch starts a server that is to terminate TLS only with certificate
\* and key in place, unless it is the handler of a broken relation that does.
StartsWithCertificate ==
    [][server' # server /\ hook # None /\ hook.at = "replan" /\ Event # "cert_broken"
          /\ conf.tls => files.cert # 0 /\ files.key]_vars

(***************************************************************************)
(* What documentation and comments say and the code does not do.           *)
(***************************************************************************)
\* frontend-tls.md: "TLS termination is managed directly by the Temporal
\* frontend".  When everything has been delivered, a frontend that has been
\* given a certificate terminates TLS.
TlsTerminated ==
    Quiet /\ Serving => server # None /\ server.conf.tls
=============================================================================
