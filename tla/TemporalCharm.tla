---------------------------- MODULE TemporalCharm ---------------------------
(***************************************************************************)
(* The whole charm: every unit's handlers, the operator and the related    *)
(* applications.                                                           *)
(***************************************************************************)
EXTENDS Lifecycle

CONSTANTS
    Shards,    \* values the operator may give num-history-shards
    Configs,   \* the configurations the operator may set
    DbOffers,  \* connections a database provider may publish
    Stores,    \* OpenFGA stores
    S3Creds    \* credentials the S3 integrator may publish

ConfigType ==
    [shards   : Shards \cup {None},
     services : SUBSET Services,
     auth     : BOOLEAN,
     db_tls   : BOOLEAN,
     bad      : SUBSET {"options", "limits", "sans-dns"}]

\* host, port and tls are what the handlers compare; cred is user and password.
Conn == [host : STRING, port : STRING, cred : STRING, tls : BOOLEAN]

ASSUME UnitsAssumption == Units # {} /\ None \notin Units
ASSUME BoundAssumption == MaxDisturbances \in Nat
ASSUME ShardsAssumption == Shards \subseteq Int /\ None \notin Shards
ASSUME ConfigsAssumption == Configs \subseteq ConfigType
ASSUME OffersAssumption == DbOffers \subseteq Conn
ASSUME StoresAssumption == None \notin Stores

(***************************************************************************)
(* The operator.                                                           *)
(***************************************************************************)
SetConfig(c) ==
    /\ Disturb("config")
    /\ hook = None
    /\ config # c
    /\ config' = c
    /\ pending' = Notify("config_changed")
    /\ UNCHANGED <<leader, peerReady, remote, up, bag, pub, ports, deferred,
                   failed, status, plan, hook>>

\* Outside changes of what a related application publishes; p is what it
\* makes of our own published data, q what it makes of the event queues.
Publish(r, p, q) ==
    /\ hook = None
    /\ remote' = r
    /\ pub' = p
    /\ pending' = q
    /\ UNCHANGED <<config, leader, peerReady, up, bag, ports, deferred,
                   failed, status, plan, hook>>

\* A relation that is going: Juju drops its queued changes and each unit
\* runs the broken hook.
NotifyBroken(dropped, e) ==
    [u \in Units |-> (pending[u] \ dropped) \cup {e}]

\* A relation cannot be made again while a unit has its broken hook to run.
Gone(broken) == \A u \in Units : broken \notin pending[u]

(***************************************************************************)
(* The database providers.  The library emits database_created or          *)
(* endpoints_changed; changed credentials alone raise no event.            *)
(***************************************************************************)
OfferDb(r, c) ==
    LET old == remote.db[r] IN
    /\ Disturb(r)
    /\ old.alive \/ Gone(DbBroken[r])
    /\ ~old.alive \/ old.conn # c
    /\ Publish([remote EXCEPT !.db[r] = [alive |-> TRUE, conn |-> c]], pub,
               IF /\ old.alive
                  /\ old.conn.host = c.host /\ old.conn.port = c.port
               THEN pending ELSE Notify(DbChanged[r]))

RemoveDb(r) ==
    /\ Disturb(r)
    /\ remote.db[r].alive
    /\ Publish([remote EXCEPT !.db[r].alive = FALSE], pub,
               NotifyBroken({DbChanged[r]}, DbBroken[r]))

(***************************************************************************)
(* The admin charm sets up the schema once it has been given connections;  *)
(* it may later find that it is not ready.  Juju follows every joined hook *)
(* by a changed one.                                                       *)
(***************************************************************************)
RelateAdmin ==
    /\ Disturb("admin")
    /\ ~remote.admin.alive
    /\ Gone("admin_broken")
    /\ Publish([remote EXCEPT !.admin = [alive |-> TRUE, schema_status |-> "waiting"]],
               [pub EXCEPT !.admin = None],
               [u \in Units |-> pending[u] \cup {"admin_joined", "admin_changed"}])

AdminSetsUpSchema ==
    /\ remote.admin.alive
    /\ remote.admin.schema_status = "waiting"
    /\ pub.admin # None
    /\ Publish([remote EXCEPT !.admin.schema_status = "ready"], pub,
               Notify("admin_changed"))
    /\ UNCHANGED budget

AdminLosesSchema ==
    /\ Disturb("schema")
    /\ remote.admin.alive
    /\ remote.admin.schema_status = "ready"
    /\ Publish([remote EXCEPT !.admin.schema_status = "waiting"], pub,
               Notify("admin_changed"))

RemoveAdmin ==
    /\ Disturb("admin")
    /\ remote.admin.alive
    /\ Publish([remote EXCEPT !.admin = [alive |-> FALSE, schema_status |-> "waiting"]],
               pub, NotifyBroken({"admin_joined", "admin_changed"}, "admin_broken"))

(***************************************************************************)
(* The UI charm, the OpenFGA server and the S3 integrator.                 *)
(***************************************************************************)
RelateUi ==
    /\ Disturb("ui")
    /\ ~remote.ui.alive
    /\ Publish([remote EXCEPT !.ui.alive = TRUE], pub, Notify("ui_joined"))

RemoveUi ==
    /\ Disturb("ui")
    /\ remote.ui.alive
    /\ Publish([remote EXCEPT !.ui.alive = FALSE], [pub EXCEPT !.ui = None],
               [u \in Units |-> pending[u] \ {"ui_joined"}])

\* The library emits store_created on every change of the relation, the
\* redelivery of a store already known included.
OfferStore(s, c) ==
    /\ Disturb("openfga")
    /\ remote.openfga.alive \/ Gone("openfga_broken")
    /\ Publish([remote EXCEPT !.openfga = [alive |-> TRUE, store |-> s, complete |-> c]],
               pub, Notify("openfga_changed"))

RemoveStore ==
    /\ Disturb("openfga")
    /\ remote.openfga.alive
    /\ Publish([remote EXCEPT !.openfga.alive = FALSE], pub,
               NotifyBroken({"openfga_changed"}, "openfga_broken"))

OfferS3(c, b) ==
    /\ Disturb("s3")
    /\ remote.s3.alive \/ Gone("s3_broken")
    /\ Publish([remote EXCEPT !.s3 = [alive |-> TRUE, cred |-> c, bucket |-> b]],
               pub, Notify("s3_changed"))

RemoveS3 ==
    /\ Disturb("s3")
    /\ remote.s3.alive
    /\ Publish([remote EXCEPT !.s3.alive = FALSE], pub,
               NotifyBroken({"s3_changed"}, "s3_broken"))

Environment ==
    \/ \E c \in Configs : SetConfig(c)
    \/ \E r \in DBs, c \in DbOffers : OfferDb(r, c)
    \/ \E r \in DBs : RemoveDb(r)
    \/ RelateAdmin
    \/ AdminSetsUpSchema
    \/ AdminLosesSchema
    \/ RemoveAdmin
    \/ RelateUi
    \/ RemoveUi
    \/ \E s \in Stores, c \in BOOLEAN : OfferStore(s, c)
    \/ RemoveStore
    \/ \E c \in S3Creds, b \in {"created", "refused", "missing"} : OfferS3(c, b)
    \/ RemoveS3

(***************************************************************************)
(* The specification.                                                      *)
(***************************************************************************)
NoConns == [r \in DBs |-> None]

FreshState ==
    [shards |-> None, conn |-> NoConns, schema_ready |-> FALSE,
     openfga |-> None, s3 |-> None]

NoRemote(conn, store, cred) ==
    [db      |-> [r \in DBs |-> [alive |-> FALSE, conn |-> conn]],
     admin   |-> [alive |-> FALSE, schema_status |-> "waiting"],
     ui      |-> [alive |-> FALSE],
     openfga |-> [alive |-> FALSE, store |-> store, complete |-> FALSE],
     s3      |-> [alive |-> FALSE, cred |-> cred, bucket |-> "missing"]]

\* The application has just been deployed: no relation, no Pebble.
Init ==
    /\ config \in Configs
    /\ leader \in Units
    /\ peerReady = FALSE
    /\ \E c \in DbOffers : remote = NoRemote(c, None, None)
    /\ up = [u \in Units |-> FALSE]
    /\ budget = MaxDisturbances
    /\ bag = FreshState
    /\ pub = [admin |-> None, ui |-> None]
    /\ ports = [u \in Units |-> {}]
    /\ pending = [u \in Units |-> {"install", "config_changed"}]
    /\ deferred = [u \in Units |-> << >>]
    /\ failed = [u \in Units |-> None]
    /\ status = [u \in Units |-> "waiting"]
    /\ plan = [u \in Units |-> None]
    /\ hook = None

Action(u) ==
    \/ "restart" \in Disturbances /\ DispatchAction(u, "restart")
    \/ "openfga" \in Disturbances /\ DispatchAction(u, "create_model")

Next ==
    \/ \E u \in Units : DispatchPending(u)
    \/ \E u \in Units : DispatchRetry(u)
    \/ \E u \in Units : DispatchUpdateStatus(u)
    \/ \E u \in Units : Action(u)
    \/ Handle
    \/ SkipKept
    \/ Commit
    \/ Crash
    \/ PeerRelationCreated
    \/ \E u \in Units : ChangeLeader(u)
    \/ \E u \in Units : ContainerLost(u)
    \/ \E u \in Units : ContainerUp(u)
    \/ Environment

Spec == Init /\ [][Next]_vars

(***************************************************************************)
(* Types.                                                                  *)
(***************************************************************************)
Conns == [DBs -> Conn \cup {None}]

OpenfgaType == [store : Stores \cup {None}, complete : BOOLEAN, model : Stores \cup {None}]
S3Type      == [cred : S3Creds \cup {None}, bucket_created : BOOLEAN]

StateType ==
    [shards : Shards \cup {None}, conn : Conns, schema_ready : BOOLEAN,
     openfga : OpenfgaType \cup {None}, s3 : S3Type \cup {None}]

PubType == [admin : Conns \cup {None}, ui : {"ready", "blocked", None}]

RemoteType ==
    [db      : [DBs -> [alive : BOOLEAN, conn : Conn]],
     admin   : [alive : BOOLEAN, schema_status : {"waiting", "ready"}],
     ui      : [alive : BOOLEAN],
     openfga : [alive : BOOLEAN, store : Stores \cup {None}, complete : BOOLEAN],
     s3      : [alive : BOOLEAN, cred : S3Creds \cup {None},
                bucket : {"created", "refused", "missing"}]]

PlanType ==
    [shards : Shards \cup {None}, conn : Conns, services : SUBSET Services,
     openfga : OpenfgaType \cup {None}, s3 : S3Type \cup {None}]

PortSets == SUBSET (Services \cup {"internal-frontend"})

Handlers ==
    {"install", "config_changed", "pebble_ready", "peer_changed", "restart",
     "create_model", "update_status", "database_changed", "database_broken",
     "admin_joined", "admin_database_changed", "admin_changed",
     "schema_changed", "ui_joined", "openfga_changed", "openfga_broken",
     "s3_changed", "s3_broken"}

NoticeType == [handler : Handlers, arg : {"", "ready", "waiting"} \cup DBs]

HookType ==
    [unit : Units, event : Events, todo : Seq(NoticeType), kept : Seq(NoticeType),
     bag : StateType, pub : PubType, ports : PortSets]

\* None is nothing else: not a dispatch, a plan, a connection or a record of the databag.
ASSUME NoneAssumption ==
    None \notin HookType \cup PlanType \cup Conn \cup OpenfgaType \cup S3Type

\* Every variable holds a value the charm and Juju can give it.
TypeOK ==
    /\ config \in ConfigType
    /\ leader \in Units
    /\ peerReady \in BOOLEAN
    /\ remote \in RemoteType
    /\ up \in [Units -> BOOLEAN]
    /\ budget \in 0..MaxDisturbances
    /\ bag \in StateType
    /\ pub \in PubType
    /\ ports \in [Units -> PortSets]
    /\ pending \in [Units -> SUBSET HookEvents]
    /\ deferred \in [Units -> Seq(NoticeType)]
    /\ failed \in [Units -> Events \cup {None}]
    /\ status \in [Units -> {"waiting", "blocked", "maintenance", "active"}]
    /\ plan \in [Units -> PlanType \cup {None}]
    /\ hook \in HookType \cup {None}

(***************************************************************************)
(* Safety.                                                                 *)
(***************************************************************************)
\* Nothing is left to be delivered and every container answers.
Quiet ==
    /\ hook = None
    /\ peerReady
    /\ \A u \in Units :
          /\ pending[u] = {}
          /\ deferred[u] = << >>
          /\ failed[u] = None
          /\ up[u]

\* Once the number of history shards is in the databag no step changes it:
\* _validate pins it on the leader and refuses any other value afterwards.
ShardsWrittenOnce ==
    [][bag.shards # None => bag'.shards = bag.shards]_vars

\* The shard count every unit that has one was started with is the one of
\* the databag, or the one the dispatch in progress is about to put there:
\* no server is ever started with a count that is then lost.
CurrentShards == IF hook = None THEN bag.shards ELSE hook.bag.shards

PlansAgreeOnShards ==
    \A u \in Units :
        plan[u] # None /\ plan[u].shards # None => plan[u].shards = CurrentShards

\* The count each unit's server runs with.
PlannedShards == [u \in Units |-> IF plan[u] = None THEN None ELSE plan[u].shards]

Register == INSTANCE ShardRegister
    WITH Servers <- Units, Counts <- Shards, value <- bag.shards, held <- PlannedShards

\* The charm implements the register: its databag is written once, and every
\* step that plans a server, stops one or ends a dispatch is one the register
\* allows, over changes of leader, of the option and of containers.
ImplementsRegister == Register!Spec

\* When everything has been delivered, every unit of a valid deployment runs
\* the plan that configuration and databag call for: no handler that changes
\* the databag forgets a unit, the leader's own included.
Converged ==
    Quiet /\ Valid(bag) /\ "sans-dns" \notin config.bad =>
        \A u \in Units : plan[u] = PlanOf(bag)

\* When everything has been delivered, the admin charm has the connections
\* the server uses.
AdminInformed ==
    Quiet /\ DatabasesConnected(bag) /\ remote.admin.alive => pub.admin = bag.conn

\* When everything has been delivered, the schema flag is what the admin
\* charm said last.
SchemaFollowsAdmin ==
    Quiet /\ remote.admin.alive =>
        (bag.schema_ready <=> remote.admin.schema_status = "ready")

\* When everything has been delivered, a unit that reports Active has a
\* workload and a state _validate accepts.
ActiveMeansValid ==
    Quiet => \A u \in Units :
                status[u] = "active" => plan[u] # None /\ Valid(bag)

\* When everything has been delivered, the leader of a valid deployment has
\* opened the ports of the configured services and no others.
LeaderPortsOpen ==
    Quiet /\ Valid(bag) /\ "sans-dns" \notin config.bad =>
        ports[leader] = ServicePorts(config.services)

\* No handler ever raises: no unit goes into hook error state.
NoHookError == \A u \in Units : failed[u] = None

\* An authorization model is only ever used with the store it was created
\* in, in the databag as in every plan.
ModelInStore(o) == o # None => o.model \in {None, o.store}

ModelBelongsToStore ==
    /\ ModelInStore(bag.openfga)
    /\ \A u \in Units : plan[u] # None => ModelInStore(plan[u].openfga)

\* When everything has been delivered, the databag holds the OpenFGA store
\* the provider announced last, and none once the relation is gone.
StoreFollowsProvider ==
    Quiet => IF remote.openfga.alive
             THEN bag.openfga # None /\ bag.openfga.store = remote.openfga.store
             ELSE bag.openfga = None

\* When everything has been delivered, the databag holds the S3 credentials
\* the integrator announced last and whether their bucket exists, and none
\* once the relation is gone.
ArchivalFollowsIntegrator ==
    Quiet =>
        /\ remote.s3.alive /\ remote.s3.bucket # "missing" =>
              /\ bag.s3 # None
              /\ bag.s3.cred = remote.s3.cred
              /\ bag.s3.bucket_created <=> remote.s3.bucket = "created"
        /\ ~remote.s3.alive => bag.s3 = None

(***************************************************************************)
(* What documentation and comments say and the code does not do: each of   *)
(* these has a run that expects TLC to refute it.                          *)
(***************************************************************************)
\* config.yaml: num-history-shards "must be consistent across all
\* components".  No server is started without a shard count.
PlannedShardsSet ==
    \A u \in Units : plan[u] # None => plan[u].shards # None

\* config.yaml: another value than the one first given "will send the charm
\* into a blocked state", not into an error.
ShardChangeBlocks ==
    \A u \in Units :
        bag.shards # None /\ config.shards # bag.shards => failed[u] = None

(***************************************************************************)
(* Liveness.  Juju dispatches what is pending on every unit and fires      *)
(* update-status again and again; a dispatch ends; a container that went   *)
(* away comes back; the admin charm does its work.  Strong fairness where  *)
(* only the serialisation of dispatches takes the step away for a moment.  *)
(***************************************************************************)
Fairness ==
    /\ WF_vars(Handle \/ SkipKept \/ Commit)
    /\ SF_vars(PeerRelationCreated)
    /\ SF_vars(AdminSetsUpSchema)
    /\ \A u \in Units :
          /\ SF_vars(DispatchPending(u) \/ DispatchRetry(u))
          /\ SF_vars(DispatchUpdateStatus(u))
          /\ SF_vars(ContainerUp(u))

FairSpec == Spec /\ Fairness

\* The outside changes are finitely many: every unit ends up with nothing
\* pending, nothing deferred and no hook to retry.
Settled ==
    \A u \in Units : pending[u] = {} /\ deferred[u] = << >> /\ failed[u] = None

EventuallySettled == <>[]Settled

\* Whatever the databases publish, announced or not, ends up in the databag,
\* and the databag in every plan: update-status makes up for what no event
\* announces (rotated credentials, database TLS).
Reconciled ==
    Valid(bag) /\ "sans-dns" \notin config.bad =>
        /\ \A r \in DBs : remote.db[r].alive => bag.conn[r] = ConnOf(r)
        /\ \A u \in Units : plan[u] = PlanOf(bag)

EventuallyReconciled == <>[]Reconciled
=============================================================================
