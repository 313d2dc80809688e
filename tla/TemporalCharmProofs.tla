------------------------ MODULE TemporalCharmProofs ------------------------
(***************************************************************************)
(* Theorems about TemporalCharm for every value of its constants.          *)
(***************************************************************************)
EXTENDS TemporalCharm, SequenceTheorems, TLAPS

(***************************************************************************)
(* What the operators that handlers are built from return.                 *)
(***************************************************************************)
\* A notice of a known handler, with an argument the handlers expect.
LEMMA NoticeInType ==
    ASSUME NEW n \in Handlers, NEW a \in {"", "ready", "waiting"} \cup DBs
    PROVE  Notice(n, a) \in NoticeType
  BY DEF Notice, NoticeType

\* The observers of every event are known handlers.
LEMMA ObserversType ==
    ASSUME NEW e \in Events
    PROVE  Observers(e) \in Seq(NoticeType)
<1>1. CASE e \in {"db_changed", "visibility_changed"}
  <2> DEFINE r == IF e = "db_changed" THEN "db" ELSE "visibility"
  <2>1. Notice("database_changed", r) \in NoticeType
    BY NoticeInType DEF Handlers, DBs
  <2>2. Notice("admin_database_changed", r) \in NoticeType
    BY NoticeInType DEF Handlers, DBs
  <2> HIDE DEF r
  <2>3. <<Notice("database_changed", r), Notice("admin_database_changed", r)>>
            \in Seq(NoticeType)
    BY <2>1, <2>2
  <2> QED
    BY <1>1, <2>3 DEF Observers, r
<1>2. CASE e \in {"db_broken", "visibility_broken"}
  <2> DEFINE r == IF e = "db_broken" THEN "db" ELSE "visibility"
  <2>1. Notice("database_broken", r) \in NoticeType
    BY NoticeInType DEF Handlers, DBs
  <2> HIDE DEF r
  <2>2. <<Notice("database_broken", r)>> \in Seq(NoticeType)
    BY <2>1
  <2> QED
    BY <1>2, <2>2 DEF Observers, r
<1>3. CASE e = "admin_broken"
  BY <1>3 DEF Observers
<1>4. CASE e \notin {"db_changed", "visibility_changed", "db_broken",
                     "visibility_broken", "admin_broken"}
  <2> DEFINE n == Notice(e, "")
  <2>1. n \in NoticeType
    BY <1>4, NoticeInType DEF Handlers, Events, HookEvents, ActionEvents
  <2>2. Observers(e) = <<n>>
    BY <1>4 DEF Observers
  <2> HIDE DEF n
  <2> QED
    BY <2>1, <2>2
<1> QED
  BY <1>1, <1>2, <1>3, <1>4

\* Pinning keeps the dispatch well typed: an accepted count is one of Shards.
LEMMA PinnedType ==
    ASSUME NEW h \in HookType, config \in ConfigType
    PROVE  /\ Pinned(h) \in HookType
           /\ Pinned(h).unit = h.unit
           /\ Pinned(h).todo = h.todo
  BY DEF Pinned, HookType, StateType, ConfigType, ShardsAccepted

\* Opening ports changes nothing but ports.
LEMMA PortsType ==
    ASSUME NEW h \in HookType, config \in ConfigType
    PROVE  /\ PortsOpened(h) \in HookType
           /\ PortsOpened(h).unit = h.unit
           /\ PortsOpened(h).todo = h.todo
  BY DEF PortsOpened, HookType, PortSets, ServicePorts, ConfigType, Services

\* A plan made from a well typed databag is well typed.
LEMMA PlanOfType ==
    ASSUME NEW b \in StateType, config \in ConfigType
    PROVE  PlanOf(b) \in PlanType
  BY DEF PlanOf, PlanType, StateType, ConfigType

\* The admin charm is given connections of the databag.
LEMMA DbInfoType ==
    ASSUME NEW h \in HookType
    PROVE  /\ DbInfoProvided(h) \in HookType
           /\ DbInfoProvided(h).unit = h.unit
           /\ DbInfoProvided(h).todo = h.todo
  BY DEF DbInfoProvided, HookType, PubType, StateType

\* The UI charm is given one of two words.
LEMMA ServerStatusType ==
    ASSUME NEW h \in HookType, NEW s
    PROVE  /\ ServerStatusProvided(h, s) \in HookType
           /\ ServerStatusProvided(h, s).todo = h.todo
  BY DEF ServerStatusProvided, HookType, PubType

\* What is recorded of a database relation is a connection.
LEMMA ConnsRecordedType ==
    ASSUME NEW h \in HookType, config \in ConfigType, remote \in RemoteType
    PROVE  /\ ConnsRecorded(h) \in HookType
           /\ ConnsRecorded(h).unit = h.unit
           /\ ConnsRecorded(h).todo = h.todo
<1>1. \A r \in DBs : ConnOf(r) \in Conn
  BY DEF ConnOf, RemoteType, ConfigType, Conn
<1> DEFINE b == [h.bag EXCEPT !.conn = [r \in DBs |-> IF Readable(r) THEN ConnOf(r) ELSE @[r]]]
<1>2. b \in StateType
  BY <1>1 DEF StateType, Conns, HookType
<1> DEFINE g == [h EXCEPT !.bag = b]
<1>3. g \in HookType /\ g.unit = h.unit /\ g.todo = h.todo
  BY <1>2 DEF HookType
<1>4. /\ DbInfoProvided(g) \in HookType
      /\ DbInfoProvided(g).unit = g.unit
      /\ DbInfoProvided(g).todo = g.todo
  <2> HIDE DEF g
  <2> QED BY <1>3, DbInfoType
<1> QED
  BY <1>3, <1>4 DEF ConnsRecorded

(***************************************************************************)
(* What a handler may do to its dispatch.                                  *)
(***************************************************************************)
Statuses == {"waiting", "blocked", "maintenance", "active"}

\* The part of the state a handler changes, after its step.
HandledType ==
    /\ hook' \in HookType \cup {None}
    /\ failed' \in [Units -> Events \cup {None}]
    /\ status' \in [Units -> Statuses]
    /\ plan' \in [Units -> PlanType \cup {None}]

\* A handler that has a notice to handle runs in a well typed dispatch.
LEMMA CurrentType ==
    ASSUME TypeOK, NEW n, Current(n)
    PROVE  /\ hook \in HookType
           /\ hook.todo # << >>
           /\ Head(hook.todo) \in NoticeType
           /\ hook.unit \in Units
           /\ status[hook.unit] \in Statuses
<1>1. hook \in HookType /\ hook.todo # << >>
  BY DEF TypeOK, Current
<1>2. hook.unit \in Units /\ hook.todo \in Seq(NoticeType)
  BY <1>1 DEF HookType
<1>3. Head(hook.todo) \in NoticeType
  BY <1>1, <1>2, HeadTailProperties
<1> QED
  BY <1>1, <1>2, <1>3 DEF TypeOK, Statuses

\* Going on to the next notice leaves a well typed dispatch.
LEMMA ReturnType ==
    ASSUME NEW h \in HookType, h.todo # << >>, Return(h)
    PROVE  hook' \in HookType /\ failed' = failed
<1>1. Tail(h.todo) \in Seq(NoticeType)
  BY HeadTailProperties DEF HookType
<1> QED
  BY <1>1 DEF Return, HookType

\* So does keeping the notice.
LEMMA DeferType ==
    ASSUME NEW h \in HookType, h.todo # << >>, Defer(h)
    PROVE  hook' \in HookType /\ failed' = failed
<1>1. /\ Tail(h.todo) \in Seq(NoticeType)
      /\ Append(h.kept, Head(h.todo)) \in Seq(NoticeType)
  BY HeadTailProperties, AppendProperties DEF HookType
<1> QED
  BY <1>1 DEF Defer, HookType

\* An exception leaves the event of the dispatch to be retried.
LEMMA RaiseType ==
    ASSUME hook \in HookType, failed \in [Units -> Events \cup {None}], Raise
    PROVE  /\ hook' = None
           /\ failed' \in [Units -> Events \cup {None}]
  BY DEF Raise, HookType

\* _update keeps everything well typed, however it ends.
LEMMA UpdateType ==
    ASSUME TypeOK, hook \in HookType,
           NEW h \in HookType, h.unit = hook.unit, h.todo # << >>,
           NEW s \in Statuses, Update(h, s)
    PROVE  HandledType
<1> DEFINE p == Pinned(h)
<1>1. p \in HookType /\ p.unit = h.unit /\ p.todo = h.todo
  BY PinnedType DEF TypeOK
<1> DEFINE q == PortsOpened(p)
<1> HIDE DEF p
<1>2. q \in HookType /\ q.unit = h.unit /\ q.todo = h.todo
  BY <1>1, PortsType DEF TypeOK
<1> HIDE DEF q
<1>3. /\ plan \in [Units -> PlanType \cup {None}]
      /\ status \in [Units -> Statuses]
      /\ failed \in [Units -> Events \cup {None}]
      /\ hook.unit \in Units
  BY DEF TypeOK, Statuses, HookType
<1>4. \A t \in Statuses : SetStatus(t) => status' \in [Units -> Statuses]
  BY <1>3 DEF SetStatus
<1>5. CASE Raise /\ SetStatus(s) /\ UNCHANGED plan
  BY <1>3, <1>4, <1>5, RaiseType DEF HandledType
<1>6. CASE Return(p) /\ SetStatus("blocked") /\ UNCHANGED plan
  BY <1>1, <1>3, <1>4, <1>6, ReturnType DEF HandledType, Statuses
<1>7. CASE Defer(q) /\ SetStatus(s) /\ UNCHANGED plan
  BY <1>2, <1>3, <1>4, <1>7, DeferType DEF HandledType
<1>8. CASE /\ Return(q)
           /\ plan' = [plan EXCEPT ![h.unit] = PlanOf(p.bag)]
           /\ SetStatus("maintenance")
  <2>1. PlanOf(p.bag) \in PlanType
    BY <1>1, PlanOfType DEF HookType, TypeOK
  <2> QED
    BY <1>2, <1>3, <1>4, <1>8, <2>1, ReturnType DEF HandledType, Statuses
<1> QED
  BY <1>5, <1>6, <1>7, <1>8 DEF Update, p, q

\* A handler that returns early, defers or raises.
LEMMA EarlyType ==
    ASSUME TypeOK, hook \in HookType, hook.todo # << >>,
           Ignore \/ Postpone \/ Fail
    PROVE  HandledType
<1>1. CASE Ignore
  BY <1>1, ReturnType DEF Ignore, HandledType, TypeOK, Statuses
<1>2. CASE Postpone
  BY <1>2, DeferType DEF Postpone, HandledType, TypeOK, Statuses
<1>3. CASE Fail
  BY <1>3, RaiseType DEF Fail, HandledType, TypeOK, Statuses
<1> QED
  BY <1>1, <1>2, <1>3

\* A handler that returns with h, a changed dispatch.
LEMMA ReturnedType ==
    ASSUME TypeOK, NEW h \in HookType, h.todo # << >>, Return(h),
           status' \in [Units -> Statuses], UNCHANGED plan
    PROVE  HandledType
  BY ReturnType DEF HandledType, TypeOK

(***************************************************************************)
(* The handlers of the relations.                                          *)
(***************************************************************************)
\* postgresql.py _on_database_changed keeps what it changes well typed.
LEMMA OnDatabaseChangedType ==
    ASSUME TypeOK, OnDatabaseChanged
    PROVE  HandledType
<1>1. /\ hook \in HookType /\ hook.todo # << >>
  BY CurrentType DEF OnDatabaseChanged
<1> DEFINE h == ConnsRecorded(hook)
<1>2. h \in HookType /\ h.unit = hook.unit /\ h.todo = hook.todo
  BY <1>1, ConnsRecordedType DEF TypeOK
<1> HIDE DEF h
<1>3. Update(h, "waiting") => HandledType
  BY <1>1, <1>2, UpdateType DEF Statuses
<1> QED
  BY <1>1, <1>3, EarlyType DEF OnDatabaseChanged, h

\* postgresql.py _on_database_relation_broken keeps what it changes well typed.
LEMMA OnDatabaseBrokenType ==
    ASSUME TypeOK, OnDatabaseBroken
    PROVE  HandledType
<1>1. /\ hook \in HookType /\ hook.todo # << >>
      /\ status[hook.unit] \in Statuses
  BY CurrentType DEF OnDatabaseBroken
<1> DEFINE h == [hook EXCEPT !.bag.conn[Head(hook.todo).arg] = None]
<1>2. h \in HookType /\ h.unit = hook.unit /\ h.todo = hook.todo
  BY <1>1 DEF HookType, StateType, Conns
<1> HIDE DEF h
<1>3. Update(h, status[hook.unit]) => HandledType
  BY <1>1, <1>2, UpdateType
<1> QED
  BY <1>1, <1>3, EarlyType DEF OnDatabaseBroken, h

\* admin.py _on_admin_relation_joined and _on_database_changed keeps what it changes well typed.
LEMMA OnAdminJoinedOrDatabaseChangedType ==
    ASSUME TypeOK, OnAdminJoinedOrDatabaseChanged
    PROVE  HandledType
<1>1. /\ hook \in HookType /\ hook.todo # << >>
  BY CurrentType DEF OnAdminJoinedOrDatabaseChanged
<1> DEFINE h == DbInfoProvided(hook)
<1>2. h \in HookType /\ h.unit = hook.unit /\ h.todo = hook.todo
  BY <1>1, DbInfoType
<1> HIDE DEF h
<1>3. Return(h) /\ UNCHANGED <<status, plan>> => HandledType
  BY <1>1, <1>2, ReturnedType DEF TypeOK, Statuses
<1> QED
  BY <1>1, <1>3, EarlyType DEF OnAdminJoinedOrDatabaseChanged, h

\* admin.py _on_admin_relation_changed keeps what it changes well typed.
LEMMA OnAdminChangedType ==
    ASSUME TypeOK, OnAdminChanged
    PROVE  HandledType
<1>1. /\ hook \in HookType /\ hook.todo # << >>
  BY CurrentType DEF OnAdminChanged
<1> DEFINE n == Notice("schema_changed", remote.admin.schema_status)
           t == <<n>> \o Tail(hook.todo)
<1>2. n \in NoticeType
  BY NoticeInType DEF TypeOK, RemoteType, Handlers
<1> HIDE DEF n
<1>3. t \in Seq(NoticeType)
  BY <1>1, <1>2, HeadTailProperties, ConcatProperties DEF HookType
<1> HIDE DEF t
<1>4. [hook EXCEPT !.todo = t] \in HookType
  BY <1>1, <1>3 DEF HookType
<1>5. CASE hook' = [hook EXCEPT !.todo = t] /\ UNCHANGED <<failed, status, plan>>
  BY <1>4, <1>5 DEF HandledType, TypeOK, Statuses
<1> QED
  BY <1>1, <1>5, EarlyType DEF OnAdminChanged, t, n

\* admin.py _on_schema_changed keeps what it changes well typed.
LEMMA OnSchemaChangedType ==
    ASSUME TypeOK, OnSchemaChanged
    PROVE  HandledType
<1>1. /\ hook \in HookType /\ hook.todo # << >> /\ hook.unit \in Units
  BY CurrentType DEF OnSchemaChanged
<1> DEFINE h == [hook EXCEPT !.bag.schema_ready = Head(hook.todo).arg = "ready"]
<1>2. h \in HookType /\ h.unit = hook.unit /\ h.todo = hook.todo
  BY <1>1 DEF HookType, StateType
<1> HIDE DEF h
<1>3. Update(h, "waiting") => HandledType
  BY <1>1, <1>2, UpdateType DEF Statuses
<1>4. CASE Raise /\ SetStatus("waiting") /\ UNCHANGED plan
  BY <1>1, <1>4, RaiseType DEF SetStatus, HandledType, TypeOK, Statuses
<1> QED
  BY <1>1, <1>3, <1>4, EarlyType DEF OnSchemaChanged, h

\* ui.py _on_ui_relation_joined keeps what it changes well typed.
LEMMA OnUiJoinedType ==
    ASSUME TypeOK, OnUiJoined
    PROVE  HandledType
<1>1. /\ hook \in HookType /\ hook.todo # << >>
  BY CurrentType DEF OnUiJoined
<1> DEFINE h == ServerStatusProvided(hook, status[hook.unit])
<1>2. h \in HookType /\ h.todo = hook.todo
  BY <1>1, ServerStatusType
<1> HIDE DEF h
<1>3. Return(h) /\ UNCHANGED <<status, plan>> => HandledType
  BY <1>1, <1>2, ReturnedType DEF TypeOK, Statuses
<1> QED
  BY <1>1, <1>3, EarlyType DEF OnUiJoined, h

\* openfga.py _on_openfga_store_created keeps what it changes well typed.
LEMMA OnOpenfgaStoreCreatedType ==
    ASSUME TypeOK, OnOpenfgaStoreCreated
    PROVE  HandledType
<1>1. /\ hook \in HookType /\ hook.todo # << >>
      /\ status[hook.unit] \in Statuses
  BY CurrentType DEF OnOpenfgaStoreCreated
<1> DEFINE o == [store |-> remote.openfga.store,
                 complete |-> remote.openfga.complete, model |-> None]
           h == [hook EXCEPT !.bag.openfga = o]
<1>2. o \in OpenfgaType
  BY DEF TypeOK, RemoteType, OpenfgaType
<1> HIDE DEF o
<1>3. h \in HookType /\ h.unit = hook.unit /\ h.todo = hook.todo
  BY <1>1, <1>2 DEF HookType, StateType
<1> HIDE DEF h
<1>4. Update(h, status[hook.unit]) => HandledType
  BY <1>1, <1>3, UpdateType
<1> QED
  BY <1>1, <1>4, EarlyType DEF OnOpenfgaStoreCreated, h, o

\* openfga.py _on_openfga_relation_broken keeps what it changes well typed.
LEMMA OnOpenfgaBrokenType ==
    ASSUME TypeOK, OnOpenfgaBroken
    PROVE  HandledType
<1>1. /\ hook \in HookType /\ hook.todo # << >>
      /\ status[hook.unit] \in Statuses
  BY CurrentType DEF OnOpenfgaBroken
<1> DEFINE h == [hook EXCEPT !.bag.openfga = None]
<1>2. h \in HookType /\ h.unit = hook.unit /\ h.todo = hook.todo
  BY <1>1 DEF HookType, StateType
<1> HIDE DEF h
<1>3. Update(h, status[hook.unit]) => HandledType
  BY <1>1, <1>2, UpdateType
<1> QED
  BY <1>1, <1>3, EarlyType DEF OnOpenfgaBroken, h

\* openfga.py _on_create_authorization_model_action keeps what it changes well typed.
LEMMA OnCreateAuthorizationModelType ==
    ASSUME TypeOK, OnCreateAuthorizationModel
    PROVE  HandledType
<1>1. /\ hook \in HookType /\ hook.todo # << >>
      /\ status[hook.unit] \in Statuses
  BY CurrentType DEF OnCreateAuthorizationModel
<1>2. CASE Ignore \/ Fail
  BY <1>1, <1>2, EarlyType
<1> DEFINE h == [hook EXCEPT !.bag.openfga.model = hook.bag.openfga.store]
<1>3. CASE hook.bag.openfga # None /\ Update(h, status[hook.unit])
  <2>1. hook.bag.openfga \in OpenfgaType
    BY <1>1, <1>3 DEF HookType, StateType
  <2>2. h \in HookType /\ h.unit = hook.unit /\ h.todo = hook.todo
    BY <1>1, <2>1 DEF HookType, StateType, OpenfgaType
  <2> HIDE DEF h
  <2> QED
    BY <1>1, <1>3, <2>2, UpdateType
<1> QED
  BY <1>2, <1>3 DEF OnCreateAuthorizationModel

\* s3_archival.py _on_s3_credentials_changed keeps what it changes well typed.
LEMMA OnS3CredentialsChangedType ==
    ASSUME TypeOK, OnS3CredentialsChanged
    PROVE  HandledType
<1>1. /\ hook \in HookType /\ hook.todo # << >>
      /\ status[hook.unit] \in Statuses
  BY CurrentType DEF OnS3CredentialsChanged
<1> DEFINE o == [cred |-> remote.s3.cred, bucket_created |-> BucketCreated]
           h == [hook EXCEPT !.bag.s3 = o]
<1>2. o \in S3Type
  BY DEF TypeOK, RemoteType, S3Type, BucketCreated
<1> HIDE DEF o
<1>3. h \in HookType /\ h.unit = hook.unit /\ h.todo = hook.todo
  BY <1>1, <1>2 DEF HookType, StateType
<1> HIDE DEF h
<1>4. Update(h, status[hook.unit]) => HandledType
  BY <1>1, <1>3, UpdateType
<1> QED
  BY <1>1, <1>4, EarlyType DEF OnS3CredentialsChanged, h, o

\* s3_archival.py _on_s3_credentials_gone keeps what it changes well typed.
LEMMA OnS3CredentialsGoneType ==
    ASSUME TypeOK, OnS3CredentialsGone
    PROVE  HandledType
<1>1. /\ hook \in HookType /\ hook.todo # << >>
      /\ status[hook.unit] \in Statuses
  BY CurrentType DEF OnS3CredentialsGone
<1> DEFINE h == [hook EXCEPT !.bag.s3 = None]
<1>2. h \in HookType /\ h.unit = hook.unit /\ h.todo = hook.todo
  BY <1>1 DEF HookType, StateType
<1> HIDE DEF h
<1>3. Update(h, status[hook.unit]) => HandledType
  BY <1>1, <1>2, UpdateType
<1> QED
  BY <1>1, <1>3, EarlyType DEF OnS3CredentialsGone, h

(***************************************************************************)
(* The handlers of the charm's own events.                                 *)
(***************************************************************************)
\* charm.py _on_install keeps what it changes well typed.
LEMMA OnInstallType ==
    ASSUME TypeOK, OnInstall
    PROVE  HandledType
<1>1. hook \in HookType /\ hook.todo # << >> /\ hook.unit \in Units
  BY CurrentType DEF OnInstall
<1>2. status' \in [Units -> Statuses]
  BY <1>1 DEF OnInstall, SetStatus, TypeOK, Statuses
<1> QED
  BY <1>1, <1>2, ReturnedType DEF OnInstall

\* charm.py _on_temporal_pebble_ready keeps what it changes well typed.
LEMMA OnPebbleReadyType ==
    ASSUME TypeOK, OnPebbleReady
    PROVE  HandledType
  BY CurrentType, UpdateType DEF OnPebbleReady

\* charm.py _on_config_changed keeps what it changes well typed.
LEMMA OnConfigChangedType ==
    ASSUME TypeOK, OnConfigChanged
    PROVE  HandledType
<1>1. hook \in HookType /\ hook.todo # << >> /\ hook.unit \in Units
  BY CurrentType DEF OnConfigChanged
<1>2. CASE Return(hook) /\ SetStatus("blocked") /\ UNCHANGED plan
  <2>1. status' \in [Units -> Statuses]
    BY <1>1, <1>2 DEF SetStatus, TypeOK, Statuses
  <2> QED
    BY <1>1, <1>2, <2>1, ReturnedType
<1>3. CASE Update(hook, "waiting")
  BY <1>1, <1>3, UpdateType DEF Statuses
<1> QED
  BY <1>2, <1>3 DEF OnConfigChanged

\* charm.py _on_peer_relation_changed keeps what it changes well typed.
LEMMA OnPeerRelationChangedType ==
    ASSUME TypeOK, OnPeerRelationChanged
    PROVE  HandledType
<1>1. hook \in HookType /\ hook.todo # << >>
  BY CurrentType DEF OnPeerRelationChanged
<1>2. Update(hook, "waiting") => HandledType
  BY <1>1, UpdateType DEF Statuses
<1> QED
  BY <1>1, <1>2, EarlyType DEF OnPeerRelationChanged

\* charm.py _on_restart_action keeps what it changes well typed.
LEMMA OnRestartType ==
    ASSUME TypeOK, OnRestart
    PROVE  HandledType
<1>1. hook \in HookType /\ hook.todo # << >> /\ hook.unit \in Units
  BY CurrentType DEF OnRestart
<1>2. status' \in [Units -> Statuses] /\ UNCHANGED plan
  BY <1>1 DEF OnRestart, SetStatus, TypeOK, Statuses
<1>3. CASE Return(hook)
  BY <1>1, <1>2, <1>3, ReturnedType
<1>4. CASE Raise
  BY <1>1, <1>2, <1>4, RaiseType DEF HandledType, TypeOK
<1> QED
  BY <1>3, <1>4 DEF OnRestart

\* charm.py _on_update_status keeps what it changes well typed.
LEMMA OnUpdateStatusType ==
    ASSUME TypeOK, OnUpdateStatus
    PROVE  HandledType
<1> DEFINE v == Pinned(hook)
           w == ConnsRecorded(v)
           h == IF IsLeader THEN w ELSE v
           g == ServerStatusProvided(h, "active")
<1>1. hook \in HookType /\ hook.todo # << >> /\ hook.unit \in Units
      /\ status[hook.unit] \in Statuses
  BY CurrentType DEF OnUpdateStatus
<1>2. v \in HookType /\ v.unit = hook.unit /\ v.todo = hook.todo
  BY <1>1, PinnedType DEF TypeOK
<1> HIDE DEF v
<1>3. w \in HookType /\ w.unit = hook.unit /\ w.todo = hook.todo
  BY <1>2, ConnsRecordedType DEF TypeOK
<1> HIDE DEF w
<1>4. h \in HookType /\ h.unit = hook.unit /\ h.todo = hook.todo
  BY <1>2, <1>3
<1> HIDE DEF h
<1>5. g \in HookType /\ g.todo = hook.todo
  BY <1>4, ServerStatusType
<1> HIDE DEF g
<1>6. CASE Fail
  BY <1>1, <1>6, EarlyType
<1>7. CASE Return(v) /\ UNCHANGED <<status, plan>>
  BY <1>1, <1>2, <1>7, ReturnedType DEF TypeOK, Statuses
<1>8. CASE Update(h, status[hook.unit])
  BY <1>1, <1>4, <1>8, UpdateType
<1>9. CASE UNCHANGED plan /\ \E healthy \in BOOLEAN : CheckUp(h, healthy)
  <2>1. status' \in [Units -> Statuses]
    BY <1>1, <1>9 DEF CheckUp, SetStatus, TypeOK, Statuses
  <2>2. Return(h) \/ Return(g)
    BY <1>9 DEF CheckUp, g
  <2> QED
    BY <1>1, <1>4, <1>5, <1>9, <2>1, <2>2, ReturnedType
<1> QED
  BY <1>6, <1>7, <1>8, <1>9 DEF OnUpdateStatus, h, w, v

\* Whichever handler runs, types are kept.
LEMMA HandleType ==
    ASSUME TypeOK, Handle
    PROVE  TypeOK'
<1>1. HandledType
  <2>1. CASE RelationStep
    BY <2>1, OnDatabaseChangedType, OnDatabaseBrokenType,
       OnAdminJoinedOrDatabaseChangedType, OnAdminChangedType,
       OnSchemaChangedType, OnUiJoinedType, OnOpenfgaStoreCreatedType,
       OnOpenfgaBrokenType, OnCreateAuthorizationModelType,
       OnS3CredentialsChangedType, OnS3CredentialsGoneType
       DEF RelationStep
  <2>2. CASE LifecycleStep
    BY <2>2, OnInstallType, OnPebbleReadyType, OnConfigChangedType,
       OnPeerRelationChangedType, OnRestartType, OnUpdateStatusType
       DEF LifecycleStep
  <2> QED
    BY <2>1, <2>2 DEF Handle
<1> QED
  BY <1>1 DEF Handle, outside, HandledType, TypeOK, Statuses

(***************************************************************************)
(* Dispatching and outside changes.                                        *)
(***************************************************************************)
\* A dispatch starts with the deferred notices and the event's observers.
LEMMA DispatchType ==
    ASSUME TypeOK, NEW u \in Units, NEW e \in Events, Dispatch(u, e)
    PROVE  TypeOK' /\ hook' \in HookType
<1> DEFINE t == deferred[u] \o Observers(e)
<1>1. t \in Seq(NoticeType)
  BY ObserversType, ConcatProperties DEF TypeOK
<1>2. << >> \in Seq(NoticeType)
  OBVIOUS
<1> HIDE DEF t
<1>3. [unit |-> u, event |-> e, todo |-> t, kept |-> << >>, bag |-> bag,
       pub |-> pub, ports |-> ports[u]] \in HookType
  BY <1>1, <1>2 DEF TypeOK, HookType
<1>4. hook' \in HookType
  BY <1>3 DEF Dispatch, NewHook, t
<1> QED
  BY <1>4 DEF Dispatch, outside, TypeOK

\* Every way a dispatch starts.
LEMMA DispatchesType ==
    ASSUME TypeOK, NEW u \in Units,
           \/ DispatchPending(u) \/ DispatchRetry(u)
           \/ DispatchUpdateStatus(u) \/ Action(u)
    PROVE  TypeOK'
<1>1. \A e \in Events : Dispatch(u, e) => TypeOK'
  BY DispatchType
<1>2. pending[u] \subseteq Events /\ (failed[u] # None => failed[u] \in Events)
  BY DEF TypeOK, Events
<1> QED
  BY <1>1, <1>2 DEF DispatchPending, DispatchRetry, DispatchUpdateStatus,
     Action, DispatchAction, Events, ActionEvents

\* Skipping a notice, ending a dispatch and dying in one.
LEMMA DispatchEndsType ==
    ASSUME TypeOK, SkipKept \/ Commit \/ Crash
    PROVE  TypeOK'
<1>1. CASE SkipKept
  <2>1. hook \in HookType /\ hook.todo # << >> /\ Return(hook)
    BY <1>1 DEF SkipKept, TypeOK
  <2> QED
    BY <1>1, <2>1, ReturnType DEF SkipKept, outside, TypeOK
<1>2. CASE Commit
  <2>1. hook \in HookType
    BY <1>2 DEF Commit, TypeOK
  <2>2. /\ bag' \in StateType /\ pub' \in PubType
        /\ ports' \in [Units -> PortSets]
        /\ deferred' \in [Units -> Seq(NoticeType)]
        /\ failed' \in [Units -> Events \cup {None}]
        /\ hook' = None
    BY <1>2, <2>1 DEF Commit, TypeOK, HookType
  <2>3. pending' \in [Units -> SUBSET HookEvents]
    BY <1>2 DEF Commit, TypeOK, HookEvents
  <2> QED
    BY <1>2, <2>2, <2>3 DEF Commit, TypeOK
<1>3. CASE Crash
  <2>1. hook \in HookType
    BY <1>3 DEF Crash, TypeOK
  <2>2. hook' = None /\ failed' \in [Units -> Events \cup {None}]
    BY <1>3, <2>1, RaiseType DEF Crash, TypeOK
  <2>3. budget' \in 0..MaxDisturbances
    BY <1>3, BoundAssumption DEF Crash, Disturb, TypeOK
  <2> QED
    BY <1>3, <2>2, <2>3 DEF Crash, TypeOK
<1> QED
  BY <1>1, <1>2, <1>3

\* Leadership, the peer relation and the containers.
LEMMA SubstrateType ==
    ASSUME TypeOK,
           \/ PeerRelationCreated
           \/ \E u \in Units : ChangeLeader(u) \/ ContainerLost(u) \/ ContainerUp(u)
    PROVE  TypeOK'
<1> USE BoundAssumption DEF TypeOK
<1>1. CASE PeerRelationCreated
  BY <1>1 DEF PeerRelationCreated, Notify, HookEvents
<1>2. ASSUME NEW u \in Units, ChangeLeader(u)
      PROVE  TypeOK'
  BY <1>2 DEF ChangeLeader, Disturb
<1>3. ASSUME NEW u \in Units, ContainerLost(u)
      PROVE  TypeOK'
  BY <1>3 DEF ContainerLost, Disturb
<1>4. ASSUME NEW u \in Units, ContainerUp(u)
      PROVE  TypeOK'
  BY <1>4 DEF ContainerUp, HookEvents
<1> QED
  BY <1>1, <1>2, <1>3, <1>4

\* Raising an event on every unit, or telling every unit a relation is gone.
LEMMA NotifyType ==
    ASSUME TypeOK, NEW e \in HookEvents, NEW dropped
    PROVE  /\ Notify(e) \in [Units -> SUBSET HookEvents]
           /\ NotifyBroken(dropped, e) \in [Units -> SUBSET HookEvents]
  BY DEF Notify, NotifyBroken, TypeOK

\* What a related application publishes is well typed if it was built so.
LEMMA PublishType ==
    ASSUME TypeOK, NEW r \in RemoteType, NEW p \in PubType,
           NEW q \in [Units -> SUBSET HookEvents], Publish(r, p, q),
           budget' \in 0..MaxDisturbances
    PROVE  TypeOK'
  BY DEF Publish, TypeOK

\* A change of budget keeps it within its bound.
LEMMA DisturbType ==
    ASSUME TypeOK, NEW d, Disturb(d)
    PROVE  budget' \in 0..MaxDisturbances
  BY BoundAssumption DEF Disturb, TypeOK

\* The operator's, the databases' and the other applications' changes.
LEMMA EnvironmentType ==
    ASSUME TypeOK, Environment
    PROVE  TypeOK'
<1>1. ASSUME NEW c \in Configs, SetConfig(c)
      PROVE  TypeOK'
  <2>1. Notify("config_changed") \in [Units -> SUBSET HookEvents]
    BY NotifyType DEF HookEvents
  <2>2. budget' \in 0..MaxDisturbances
    BY <1>1, DisturbType DEF SetConfig
  <2> QED
    BY <1>1, <2>1, <2>2, ConfigsAssumption DEF SetConfig, TypeOK
<1>2. ASSUME NEW r \in DBs, NEW c \in DbOffers, OfferDb(r, c)
      PROVE  TypeOK'
  <2> DEFINE m == [remote EXCEPT !.db[r] = [alive |-> TRUE, conn |-> c]]
             q == IF /\ remote.db[r].alive
                     /\ remote.db[r].conn.host = c.host
                     /\ remote.db[r].conn.port = c.port
                  THEN pending ELSE Notify(DbChanged[r])
  <2>1. m \in RemoteType
    BY OffersAssumption DEF TypeOK, RemoteType
  <2>2. DbChanged[r] \in HookEvents
    BY DEF DbChanged, DBs, HookEvents
  <2>3. q \in [Units -> SUBSET HookEvents]
    BY <2>2, NotifyType DEF TypeOK
  <2>4. Publish(m, pub, q) /\ Disturb(r)
    BY <1>2 DEF OfferDb
  <2> HIDE DEF m, q
  <2> QED
    BY <2>1, <2>3, <2>4, DisturbType, PublishType DEF TypeOK
<1>3. ASSUME NEW r \in DBs, RemoveDb(r)
      PROVE  TypeOK'
  <2> DEFINE m == [remote EXCEPT !.db[r].alive = FALSE]
             q == NotifyBroken({DbChanged[r]}, DbBroken[r])
  <2>1. m \in RemoteType
    <3>1. remote.db \in [DBs -> [alive : BOOLEAN, conn : Conn]]
      BY DEF TypeOK, RemoteType
    <3>2. [remote.db[r] EXCEPT !.alive = FALSE] \in [alive : BOOLEAN, conn : Conn]
      BY <3>1
    <3>3. [remote.db EXCEPT ![r].alive = FALSE] \in [DBs -> [alive : BOOLEAN, conn : Conn]]
      BY <3>1, <3>2
    <3> QED
      BY <3>3 DEF TypeOK, RemoteType
  <2>2. DbBroken[r] \in HookEvents
    BY DEF DbBroken, DBs, HookEvents
  <2>3. q \in [Units -> SUBSET HookEvents]
    BY <2>2, NotifyType
  <2>4. Publish(m, pub, q) /\ Disturb(r)
    BY <1>3 DEF RemoveDb
  <2> HIDE DEF m, q
  <2> QED
    BY <2>1, <2>3, <2>4, DisturbType, PublishType DEF TypeOK
<1>4. CASE RelateAdmin
  <2> DEFINE m == [remote EXCEPT !.admin = [alive |-> TRUE, schema_status |-> "waiting"]]
             p == [pub EXCEPT !.admin = None]
             q == [u \in Units |-> pending[u] \cup {"admin_joined", "admin_changed"}]
  <2>1. m \in RemoteType /\ p \in PubType
    BY DEF TypeOK, RemoteType, PubType
  <2>2. q \in [Units -> SUBSET HookEvents]
    BY DEF TypeOK, HookEvents
  <2>3. Publish(m, p, q) /\ Disturb("admin")
    BY <1>4 DEF RelateAdmin
  <2> HIDE DEF m, p, q
  <2> QED
    BY <2>1, <2>2, <2>3, DisturbType, PublishType
<1>5. CASE AdminSetsUpSchema
  <2> DEFINE m == [remote EXCEPT !.admin.schema_status = "ready"]
             q == Notify("admin_changed")
  <2>1. m \in RemoteType
    BY DEF TypeOK, RemoteType
  <2>2. q \in [Units -> SUBSET HookEvents]
    BY NotifyType DEF HookEvents
  <2>3. Publish(m, pub, q) /\ UNCHANGED budget
    BY <1>5 DEF AdminSetsUpSchema
  <2> HIDE DEF m, q
  <2> QED
    BY <2>1, <2>2, <2>3, PublishType DEF TypeOK
<1>6. CASE AdminLosesSchema
  <2> DEFINE m == [remote EXCEPT !.admin.schema_status = "waiting"]
             q == Notify("admin_changed")
  <2>1. m \in RemoteType
    BY DEF TypeOK, RemoteType
  <2>2. q \in [Units -> SUBSET HookEvents]
    BY NotifyType DEF HookEvents
  <2>3. Publish(m, pub, q) /\ Disturb("schema")
    BY <1>6 DEF AdminLosesSchema
  <2> HIDE DEF m, q
  <2> QED
    BY <2>1, <2>2, <2>3, DisturbType, PublishType DEF TypeOK
<1>7. CASE RemoveAdmin
  <2> DEFINE m == [remote EXCEPT !.admin = [alive |-> FALSE, schema_status |-> "waiting"]]
             q == NotifyBroken({"admin_joined", "admin_changed"}, "admin_broken")
  <2>1. m \in RemoteType
    BY DEF TypeOK, RemoteType
  <2>2. q \in [Units -> SUBSET HookEvents]
    BY NotifyType DEF HookEvents
  <2>3. Publish(m, pub, q) /\ Disturb("admin")
    BY <1>7 DEF RemoveAdmin
  <2> HIDE DEF m, q
  <2> QED
    BY <2>1, <2>2, <2>3, DisturbType, PublishType DEF TypeOK
<1>8. CASE RelateUi \/ RemoveUi
  <2>1. ASSUME NEW b \in BOOLEAN
        PROVE  [remote EXCEPT !.ui.alive = b] \in RemoteType
    BY DEF TypeOK, RemoteType
  <2>2. [pub EXCEPT !.ui = None] \in PubType
    BY DEF TypeOK, PubType
  <2>3. /\ Notify("ui_joined") \in [Units -> SUBSET HookEvents]
        /\ [u \in Units |-> pending[u] \ {"ui_joined"}] \in [Units -> SUBSET HookEvents]
    BY NotifyType DEF TypeOK, HookEvents
  <2>4. Disturb("ui")
    BY <1>8 DEF RelateUi, RemoveUi
  <2> QED
    BY <1>8, <2>1, <2>2, <2>3, <2>4, DisturbType, PublishType
       DEF RelateUi, RemoveUi, TypeOK
<1>9. ASSUME NEW s \in Stores, NEW c \in BOOLEAN, OfferStore(s, c)
      PROVE  TypeOK'
  <2> DEFINE m == [remote EXCEPT !.openfga = [alive |-> TRUE, store |-> s, complete |-> c]]
             q == Notify("openfga_changed")
  <2>1. m \in RemoteType
    BY DEF TypeOK, RemoteType
  <2>2. q \in [Units -> SUBSET HookEvents]
    BY NotifyType DEF HookEvents
  <2>3. Publish(m, pub, q) /\ Disturb("openfga")
    BY <1>9 DEF OfferStore
  <2> HIDE DEF m, q
  <2> QED
    BY <2>1, <2>2, <2>3, DisturbType, PublishType DEF TypeOK
<1>10. CASE RemoveStore
  <2> DEFINE m == [remote EXCEPT !.openfga.alive = FALSE]
             q == NotifyBroken({"openfga_changed"}, "openfga_broken")
  <2>1. m \in RemoteType
    BY DEF TypeOK, RemoteType
  <2>2. q \in [Units -> SUBSET HookEvents]
    BY NotifyType DEF HookEvents
  <2>3. Publish(m, pub, q) /\ Disturb("openfga")
    BY <1>10 DEF RemoveStore
  <2> HIDE DEF m, q
  <2> QED
    BY <2>1, <2>2, <2>3, DisturbType, PublishType DEF TypeOK
<1>11. ASSUME NEW c \in S3Creds, NEW b \in {"created", "refused", "missing"},
              OfferS3(c, b)
       PROVE  TypeOK'
  <2> DEFINE m == [remote EXCEPT !.s3 = [alive |-> TRUE, cred |-> c, bucket |-> b]]
             q == Notify("s3_changed")
  <2>1. m \in RemoteType
    BY DEF TypeOK, RemoteType
  <2>2. q \in [Units -> SUBSET HookEvents]
    BY NotifyType DEF HookEvents
  <2>3. Publish(m, pub, q) /\ Disturb("s3")
    BY <1>11 DEF OfferS3
  <2> HIDE DEF m, q
  <2> QED
    BY <2>1, <2>2, <2>3, DisturbType, PublishType DEF TypeOK
<1>12. CASE RemoveS3
  <2> DEFINE m == [remote EXCEPT !.s3.alive = FALSE]
             q == NotifyBroken({"s3_changed"}, "s3_broken")
  <2>1. m \in RemoteType
    BY DEF TypeOK, RemoteType
  <2>2. q \in [Units -> SUBSET HookEvents]
    BY NotifyType DEF HookEvents
  <2>3. Publish(m, pub, q) /\ Disturb("s3")
    BY <1>12 DEF RemoveS3
  <2> HIDE DEF m, q
  <2> QED
    BY <2>1, <2>2, <2>3, DisturbType, PublishType DEF TypeOK
<1> QED
  BY <1>1, <1>2, <1>3, <1>4, <1>5, <1>6, <1>7, <1>8, <1>9, <1>10, <1>11, <1>12
     DEF Environment

(***************************************************************************)
(* Type correctness.                                                       *)
(***************************************************************************)
\* The state of a fresh deployment is well typed.
LEMMA InitType == Init => TypeOK
<1> SUFFICES ASSUME Init PROVE TypeOK
  OBVIOUS
<1>1. remote \in RemoteType
  BY OffersAssumption DEF Init, NoRemote, RemoteType
<1>2. bag \in StateType
  BY DEF Init, FreshState, NoConns, StateType, Conns
<1>3. /\ deferred \in [Units -> Seq(NoticeType)]
      /\ pending \in [Units -> SUBSET HookEvents]
  BY DEF Init, HookEvents
<1>4. /\ pub \in PubType /\ ports \in [Units -> PortSets]
      /\ budget \in 0..MaxDisturbances
  BY BoundAssumption DEF Init, PubType, PortSets
<1>5. config \in ConfigType
  BY ConfigsAssumption DEF Init
<1> QED
  BY <1>1, <1>2, <1>3, <1>4, <1>5 DEF Init, TypeOK

\* Every step keeps the state well typed.
LEMMA NextType == TypeOK /\ [Next]_vars => TypeOK'
<1> SUFFICES ASSUME TypeOK, [Next]_vars PROVE TypeOK'
  OBVIOUS
<1>1. CASE Next
  BY <1>1, DispatchesType, HandleType, DispatchEndsType, SubstrateType,
     EnvironmentType DEF Next
<1>2. CASE UNCHANGED vars
  BY <1>2 DEF vars, TypeOK
<1> QED
  BY <1>1, <1>2

\* Whatever happens, every variable keeps a value charm and Juju can give it.
THEOREM TypeCorrect == Spec => []TypeOK
  BY InitType, NextType, PTL DEF Spec

(***************************************************************************)
(* The number of history shards.  What one handler does to it: it raises,  *)
(* which a leader whose option is set only does where no plan is at stake, *)
(* or because S3 cannot be reached; or it goes on, having pinned the option's value if there was none, and  *)
(* having planned the workload of its own unit, if at all, with the count  *)
(* it goes on with.                                                        *)
(***************************************************************************)
KeptOrPinned(count) ==
    \/ count = hook.bag.shards
    \/ /\ hook.bag.shards = None
       /\ config.shards # None
       /\ count = config.shards
       /\ leader = hook.unit
       /\ peerReady

Raised ==
    /\ hook' = None
    /\ UNCHANGED plan
    /\ peerReady /\ leader = hook.unit /\ config.shards # None /\ ~Unreachable =>
          plan[hook.unit] = None \/ ~up[hook.unit]

WentOn ==
    /\ hook' \in HookType
    /\ hook'.unit = hook.unit
    /\ KeptOrPinned(hook'.bag.shards)
    /\ \/ UNCHANGED plan
       \/ /\ up[hook.unit]
          /\ \E p : /\ plan' = [plan EXCEPT ![hook.unit] = p]
                    /\ p.shards = hook'.bag.shards

HandledShards == Raised \/ WentOn

\* Going on, or deferring, keeps unit and databag of the dispatch.
LEMMA KeepsShards ==
    ASSUME NEW h \in HookType, Return(h) \/ Defer(h)
    PROVE  hook'.unit = h.unit /\ hook'.bag = h.bag
  BY DEF Return, Defer, HookType

\* Pinning replaces nothing but a missing count, by the option's value.
LEMMA PinnedShards ==
    ASSUME NEW h \in HookType
    PROVE  LET p == Pinned(h) IN
           /\ p.unit = h.unit
           /\ \/ p.bag.shards = h.bag.shards
              \/ /\ h.bag.shards = None /\ config.shards # None
                 /\ p.bag.shards = config.shards
                 /\ leader = h.unit /\ peerReady
  BY DEF Pinned, HookType, StateType, ShardsAccepted, PassesFirstChecks

\* Opening ports leaves unit and databag alone.
LEMMA PortsShards ==
    ASSUME NEW h \in HookType
    PROVE  PortsOpened(h).unit = h.unit /\ PortsOpened(h).bag = h.bag
  BY DEF PortsOpened, HookType

\* Telling the admin or the UI charm leaves unit and databag alone.
LEMMA PublishedShards ==
    ASSUME NEW h \in HookType, NEW s
    PROVE  /\ DbInfoProvided(h).unit = h.unit
           /\ DbInfoProvided(h).bag = h.bag
           /\ ServerStatusProvided(h, s).unit = h.unit
           /\ ServerStatusProvided(h, s).bag = h.bag
  BY DEF DbInfoProvided, ServerStatusProvided, HookType

\* Recording connections leaves the shard count alone.
LEMMA ConnsRecordedShards ==
    ASSUME NEW h \in HookType, config \in ConfigType, remote \in RemoteType
    PROVE  /\ ConnsRecorded(h).unit = h.unit
           /\ ConnsRecorded(h).bag.shards = h.bag.shards
<1>1. \A r \in DBs : ConnOf(r) \in Conn
  BY DEF ConnOf, RemoteType, ConfigType, Conn
<1> DEFINE b == [h.bag EXCEPT !.conn = [r \in DBs |-> IF Readable(r) THEN ConnOf(r) ELSE @[r]]]
           g == [h EXCEPT !.bag = b]
<1>2. b \in StateType /\ b.shards = h.bag.shards
  BY <1>1 DEF StateType, Conns, HookType
<1> HIDE DEF b
<1>3. g \in HookType /\ g.unit = h.unit /\ g.bag.shards = h.bag.shards
  BY <1>2 DEF HookType
<1>4. DbInfoProvided(g).unit = g.unit /\ DbInfoProvided(g).bag = g.bag
  <2> HIDE DEF g
  <2> QED BY <1>3, PublishedShards
<1> QED
  BY <1>3, <1>4 DEF ConnsRecorded, b

\* A handler that returns with h and plans nothing.
LEMMA ReturnedShards ==
    ASSUME TypeOK, hook \in HookType, NEW h \in HookType,
           h.unit = hook.unit, KeptOrPinned(h.bag.shards),
           h.todo # << >>, Return(h) \/ Defer(h), UNCHANGED plan
    PROVE  HandledShards
  BY KeepsShards, ReturnType, DeferType DEF HandledShards, WentOn, KeptOrPinned

\* _update on a dispatch whose count is what it was, or already pinned.
LEMMA UpdateShards ==
    ASSUME TypeOK, hook \in HookType,
           NEW h \in HookType, h.unit = hook.unit, h.todo # << >>,
           KeptOrPinned(h.bag.shards),
           NEW s \in Statuses, Update(h, s)
    PROVE  HandledShards
<1> DEFINE p == Pinned(h)
           q == PortsOpened(p)
<1>1. p \in HookType /\ p.unit = h.unit /\ p.todo = h.todo
  BY PinnedType DEF TypeOK
<1>2. KeptOrPinned(p.bag.shards)
  BY PinnedShards DEF KeptOrPinned
<1> HIDE DEF p
<1>3. q \in HookType /\ q.unit = h.unit /\ q.todo = h.todo /\ q.bag = p.bag
  BY <1>1, PortsType, PortsShards DEF TypeOK
<1> HIDE DEF q
<1>4. CASE ShardsUnreadable(h.bag) /\ Raise /\ UNCHANGED plan
  BY <1>4 DEF ShardsUnreadable, Raise, HandledShards, Raised
<1>5. CASE Return(p) /\ UNCHANGED plan
  BY <1>1, <1>2, <1>5, KeepsShards, ReturnType
     DEF HandledShards, WentOn
<1>6. CASE Raise /\ ~up[h.unit] /\ UNCHANGED plan
  BY <1>6 DEF Raise, HandledShards, Raised
<1>7. CASE Defer(q) /\ UNCHANGED plan
  BY <1>1, <1>2, <1>3, <1>7, KeepsShards, DeferType
     DEF HandledShards, WentOn
<1>8. CASE /\ up[h.unit]
           /\ Return(q)
           /\ plan' = [plan EXCEPT ![h.unit] = PlanOf(p.bag)]
  <2>1. PlanOf(p.bag).shards = p.bag.shards
    BY DEF PlanOf
  <2>2. /\ hook' \in HookType /\ hook'.unit = hook.unit
        /\ hook'.bag.shards = p.bag.shards
    BY <1>1, <1>3, <1>8, KeepsShards, ReturnType
  <2> QED
    BY <1>2, <1>8, <2>1, <2>2 DEF HandledShards, WentOn
<1> QED
  BY <1>4, <1>5, <1>6, <1>7, <1>8 DEF Update, p, q

\* A handler that only touches the rest of the databag, and then updates.
LEMMA BagShards ==
    ASSUME TypeOK, hook \in HookType, hook.todo # << >>,
           NEW b \in StateType, b.shards = hook.bag.shards,
           NEW s \in Statuses, Update([hook EXCEPT !.bag = b], s)
    PROVE  HandledShards
<1> DEFINE h == [hook EXCEPT !.bag = b]
<1>1. h \in HookType /\ h.unit = hook.unit /\ h.todo = hook.todo /\ h.bag = b
  BY DEF HookType
<1> HIDE DEF h
<1> QED
  BY <1>1, UpdateShards DEF h, KeptOrPinned

\* A handler that returns early or defers.
LEMMA EarlyShards ==
    ASSUME TypeOK, hook \in HookType, hook.todo # << >>, Ignore \/ Postpone
    PROVE  HandledShards
  BY ReturnedShards DEF Ignore, Postpone, KeptOrPinned

\* A handler that raises where no leader with a databag does.
LEMMA FailShards ==
    ASSUME Fail, ~peerReady \/ leader # hook.unit \/ config.shards = None \/ Unreachable
    PROVE  HandledShards
  BY DEF Fail, Raise, HandledShards, Raised

\* What the handlers of the relations do to the shard count.
LEMMA RelationShards ==
    ASSUME TypeOK, RelationStep
    PROVE  HandledShards
<1>1. /\ hook \in HookType /\ hook.todo # << >>
      /\ Head(hook.todo) \in NoticeType
      /\ status[hook.unit] \in Statuses
      /\ hook.bag \in StateType
  <2>1. \E n : Current(n)
    BY DEF RelationStep, OnDatabaseChanged, OnDatabaseBroken,
       OnAdminJoinedOrDatabaseChanged, OnAdminChanged, OnSchemaChanged,
       OnUiJoined, OnOpenfgaStoreCreated, OnOpenfgaBroken,
       OnCreateAuthorizationModel, OnS3CredentialsChanged, OnS3CredentialsGone
  <2> QED
    BY <2>1, CurrentType DEF HookType
<1>2. CASE OnDatabaseChanged
  <2> DEFINE h == ConnsRecorded(hook)
  <2>1. /\ h \in HookType /\ h.unit = hook.unit /\ h.todo = hook.todo
        /\ h.bag.shards = hook.bag.shards
    BY <1>1, ConnsRecordedType, ConnsRecordedShards DEF TypeOK
  <2> HIDE DEF h
  <2>2. Update(h, "waiting") => HandledShards
    BY <1>1, <2>1, UpdateShards DEF Statuses, KeptOrPinned
  <2> QED
    BY <1>1, <1>2, <2>2, EarlyShards DEF OnDatabaseChanged, h
<1>3. CASE OnDatabaseBroken
  <2> DEFINE b == [hook.bag EXCEPT !.conn[Head(hook.todo).arg] = None]
  <2>1. b \in StateType /\ b.shards = hook.bag.shards
    BY <1>1 DEF StateType, Conns
  <2>2. [hook EXCEPT !.bag.conn[Head(hook.todo).arg] = None] = [hook EXCEPT !.bag = b]
    BY <1>1 DEF HookType
  <2> HIDE DEF b
  <2> QED
    BY <1>1, <1>3, <2>1, <2>2, BagShards, EarlyShards DEF OnDatabaseBroken
<1>4. CASE OnAdminJoinedOrDatabaseChanged
  <2> DEFINE h == DbInfoProvided(hook)
  <2>1. /\ h \in HookType /\ h.unit = hook.unit /\ h.todo = hook.todo
        /\ h.bag = hook.bag
    BY <1>1, DbInfoType, PublishedShards
  <2> HIDE DEF h
  <2> QED
    BY <1>1, <1>4, <2>1, ReturnedShards, EarlyShards
       DEF OnAdminJoinedOrDatabaseChanged, h, KeptOrPinned
<1>5. CASE OnAdminChanged
  <2>1. CASE Ignore
    BY <1>1, <2>1, EarlyShards
  <2> DEFINE t == <<Notice("schema_changed", remote.admin.schema_status)>> \o Tail(hook.todo)
  <2>2. CASE hook' = [hook EXCEPT !.todo = t] /\ UNCHANGED plan
    <3>1. hook' \in HookType \cup {None}
      BY <1>5, OnAdminChangedType DEF HandledType
    <3> HIDE DEF t
    <3>2. hook'.unit = hook.unit /\ hook'.bag = hook.bag /\ hook' \in HookType
      <4>1. t \in Seq(NoticeType)
        <5> DEFINE n == Notice("schema_changed", remote.admin.schema_status)
        <5>1. n \in NoticeType
          BY NoticeInType DEF TypeOK, RemoteType, Handlers
        <5> HIDE DEF n
        <5> QED
          BY <1>1, <5>1, HeadTailProperties, ConcatProperties DEF HookType, t, n
      <4> QED
        BY <1>1, <2>2, <4>1 DEF HookType
    <3> QED
      BY <2>2, <3>2 DEF HandledShards, WentOn, KeptOrPinned
  <2> QED
    BY <1>5, <2>1, <2>2 DEF OnAdminChanged
<1>6. CASE OnSchemaChanged
  <2> DEFINE b == [hook.bag EXCEPT !.schema_ready = Head(hook.todo).arg = "ready"]
  <2>1. b \in StateType /\ b.shards = hook.bag.shards
    BY <1>1 DEF StateType
  <2>2. [hook EXCEPT !.bag.schema_ready = Head(hook.todo).arg = "ready"]
          = [hook EXCEPT !.bag = b]
    BY <1>1 DEF HookType
  <2> HIDE DEF b
  <2>3. CASE ~IsLeader /\ Raise /\ UNCHANGED plan
    BY <2>3 DEF IsLeader, Raise, HandledShards, Raised
  <2> QED
    BY <1>1, <1>6, <2>1, <2>2, <2>3, BagShards, EarlyShards
       DEF OnSchemaChanged, Statuses
<1>7. CASE OnUiJoined
  <2> DEFINE h == ServerStatusProvided(hook, status[hook.unit])
  <2>1. /\ h \in HookType /\ h.unit = hook.unit /\ h.todo = hook.todo
        /\ h.bag = hook.bag
    BY <1>1, ServerStatusType, PublishedShards
  <2> HIDE DEF h
  <2> QED
    BY <1>1, <1>7, <2>1, ReturnedShards, EarlyShards
       DEF OnUiJoined, h, KeptOrPinned
<1>8. CASE OnOpenfgaStoreCreated
  <2> DEFINE o == [store |-> remote.openfga.store,
                   complete |-> remote.openfga.complete, model |-> None]
             b == [hook.bag EXCEPT !.openfga = o]
  <2>1. o \in OpenfgaType
    BY DEF TypeOK, RemoteType, OpenfgaType
  <2> HIDE DEF o
  <2>2. b \in StateType /\ b.shards = hook.bag.shards
    BY <1>1, <2>1 DEF StateType
  <2>3. [hook EXCEPT !.bag.openfga = o] = [hook EXCEPT !.bag = b]
    BY <1>1 DEF HookType
  <2> HIDE DEF b
  <2> QED
    BY <1>1, <1>8, <2>2, <2>3, BagShards, EarlyShards, FailShards
       DEF OnOpenfgaStoreCreated, o
<1>9. CASE OnOpenfgaBroken
  <2> DEFINE b == [hook.bag EXCEPT !.openfga = None]
  <2>1. b \in StateType /\ b.shards = hook.bag.shards
    BY <1>1 DEF StateType
  <2>2. [hook EXCEPT !.bag.openfga = None] = [hook EXCEPT !.bag = b]
    BY <1>1 DEF HookType
  <2> HIDE DEF b
  <2> QED
    BY <1>1, <1>9, <2>1, <2>2, BagShards, EarlyShards DEF OnOpenfgaBroken
<1>10. CASE OnCreateAuthorizationModel
  <2> DEFINE b == [hook.bag EXCEPT !.openfga.model = hook.bag.openfga.store]
  <2>1. ASSUME hook.bag.openfga # None, Update([hook EXCEPT !.bag = b], status[hook.unit])
        PROVE  HandledShards
    <3>1. hook.bag.openfga \in OpenfgaType
      BY <1>1, <2>1 DEF StateType
    <3>2. b \in StateType /\ b.shards = hook.bag.shards
      BY <1>1, <3>1 DEF StateType, OpenfgaType
    <3> HIDE DEF b
    <3> QED
      BY <1>1, <2>1, <3>2, BagShards
  <2>2. [hook EXCEPT !.bag.openfga.model = hook.bag.openfga.store]
          = [hook EXCEPT !.bag = b]
    BY <1>1 DEF HookType
  <2> HIDE DEF b
  <2> QED
    BY <1>1, <1>10, <2>1, <2>2, EarlyShards, FailShards
       DEF OnCreateAuthorizationModel
<1>11. CASE OnS3CredentialsChanged
  <2> DEFINE o == [cred |-> remote.s3.cred,
                   bucket_created |-> BucketCreated]
             b == [hook.bag EXCEPT !.s3 = o]
  <2>1. o \in S3Type
    BY DEF TypeOK, RemoteType, S3Type, BucketCreated
  <2> HIDE DEF o
  <2>2. b \in StateType /\ b.shards = hook.bag.shards
    BY <1>1, <2>1 DEF StateType
  <2>3. [hook EXCEPT !.bag.s3 = o] = [hook EXCEPT !.bag = b]
    BY <1>1 DEF HookType
  <2> HIDE DEF b
  <2> QED
    BY <1>1, <1>11, <2>2, <2>3, BagShards, EarlyShards, FailShards
       DEF OnS3CredentialsChanged, o
<1>12. CASE OnS3CredentialsGone
  <2> DEFINE b == [hook.bag EXCEPT !.s3 = None]
  <2>1. b \in StateType /\ b.shards = hook.bag.shards
    BY <1>1 DEF StateType
  <2>2. [hook EXCEPT !.bag.s3 = None] = [hook EXCEPT !.bag = b]
    BY <1>1 DEF HookType
  <2> HIDE DEF b
  <2> QED
    BY <1>1, <1>12, <2>1, <2>2, BagShards, EarlyShards, FailShards
       DEF OnS3CredentialsGone
<1> QED
  BY <1>2, <1>3, <1>4, <1>5, <1>6, <1>7, <1>8, <1>9, <1>10, <1>11, <1>12
     DEF RelationStep

\* What the charm's own handlers do to the shard count.
LEMMA LifecycleShards ==
    ASSUME TypeOK, LifecycleStep
    PROVE  HandledShards
<1>1. /\ hook \in HookType /\ hook.todo # << >>
      /\ status[hook.unit] \in Statuses
  <2>1. \E n : Current(n)
    BY DEF LifecycleStep, OnInstall, OnPebbleReady, OnConfigChanged,
       OnPeerRelationChanged, OnRestart, OnUpdateStatus
  <2> QED
    BY <2>1, CurrentType
<1>2. Return(hook) /\ UNCHANGED plan => HandledShards
  BY <1>1, ReturnedShards DEF KeptOrPinned
<1>3. \A s \in Statuses : Update(hook, s) => HandledShards
  BY <1>1, UpdateShards DEF KeptOrPinned
<1>4. CASE OnInstall \/ OnPebbleReady \/ OnConfigChanged \/ OnPeerRelationChanged
  BY <1>1, <1>2, <1>3, <1>4, EarlyShards
     DEF OnInstall, OnPebbleReady, OnConfigChanged, OnPeerRelationChanged, Statuses
<1>5. CASE OnRestart
  BY <1>2, <1>5 DEF OnRestart, Raise, HandledShards, Raised
<1>6. CASE OnUpdateStatus
  <2> DEFINE v == Pinned(hook)
             w == ConnsRecorded(v)
             h == IF IsLeader THEN w ELSE v
             g == ServerStatusProvided(h, "active")
  <2>1. /\ v \in HookType /\ v.unit = hook.unit /\ v.todo = hook.todo
        /\ KeptOrPinned(v.bag.shards)
    BY <1>1, PinnedType, PinnedShards DEF TypeOK, KeptOrPinned
  <2> HIDE DEF v
  <2>2. /\ w \in HookType /\ w.unit = hook.unit /\ w.todo = hook.todo
        /\ w.bag.shards = v.bag.shards
    BY <2>1, ConnsRecordedType, ConnsRecordedShards DEF TypeOK
  <2> HIDE DEF w
  <2>3. /\ h \in HookType /\ h.unit = hook.unit /\ h.todo = hook.todo
        /\ h.bag.shards = v.bag.shards
    BY <2>1, <2>2
  <2> HIDE DEF h
  <2>4. /\ g \in HookType /\ g.unit = hook.unit /\ g.todo = hook.todo
        /\ g.bag.shards = v.bag.shards
    BY <2>3, ServerStatusType, PublishedShards
  <2> HIDE DEF g
  <2>5. CASE ShardsUnreadable(hook.bag) /\ Fail
    BY <2>5, FailShards DEF ShardsUnreadable
  <2>6. CASE Return(v) /\ UNCHANGED <<status, plan>>
    BY <1>1, <2>1, <2>6, ReturnedShards
  <2>7. CASE Update(h, status[hook.unit])
    BY <1>1, <2>1, <2>3, <2>7, UpdateShards
  <2>8. CASE UNCHANGED plan /\ \E healthy \in BOOLEAN : CheckUp(h, healthy)
    <3>1. Return(h) \/ Return(g)
      BY <2>8 DEF CheckUp, g
    <3> QED
      BY <1>1, <2>1, <2>3, <2>4, <2>8, <3>1, ReturnedShards
  <2> QED
    BY <1>6, <2>5, <2>6, <2>7, <2>8 DEF OnUpdateStatus, h, w, v
<1> QED
  BY <1>4, <1>5, <1>6 DEF LifecycleStep

\* Whichever handler runs, it treats the shard count in one of these ways.
LEMMA HandleShards ==
    ASSUME TypeOK, Handle
    PROVE  HandledShards
  BY RelationShards, LifecycleShards DEF Handle

(***************************************************************************)
(* The other steps, as far as the shard count is concerned: one that       *)
(* starts a dispatch or goes on with it, and one that happens outside.     *)
(***************************************************************************)
Moves ==
    /\ hook' \in HookType
    /\ UNCHANGED <<config, leader, peerReady, up, bag, plan>>
    /\ IF hook = None
       THEN hook'.bag = bag
       ELSE hook'.unit = hook.unit /\ hook'.bag = hook.bag

Elsewhere ==
    /\ hook = None
    /\ UNCHANGED <<hook, bag>>
    /\ \A u \in Units :
          \/ plan'[u] = plan[u] /\ (up[u] => up'[u])
          \/ plan'[u] = None

\* Every step that neither handles a notice nor ends a dispatch.
LEMMA OtherSteps ==
    ASSUME TypeOK, Next, ~Handle, ~Commit, ~Crash
    PROVE  Moves \/ Elsewhere
<1>1. ASSUME NEW u \in Units, NEW e \in Events, Dispatch(u, e)
      PROVE  Moves
  <2>1. hook' \in HookType
    BY <1>1, DispatchType
  <2> QED
    BY <1>1, <2>1 DEF Dispatch, NewHook, Moves, outside
<1>2. ASSUME NEW u \in Units,
             \/ DispatchPending(u) \/ DispatchRetry(u)
             \/ DispatchUpdateStatus(u) \/ Action(u)
      PROVE  Moves
  <2>1. pending[u] \subseteq Events /\ (failed[u] # None => failed[u] \in Events)
    BY DEF TypeOK, Events
  <2> QED
    BY <1>1, <1>2, <2>1 DEF DispatchPending, DispatchRetry, DispatchUpdateStatus,
       Action, DispatchAction, Events, ActionEvents
<1>3. CASE SkipKept
  <2>1. hook \in HookType /\ hook.todo # << >> /\ Return(hook)
    BY <1>3 DEF SkipKept, TypeOK
  <2>2. hook' \in HookType /\ hook'.unit = hook.unit /\ hook'.bag = hook.bag
    BY <2>1, ReturnType, KeepsShards
  <2> QED
    BY <1>3, <2>2 DEF SkipKept, outside, Moves
<1>4. CASE PeerRelationCreated \/ Environment
  <2>1. hook = None /\ UNCHANGED <<hook, bag, plan, up>>
    BY <1>4 DEF PeerRelationCreated, Environment, SetConfig, OfferDb, RemoveDb,
       RelateAdmin, AdminSetsUpSchema, AdminLosesSchema, RemoveAdmin, RelateUi,
       RemoveUi, OfferStore, RemoveStore, OfferS3, RemoveS3, Publish
  <2> QED
    BY <2>1 DEF Elsewhere
<1>5. ASSUME NEW u \in Units, ChangeLeader(u) \/ ContainerLost(u) \/ ContainerUp(u)
      PROVE  Elsewhere
  BY <1>5 DEF ChangeLeader, ContainerLost, ContainerUp, Elsewhere, TypeOK
<1> QED
  BY <1>2, <1>3, <1>4, <1>5 DEF Next

(***************************************************************************)
(* The count is written once.                                              *)
(***************************************************************************)
\* A dispatch holds another count than the databag only if the databag holds
\* none, and then it is the leader's, and the count is still the option's.
Pinning ==
    hook # None /\ hook.bag.shards # bag.shards =>
        /\ bag.shards = None
        /\ config.shards # None
        /\ hook.bag.shards = config.shards
        /\ leader = hook.unit
        /\ peerReady

\* A handler that goes on leaves a dispatch, not None.
LEMMA HandleGoesOn ==
    ASSUME TypeOK, Handle
    PROVE  /\ hook # None
           /\ UNCHANGED <<config, leader, peerReady, up, bag>>
<1>1. \E n : Current(n)
  BY DEF Handle, RelationStep, OnDatabaseChanged, OnDatabaseBroken,
     OnAdminJoinedOrDatabaseChanged, OnAdminChanged, OnSchemaChanged,
     OnUiJoined, OnOpenfgaStoreCreated, OnOpenfgaBroken,
     OnCreateAuthorizationModel, OnS3CredentialsChanged, OnS3CredentialsGone,
     LifecycleStep, OnInstall, OnPebbleReady, OnConfigChanged,
     OnPeerRelationChanged, OnRestart, OnUpdateStatus
<1> QED
  BY <1>1 DEF Current, Handle, outside

\* Every step keeps Pinning.
LEMMA PinningKept == TypeOK /\ Pinning /\ [Next]_vars => Pinning'
<1> SUFFICES ASSUME TypeOK, Pinning, [Next]_vars PROVE Pinning'
  OBVIOUS
<1>1. CASE Handle
  BY <1>1, HandleShards, HandleGoesOn
     DEF HandledShards, Raised, WentOn, KeptOrPinned, Pinning
<1>2. CASE Commit \/ Crash
  BY <1>2 DEF Commit, Crash, Raise, Pinning
<1>3. CASE Next /\ ~Handle /\ ~Commit /\ ~Crash
  BY <1>3, OtherSteps DEF Moves, Elsewhere, Pinning
<1>4. CASE UNCHANGED vars
  BY <1>4 DEF vars, Pinning
<1> QED
  BY <1>1, <1>2, <1>3, <1>4

\* Once the shard count is in the databag no step changes it, whatever
\* happens to leaders, containers and dispatches.
THEOREM ShardsNeverRewritten == Spec => ShardsWrittenOnce
<1>1. Init => Pinning
  BY DEF Init, Pinning
<1>2. Spec => []Pinning
  BY <1>1, TypeCorrect, PinningKept, PTL DEF Spec
<1>3. TypeOK /\ Pinning /\ [Next]_vars
        => [bag.shards # None => bag'.shards = bag.shards]_vars
  <2> SUFFICES ASSUME TypeOK, Pinning, Next, bag.shards # None
               PROVE  bag'.shards = bag.shards
    OBVIOUS
  <2>1. CASE Handle
    BY <2>1, HandleGoesOn
  <2>2. CASE Commit
    BY <2>2 DEF Commit, Pinning
  <2>3. CASE Crash
    BY <2>3 DEF Crash
  <2>4. CASE ~Handle /\ ~Commit /\ ~Crash
    BY <2>4, OtherSteps DEF Moves, Elsewhere
  <2> QED
    BY <2>1, <2>2, <2>3, <2>4
<1> QED
  BY <1>2, <1>3, TypeCorrect, PTL DEF Spec, ShardsWrittenOnce

(***************************************************************************)
(* The plans agree with the databag, as long as no dispatch dies.          *)
(***************************************************************************)
\* A plan that was given a shard count.
Counted(u) == plan[u] # None /\ plan[u].shards # None

\* Plans live in containers that answer; while a count is being pinned only
\* the unit that pins it may have been planned with one.
PlansFollow ==
    /\ \A u \in Units : plan[u] # None => up[u]
    /\ hook # None /\ hook.bag.shards # bag.shards =>
          \A u \in Units : Counted(u) => u = hook.unit
    /\ PlansAgreeOnShards

\* A handler keeps PlansFollow: it raises only where it has planned nothing
\* with a count that is lost with it.
LEMMA HandlePlans ==
    ASSUME ~Unreachable, TypeOK, Pinning, PlansFollow, Handle
    PROVE  PlansFollow'
<1>1. hook # None /\ UNCHANGED <<config, leader, peerReady, up, bag>>
  BY HandleGoesOn
<1>2. hook \in HookType /\ hook.unit \in Units
  BY <1>1 DEF TypeOK, HookType
<1>3. CASE Raised
  <2>1. CASE hook.bag.shards = bag.shards
    BY <1>1, <1>3, <2>1
       DEF Raised, PlansFollow, PlansAgreeOnShards, CurrentShards, Counted
  <2>2. CASE hook.bag.shards # bag.shards
    <3>1. plan[hook.unit] = None
      BY <1>1, <1>2, <1>3, <2>2 DEF Raised, Pinning, PlansFollow
    <3>2. \A u \in Units : ~Counted(u)
      BY <1>1, <2>2, <3>1 DEF PlansFollow, Counted
    <3> QED
      BY <1>1, <1>3, <3>2
         DEF Raised, PlansFollow, PlansAgreeOnShards, CurrentShards, Counted
  <2> QED
    BY <2>1, <2>2
<1>4. CASE WentOn
  <2>1. hook' # None /\ hook'.unit = hook.unit /\ hook' \in HookType
    BY <1>4, NoneAssumption DEF WentOn
  <2>2. \A u \in Units : u # hook.unit => plan'[u] = plan[u]
    BY <1>4 DEF WentOn, TypeOK
  <2>3. \/ plan'[hook.unit] = plan[hook.unit]
        \/ up[hook.unit] /\ plan'[hook.unit].shards = hook'.bag.shards
    BY <1>2, <1>4 DEF WentOn, TypeOK
  <2>4. \/ hook'.bag.shards = hook.bag.shards
        \/ hook.bag.shards = None /\ bag.shards = None
    BY <1>1, <1>4 DEF WentOn, KeptOrPinned, Pinning
  <2>5. hook.bag.shards # hook'.bag.shards => \A u \in Units : ~Counted(u)
    BY <1>1, <2>4 DEF PlansFollow, PlansAgreeOnShards, CurrentShards, Counted
  <2>6. \A u \in Units : plan'[u] # None => up'[u]
    BY <1>1, <2>2, <2>3 DEF PlansFollow
  <2>7. hook'.bag.shards # bag'.shards =>
          \A u \in Units : Counted(u)' => u = hook'.unit
    <3> SUFFICES ASSUME hook'.bag.shards # bag'.shards, NEW u \in Units,
                        u # hook.unit, Counted(u)
                 PROVE  FALSE
      BY <2>1, <2>2 DEF Counted
    <3>1. hook'.bag.shards = hook.bag.shards
      BY <2>5
    <3> QED
      BY <1>1, <3>1 DEF PlansFollow
  <2>8. PlansAgreeOnShards'
    BY <1>1, <2>1, <2>2, <2>3, <2>5
       DEF PlansFollow, PlansAgreeOnShards, CurrentShards, Counted
  <2> QED
    BY <2>6, <2>7, <2>8 DEF PlansFollow
<1> QED
  BY <1>3, <1>4, HandleShards DEF HandledShards

\* Every step but a crash keeps PlansFollow.
LEMMA PlansFollowKept ==
    ASSUME "crash" \notin Disturbances, "endpoint" \notin Disturbances,
           TypeOK, Pinning, PlansFollow, [Next]_vars
    PROVE  PlansFollow'
<1>1. CASE Handle
  BY <1>1, HandlePlans DEF Unreachable
<1>2. CASE Commit
  BY <1>2 DEF Commit, PlansFollow, PlansAgreeOnShards, CurrentShards, Counted
<1>3. CASE Crash
  BY <1>3 DEF Crash, Disturb
<1>4. CASE Next /\ ~Handle /\ ~Commit /\ ~Crash
  <2>1. CASE Moves
    BY <2>1, NoneAssumption
       DEF Moves, PlansFollow, PlansAgreeOnShards, CurrentShards, Counted
  <2>2. CASE Elsewhere
    BY <2>2 DEF Elsewhere, PlansFollow, PlansAgreeOnShards, CurrentShards, Counted
  <2> QED
    BY <1>4, <2>1, <2>2, OtherSteps
<1>5. CASE UNCHANGED vars
  BY <1>5 DEF vars, PlansFollow, PlansAgreeOnShards, CurrentShards, Counted
<1> QED
  BY <1>1, <1>2, <1>3, <1>4, <1>5

\* If no dispatch dies half way and S3 can be reached, no server is ever
\* started with a shard count that the databag then does not get: leadership
\* changes, lost containers, handlers that raise otherwise and retries included.
THEOREM PlansKeepTheCount ==
    ASSUME "crash" \notin Disturbances, "endpoint" \notin Disturbances
    PROVE  Spec => []PlansAgreeOnShards
<1>1. Init => Pinning /\ PlansFollow
  BY DEF Init, Pinning, PlansFollow, PlansAgreeOnShards, Counted
<1>2. Spec => []Pinning
  BY <1>1, TypeCorrect, PinningKept, PTL DEF Spec
<1>3. TypeOK /\ Pinning /\ PlansFollow /\ [Next]_vars => PlansFollow'
  BY PlansFollowKept
<1>4. PlansFollow => PlansAgreeOnShards
  BY DEF PlansFollow
<1> QED
  BY <1>1, <1>2, <1>3, <1>4, TypeCorrect, PTL DEF Spec

(***************************************************************************)
(* Authorization models.  What one handler does to them: the dispatch      *)
(* ends, or goes on with a model of its store; and if it plans the         *)
(* workload, it does so with such a model.                                 *)
(***************************************************************************)
HandledModel ==
    /\ hook' # None => ModelInStore(hook'.bag.openfga)
    /\ \/ UNCHANGED plan
       \/ \E p : /\ plan' = [plan EXCEPT ![hook.unit] = p]
                 /\ ModelInStore(p.openfga)

\* Pinning the shard count leaves the store alone.
LEMMA PinnedModel ==
    ASSUME NEW h \in HookType
    PROVE  Pinned(h).bag.openfga = h.bag.openfga
  BY DEF Pinned, HookType, StateType

\* So does recording connections.
LEMMA ConnsRecordedModel ==
    ASSUME NEW h \in HookType, config \in ConfigType, remote \in RemoteType
    PROVE  ConnsRecorded(h).bag.openfga = h.bag.openfga
<1>1. \A r \in DBs : ConnOf(r) \in Conn
  BY DEF ConnOf, RemoteType, ConfigType, Conn
<1> DEFINE b == [h.bag EXCEPT !.conn = [r \in DBs |-> IF Readable(r) THEN ConnOf(r) ELSE @[r]]]
           g == [h EXCEPT !.bag = b]
<1>2. b \in StateType /\ b.openfga = h.bag.openfga
  BY <1>1 DEF StateType, Conns, HookType
<1> HIDE DEF b
<1>3. g \in HookType /\ g.bag.openfga = h.bag.openfga
  BY <1>2 DEF HookType
<1>4. DbInfoProvided(g).bag = g.bag
  <2> HIDE DEF g
  <2> QED BY <1>3, PublishedShards
<1> QED
  BY <1>3, <1>4 DEF ConnsRecorded, b

\* A handler that returns or defers with h and plans nothing.
LEMMA ReturnedModel ==
    ASSUME NEW h \in HookType, ModelInStore(h.bag.openfga),
           Return(h) \/ Defer(h), UNCHANGED plan
    PROVE  HandledModel
  BY KeepsShards DEF HandledModel

\* _update on a dispatch whose model is one of its store.
LEMMA UpdateModel ==
    ASSUME TypeOK, NEW h \in HookType, h.unit = hook.unit, h.todo # << >>,
           ModelInStore(h.bag.openfga), NEW s, Update(h, s)
    PROVE  HandledModel
<1> DEFINE p == Pinned(h)
           q == PortsOpened(p)
<1>1. p \in HookType /\ p.unit = h.unit /\ p.todo = h.todo
  BY PinnedType DEF TypeOK
<1>2. ModelInStore(p.bag.openfga)
  BY PinnedModel DEF ModelInStore
<1> HIDE DEF p
<1>3. q \in HookType /\ q.bag = p.bag
  BY <1>1, PortsType, PortsShards DEF TypeOK
<1> HIDE DEF q
<1>4. CASE Raise /\ UNCHANGED plan
  BY <1>4 DEF Raise, HandledModel
<1>5. CASE (Return(p) \/ Defer(q)) /\ UNCHANGED plan
  BY <1>1, <1>2, <1>3, <1>5, ReturnedModel
<1>6. CASE Return(q) /\ plan' = [plan EXCEPT ![h.unit] = PlanOf(p.bag)]
  <2>1. hook'.bag = p.bag
    BY <1>3, <1>6, KeepsShards
  <2>2. ModelInStore(PlanOf(p.bag).openfga)
    BY <1>2 DEF PlanOf, ModelInStore
  <2> QED
    BY <1>2, <1>6, <2>1, <2>2 DEF HandledModel
<1> QED
  BY <1>4, <1>5, <1>6 DEF Update, p, q

\* A handler that puts b into the databag and then updates.
LEMMA BagModel ==
    ASSUME TypeOK, hook \in HookType, hook.todo # << >>,
           NEW b \in StateType, ModelInStore(b.openfga),
           NEW s, Update([hook EXCEPT !.bag = b], s)
    PROVE  HandledModel
<1> DEFINE h == [hook EXCEPT !.bag = b]
<1>1. h \in HookType /\ h.unit = hook.unit /\ h.todo = hook.todo /\ h.bag = b
  BY DEF HookType
<1> HIDE DEF h
<1> QED
  BY <1>1, UpdateModel DEF h

\* A handler that returns early, defers or raises.
LEMMA EarlyModel ==
    ASSUME hook \in HookType, ModelInStore(hook.bag.openfga), Ignore \/ Postpone \/ Fail
    PROVE  HandledModel
  BY ReturnedModel DEF Ignore, Postpone, Fail, Raise, HandledModel

\* What the handlers of the relations do to the model.
LEMMA RelationModel ==
    ASSUME TypeOK, RelationStep, ModelInStore(hook.bag.openfga)
    PROVE  HandledModel
<1>1. /\ hook \in HookType /\ hook.todo # << >>
      /\ hook.bag \in StateType
  <2>1. \E n : Current(n)
    BY DEF RelationStep, OnDatabaseChanged, OnDatabaseBroken,
       OnAdminJoinedOrDatabaseChanged, OnAdminChanged, OnSchemaChanged,
       OnUiJoined, OnOpenfgaStoreCreated, OnOpenfgaBroken,
       OnCreateAuthorizationModel, OnS3CredentialsChanged, OnS3CredentialsGone
  <2> QED
    BY <2>1, CurrentType DEF HookType
<1>2. CASE OnDatabaseChanged
  <2> DEFINE h == ConnsRecorded(hook)
  <2>1. /\ h \in HookType /\ h.unit = hook.unit /\ h.todo = hook.todo
        /\ h.bag.openfga = hook.bag.openfga
    BY <1>1, ConnsRecordedType, ConnsRecordedShards, ConnsRecordedModel DEF TypeOK
  <2> HIDE DEF h
  <2>2. Update(h, "waiting") => HandledModel
    BY <1>1, <2>1, UpdateModel
  <2> QED
    BY <1>1, <1>2, <2>2, EarlyModel DEF OnDatabaseChanged, h
<1>3. CASE OnDatabaseBroken
  <2> DEFINE b == [hook.bag EXCEPT !.conn[Head(hook.todo).arg] = None]
  <2>1. b \in StateType /\ b.openfga = hook.bag.openfga
    BY <1>1 DEF StateType, Conns
  <2>2. [hook EXCEPT !.bag.conn[Head(hook.todo).arg] = None] = [hook EXCEPT !.bag = b]
    BY <1>1 DEF HookType
  <2> HIDE DEF b
  <2> QED
    BY <1>1, <1>3, <2>1, <2>2, BagModel, EarlyModel DEF OnDatabaseBroken
<1>4. CASE OnAdminJoinedOrDatabaseChanged
  <2> DEFINE h == DbInfoProvided(hook)
  <2>1. h \in HookType /\ h.bag = hook.bag
    BY <1>1, DbInfoType, PublishedShards
  <2> HIDE DEF h
  <2> QED
    BY <1>1, <1>4, <2>1, ReturnedModel, EarlyModel DEF OnAdminJoinedOrDatabaseChanged, h
<1>5. CASE OnAdminChanged
  <2>1. CASE Ignore
    BY <1>1, <2>1, EarlyModel
  <2> DEFINE t == <<Notice("schema_changed", remote.admin.schema_status)>> \o Tail(hook.todo)
  <2>2. CASE hook' = [hook EXCEPT !.todo = t] /\ UNCHANGED plan
    <3> HIDE DEF t
    <3>1. hook'.bag = hook.bag
      BY <1>1, <2>2 DEF HookType
    <3> QED
      BY <2>2, <3>1 DEF HandledModel
  <2> QED
    BY <1>5, <2>1, <2>2 DEF OnAdminChanged
<1>6. CASE OnSchemaChanged
  <2> DEFINE b == [hook.bag EXCEPT !.schema_ready = Head(hook.todo).arg = "ready"]
  <2>1. b \in StateType /\ b.openfga = hook.bag.openfga
    BY <1>1 DEF StateType
  <2>2. [hook EXCEPT !.bag.schema_ready = Head(hook.todo).arg = "ready"]
          = [hook EXCEPT !.bag = b]
    BY <1>1 DEF HookType
  <2> HIDE DEF b
  <2>3. CASE Raise /\ UNCHANGED plan
    BY <2>3 DEF Raise, HandledModel
  <2> QED
    BY <1>1, <1>6, <2>1, <2>2, <2>3, BagModel, EarlyModel DEF OnSchemaChanged
<1>7. CASE OnUiJoined
  <2> DEFINE h == ServerStatusProvided(hook, status[hook.unit])
  <2>1. h \in HookType /\ h.bag = hook.bag
    <3>1. status[hook.unit] \in Statuses
      BY <1>1 DEF TypeOK, HookType, Statuses
    <3> QED
      BY <1>1, <3>1, ServerStatusType, PublishedShards
  <2> HIDE DEF h
  <2> QED
    BY <1>1, <1>7, <2>1, ReturnedModel, EarlyModel DEF OnUiJoined, h
<1>8. CASE OnOpenfgaStoreCreated
  <2> DEFINE o == [store |-> remote.openfga.store,
                   complete |-> remote.openfga.complete, model |-> None]
             b == [hook.bag EXCEPT !.openfga = o]
  <2>1. o \in OpenfgaType /\ o.model = None
    BY DEF TypeOK, RemoteType, OpenfgaType
  <2> HIDE DEF o
  <2>2. b \in StateType /\ b.openfga = o
    BY <1>1, <2>1 DEF StateType
  <2>3. [hook EXCEPT !.bag.openfga = o] = [hook EXCEPT !.bag = b]
    BY <1>1 DEF HookType
  <2> HIDE DEF b
  <2>4. ModelInStore(b.openfga)
    BY <2>1, <2>2 DEF ModelInStore
  <2> QED
    BY <1>1, <1>8, <2>2, <2>3, <2>4, BagModel, EarlyModel DEF OnOpenfgaStoreCreated, o
<1>9. CASE OnOpenfgaBroken
  <2> DEFINE b == [hook.bag EXCEPT !.openfga = None]
  <2>1. b \in StateType /\ ModelInStore(b.openfga)
    BY <1>1 DEF StateType, ModelInStore
  <2>2. [hook EXCEPT !.bag.openfga = None] = [hook EXCEPT !.bag = b]
    BY <1>1 DEF HookType
  <2> HIDE DEF b
  <2> QED
    BY <1>1, <1>9, <2>1, <2>2, BagModel, EarlyModel DEF OnOpenfgaBroken
<1>10. CASE OnCreateAuthorizationModel
  <2> DEFINE b == [hook.bag EXCEPT !.openfga.model = hook.bag.openfga.store]
  <2>1. ASSUME hook.bag.openfga # None, Update([hook EXCEPT !.bag = b], status[hook.unit])
        PROVE  HandledModel
    <3>1. hook.bag.openfga \in OpenfgaType
      BY <1>1, <2>1 DEF StateType
    <3>2. b \in StateType /\ ModelInStore(b.openfga)
      BY <1>1, <3>1 DEF StateType, OpenfgaType, ModelInStore
    <3> HIDE DEF b
    <3> QED
      BY <1>1, <2>1, <3>2, BagModel
  <2>2. [hook EXCEPT !.bag.openfga.model = hook.bag.openfga.store]
          = [hook EXCEPT !.bag = b]
    BY <1>1 DEF HookType
  <2> HIDE DEF b
  <2> QED
    BY <1>1, <1>10, <2>1, <2>2, EarlyModel DEF OnCreateAuthorizationModel
<1>11. CASE OnS3CredentialsChanged
  <2> DEFINE o == [cred |-> remote.s3.cred,
                   bucket_created |-> BucketCreated]
             b == [hook.bag EXCEPT !.s3 = o]
  <2>1. o \in S3Type
    BY DEF TypeOK, RemoteType, S3Type, BucketCreated
  <2> HIDE DEF o
  <2>2. b \in StateType /\ b.openfga = hook.bag.openfga
    BY <1>1, <2>1 DEF StateType
  <2>3. [hook EXCEPT !.bag.s3 = o] = [hook EXCEPT !.bag = b]
    BY <1>1 DEF HookType
  <2> HIDE DEF b
  <2> QED
    BY <1>1, <1>11, <2>2, <2>3, BagModel, EarlyModel DEF OnS3CredentialsChanged, o
<1>12. CASE OnS3CredentialsGone
  <2> DEFINE b == [hook.bag EXCEPT !.s3 = None]
  <2>1. b \in StateType /\ b.openfga = hook.bag.openfga
    BY <1>1 DEF StateType
  <2>2. [hook EXCEPT !.bag.s3 = None] = [hook EXCEPT !.bag = b]
    BY <1>1 DEF HookType
  <2> HIDE DEF b
  <2> QED
    BY <1>1, <1>12, <2>1, <2>2, BagModel, EarlyModel DEF OnS3CredentialsGone
<1> QED
  BY <1>2, <1>3, <1>4, <1>5, <1>6, <1>7, <1>8, <1>9, <1>10, <1>11, <1>12
     DEF RelationStep

\* What the charm's own handlers do to the model.
LEMMA LifecycleModel ==
    ASSUME TypeOK, LifecycleStep, ModelInStore(hook.bag.openfga)
    PROVE  HandledModel
<1>1. hook \in HookType /\ hook.todo # << >>
  <2>1. \E n : Current(n)
    BY DEF LifecycleStep, OnInstall, OnPebbleReady, OnConfigChanged,
       OnPeerRelationChanged, OnRestart, OnUpdateStatus
  <2> QED
    BY <2>1, CurrentType
<1>2. Return(hook) /\ UNCHANGED plan => HandledModel
  BY <1>1, ReturnedModel
<1>3. \A s : Update(hook, s) => HandledModel
  BY <1>1, UpdateModel
<1>4. CASE OnInstall \/ OnPebbleReady \/ OnConfigChanged \/ OnPeerRelationChanged
  BY <1>1, <1>2, <1>3, <1>4, EarlyModel
     DEF OnInstall, OnPebbleReady, OnConfigChanged, OnPeerRelationChanged
<1>5. CASE OnRestart
  BY <1>2, <1>5 DEF OnRestart, Raise, HandledModel
<1>6. CASE OnUpdateStatus
  <2> DEFINE v == Pinned(hook)
             w == ConnsRecorded(v)
             h == IF IsLeader THEN w ELSE v
             g == ServerStatusProvided(h, "active")
  <2>1. /\ v \in HookType /\ v.unit = hook.unit /\ v.todo = hook.todo
        /\ v.bag.openfga = hook.bag.openfga
    BY <1>1, PinnedType, PinnedModel DEF TypeOK
  <2> HIDE DEF v
  <2>2. /\ w \in HookType /\ w.unit = hook.unit /\ w.todo = hook.todo
        /\ w.bag.openfga = v.bag.openfga
    BY <2>1, ConnsRecordedType, ConnsRecordedShards, ConnsRecordedModel DEF TypeOK
  <2> HIDE DEF w
  <2>3. /\ h \in HookType /\ h.unit = hook.unit /\ h.todo = hook.todo
        /\ h.bag.openfga = v.bag.openfga
    BY <2>1, <2>2
  <2> HIDE DEF h
  <2>4. g \in HookType /\ g.bag = h.bag
    BY <2>3, ServerStatusType, PublishedShards
  <2> HIDE DEF g
  <2>5. CASE Fail
    BY <1>1, <2>5, EarlyModel
  <2>6. CASE Return(v) /\ UNCHANGED <<status, plan>>
    BY <2>1, <2>6, ReturnedModel
  <2>7. CASE Update(h, status[hook.unit])
    BY <1>1, <2>1, <2>3, <2>7, UpdateModel
  <2>8. CASE UNCHANGED plan /\ \E healthy \in BOOLEAN : CheckUp(h, healthy)
    <3>1. Return(h) \/ Return(g)
      BY <2>8 DEF CheckUp, g
    <3> QED
      BY <2>1, <2>3, <2>4, <2>8, <3>1, ReturnedModel
  <2> QED
    BY <1>6, <2>5, <2>6, <2>7, <2>8 DEF OnUpdateStatus, h, w, v
<1> QED
  BY <1>4, <1>5, <1>6 DEF LifecycleStep

\* The dispatch in progress holds no model of another store either.
ModelInv == ModelBelongsToStore /\ (hook # None => ModelInStore(hook.bag.openfga))

\* Every step keeps it.
LEMMA ModelInvKept == TypeOK /\ ModelInv /\ [Next]_vars => ModelInv'
<1> SUFFICES ASSUME TypeOK, ModelInv, [Next]_vars PROVE ModelInv'
  OBVIOUS
<1> USE DEF ModelInv, ModelBelongsToStore
<1>1. CASE Handle
  <2>1. HandledModel /\ bag' = bag
    BY <1>1, HandleGoesOn, RelationModel, LifecycleModel DEF Handle
  <2>2. \A u \in Units : plan'[u] # None => ModelInStore(plan'[u].openfga)
    BY <2>1 DEF HandledModel, TypeOK
  <2> QED
    BY <2>1, <2>2 DEF HandledModel, ModelInStore
<1>2. CASE Commit \/ Crash
  BY <1>2 DEF Commit, Crash, Raise, ModelInStore
<1>3. CASE Next /\ ~Handle /\ ~Commit /\ ~Crash
  BY <1>3, OtherSteps DEF Moves, Elsewhere, ModelInStore
<1>4. CASE UNCHANGED vars
  BY <1>4 DEF vars, ModelInStore
<1> QED
  BY <1>1, <1>2, <1>3, <1>4

\* A model is used only with the store it was created in, whatever happens to
\* stores, leaders and dispatches.
THEOREM ModelAlwaysInStore == Spec => []ModelBelongsToStore
<1>1. Init => ModelInv
  BY DEF Init, FreshState, ModelInv, ModelBelongsToStore, ModelInStore
<1>2. Spec => []ModelInv
  BY <1>1, TypeCorrect, ModelInvKept, PTL DEF Spec
<1>3. ModelInv => ModelBelongsToStore
  BY DEF ModelInv
<1> QED
  BY <1>2, <1>3, PTL

(***************************************************************************)
(* The charm implements ShardRegister, as long as no dispatch dies half    *)
(* way.                                                                    *)
(***************************************************************************)
\* The count a server runs with, seen through the plan of its unit.
LEMMA PlannedType ==
    ASSUME TypeOK
    PROVE  /\ PlannedShards \in [Units -> Shards \cup {None}]
           /\ \A u \in Units : PlannedShards[u] # None <=> Counted(u)
           /\ \A u \in Units : Counted(u) => PlannedShards[u] = plan[u].shards
  BY DEF TypeOK, PlannedShards, PlanType, Counted

\* What steps that are no handler's do to the plans: a container that is lost
\* takes its own with it.
LEMMA OutsidePlans ==
    ASSUME TypeOK, Next, ~Handle
    PROVE  UNCHANGED plan \/ \E u \in Units : plan' = [plan EXCEPT ![u] = None]
<1>1. ASSUME NEW u \in Units, NEW e, Dispatch(u, e)
      PROVE  UNCHANGED plan
  BY <1>1 DEF Dispatch
<1>2. ASSUME NEW u \in Units,
             \/ DispatchPending(u) \/ DispatchRetry(u)
             \/ DispatchUpdateStatus(u) \/ Action(u)
      PROVE  UNCHANGED plan
  BY <1>1, <1>2 DEF DispatchPending, DispatchRetry, DispatchUpdateStatus,
     Action, DispatchAction
<1>3. CASE SkipKept \/ Commit \/ Crash
  BY <1>3 DEF SkipKept, Commit, Crash
<1>4. CASE PeerRelationCreated \/ Environment
  BY <1>4 DEF PeerRelationCreated, Environment, SetConfig, OfferDb, RemoveDb,
     RelateAdmin, AdminSetsUpSchema, AdminLosesSchema, RemoveAdmin, RelateUi,
     RemoveUi, OfferStore, RemoveStore, OfferS3, RemoveS3, Publish
<1>5. ASSUME NEW u \in Units, ChangeLeader(u) \/ ContainerUp(u)
      PROVE  UNCHANGED plan
  BY <1>5 DEF ChangeLeader, ContainerUp
<1>6. ASSUME NEW u \in Units, ContainerLost(u)
      PROVE  plan' = [plan EXCEPT ![u] = None]
  BY <1>6 DEF ContainerLost
<1> QED
  BY <1>2, <1>3, <1>4, <1>5, <1>6 DEF Next

\* A plan that stays leaves every server alone, one that goes stops its own.
LEMMA StopsOne ==
    ASSUME TypeOK, bag'.shards = bag.shards,
           UNCHANGED plan \/ \E u \in Units : plan' = [plan EXCEPT ![u] = None]
    PROVE  [Register!Next]_(Register!vars)
<1>1. CASE UNCHANGED plan
  BY <1>1 DEF Register!vars, PlannedShards
<1>2. ASSUME NEW u \in Units, plan' = [plan EXCEPT ![u] = None]
      PROVE  Register!Stop(u)
  <2>1. PlannedShards' = [PlannedShards EXCEPT ![u] = None]
    BY <1>2 DEF PlannedShards, TypeOK
  <2> QED
    BY <2>1 DEF Register!Stop
<1> QED
  BY <1>1, <1>2 DEF Register!Next

\* A server that a handler plans gets the count of the dispatch, which no
\* other server and no databag contradicts.
LEMMA HandlerStarts ==
    ASSUME TypeOK, TypeOK', Pinning, PlansFollow, PlansFollow', Pinning', Handle
    PROVE  [Register!Next]_(Register!vars)
<1>1. hook # None /\ UNCHANGED bag
  BY HandleGoesOn
<1>2. hook \in HookType /\ hook.unit \in Units
  BY <1>1 DEF TypeOK, HookType
<1> DEFINE v == hook.unit
           c == hook'.bag.shards
<1>3. CASE UNCHANGED plan
  BY <1>1, <1>3, StopsOne
<1>4. CASE ~UNCHANGED plan
  <2>1. PICK p : plan' = [plan EXCEPT ![v] = p] /\ p.shards = c
    BY <1>4, HandleShards DEF HandledShards, Raised, WentOn
  <2>2. hook' # None /\ hook' \in HookType /\ hook'.unit = v
    BY <1>4, HandleShards, NoneAssumption DEF HandledShards, Raised, WentOn
  <2>3. plan'[v] = p /\ \A u \in Units : u # v => plan'[u] = plan[u]
    BY <1>2, <2>1 DEF TypeOK
  <2>4. c \in Shards \cup {None}
    BY <2>2 DEF HookType, StateType
  <2>5. PlannedShards' = [PlannedShards EXCEPT ![v] = IF p = None THEN None ELSE c]
    BY <1>2, <2>1, <2>3 DEF PlannedShards, TypeOK
  <2>6. CASE p = None \/ c = None
    <3>1. Register!Stop(v)
      BY <1>1, <2>5, <2>6 DEF Register!Stop
    <3> QED
      BY <1>2, <3>1 DEF Register!Next
  <2>7. CASE p # None /\ c # None
    <3>1. bag.shards \in {None, c}
      BY <1>1, <2>2 DEF Pinning
    <3>2. \A u \in Units : PlannedShards'[u] \in {None, c}
      BY <2>2, PlannedType DEF PlansFollow, PlansAgreeOnShards, CurrentShards, Counted, PlannedShards
    <3>3. \A u \in Units : u # v => PlannedShards[u] \in {None, c}
      BY <2>3, <3>2 DEF PlannedShards
    <3>4. PlannedShards[v] \in {None, c}
      <4>1. CASE ~Counted(v)
        BY <1>2, <4>1, PlannedType
      <4>2. CASE Counted(v)
        <5>1. PlannedShards[v] = hook.bag.shards /\ hook.bag.shards # None
          BY <1>1, <1>2, <4>2, PlannedType DEF PlansFollow, PlansAgreeOnShards, CurrentShards, Counted
        <5>2. c = hook.bag.shards
          BY <1>4, <5>1, HandleShards DEF HandledShards, Raised, WentOn, KeptOrPinned
        <5> QED
          BY <5>1, <5>2
      <4> QED
        BY <4>1, <4>2
    <3>5. Register!Agreed(c)
      BY <3>1, <3>3, <3>4 DEF Register!Agreed
    <3>6. c \in Shards
      BY <2>4, <2>7
    <3>7. Register!Start(v)
      BY <1>1, <2>5, <2>7, <3>5, <3>6 DEF Register!Start
    <3> QED
      BY <1>2, <3>7 DEF Register!Next
  <2> QED
    BY <2>6, <2>7
<1> QED
  BY <1>3, <1>4

\* A dispatch that ends writes the count it pinned, which the only server
\* that may have one has.
LEMMA CommitWrites ==
    ASSUME TypeOK, Pinning, PlansFollow, Commit
    PROVE  [Register!Next]_(Register!vars)
<1>1. hook # None /\ bag' = hook.bag /\ UNCHANGED plan
  BY DEF Commit
<1>2. hook \in HookType /\ hook.bag \in StateType
  BY <1>1 DEF TypeOK, HookType
<1>3. CASE hook.bag.shards = bag.shards
  BY <1>1, <1>3, StopsOne
<1>4. CASE hook.bag.shards # bag.shards
  <2> DEFINE c == hook.bag.shards
  <2>1. bag.shards = None /\ c # None /\ c \in Shards
    BY <1>1, <1>2, <1>4 DEF Pinning, StateType
  <2>2. \A u \in Units : PlannedShards[u] \in {None, c}
    BY <1>1, PlannedType DEF PlansFollow, PlansAgreeOnShards, CurrentShards, Counted
  <2>3. Register!Agreed(c)
    BY <2>1, <2>2 DEF Register!Agreed
  <2>4. UNCHANGED PlannedShards
    BY <1>1 DEF PlannedShards
  <2> QED
    BY <1>1, <2>1, <2>3, <2>4 DEF Register!Write, Register!Next
<1> QED
  BY <1>3, <1>4

\* Every step but a crash is one the register allows, or leaves it alone.
LEMMA StepsRefine ==
    ASSUME "crash" \notin Disturbances, "endpoint" \notin Disturbances,
           TypeOK, TypeOK', Pinning, Pinning', PlansFollow, PlansFollow', [Next]_vars
    PROVE  [Register!Next]_(Register!vars)
<1>1. CASE Handle
  BY <1>1, HandlerStarts
<1>2. CASE Commit
  BY <1>2, CommitWrites
<1>3. CASE Crash
  BY <1>3 DEF Crash, Disturb
<1>4. CASE Next /\ ~Handle /\ ~Commit /\ ~Crash
  <2>1. bag' = bag
    BY <1>4, OtherSteps DEF Moves, Elsewhere
  <2> QED
    BY <1>4, <2>1, OutsidePlans, StopsOne
<1>5. CASE UNCHANGED vars
  BY <1>5, StopsOne DEF vars
<1> QED
  BY <1>1, <1>2, <1>3, <1>4, <1>5

\* If no dispatch dies half way and S3 can be reached, databag and servers
\* behave like the register: it is written once, and no server ever runs with
\* another count.
THEOREM CharmIsRegister ==
    ASSUME "crash" \notin Disturbances, "endpoint" \notin Disturbances
    PROVE  Spec => ImplementsRegister
<1>1. Init => Pinning /\ PlansFollow
  BY DEF Init, Pinning, PlansFollow, PlansAgreeOnShards, Counted
<1>2. Init => Register!Init
  BY DEF Init, FreshState, Register!Init, PlannedShards
<1>3. Spec => []Pinning
  BY <1>1, TypeCorrect, PinningKept, PTL DEF Spec
<1>4. TypeOK /\ Pinning /\ PlansFollow /\ [Next]_vars => PlansFollow'
  BY PlansFollowKept
<1>5. Spec => []PlansFollow
  BY <1>1, <1>3, <1>4, TypeCorrect, PTL DEF Spec
<1>6. /\ TypeOK /\ TypeOK' /\ Pinning /\ Pinning' /\ PlansFollow /\ PlansFollow'
      /\ [Next]_vars
      => [Register!Next]_(Register!vars)
  BY StepsRefine
<1> QED
  BY <1>2, <1>3, <1>5, <1>6, TypeCorrect, PTL DEF Spec, ImplementsRegister, Register!Spec
=============================================================================
