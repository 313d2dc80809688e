---------------------------- MODULE RecoveryProofs ----------------------------
(***************************************************************************)
(* What holds of the charm from a moment on at which all is well, for any  *)
(* units, configurations and offers: no handler raises any more, and the   *)
(* databag follows the admin charm, the OpenFGA server and the S3          *)
(* integrator, over containers that stay and dispatches that may die.      *)
(***************************************************************************)
EXTENDS ConvergenceProofs

(***************************************************************************)
(* What one handler does to its queues and to the parts of the databag.    *)
(***************************************************************************)
\* Two databags that hold the same, the shard count apart.
Alike(a, b) ==
    /\ a.conn = b.conn
    /\ a.schema_ready = b.schema_ready
    /\ a.openfga = b.openfga
    /\ a.s3 = b.s3

\* A handler that has buffered databag b goes on to the next notice, or defers its
\* own: only without a peer relation or a container that answers, and never
\* that of an action.
Leaves(b) ==
    /\ hook'.todo = Tail(hook.todo)
    /\ \/ hook'.kept = hook.kept
       \/ /\ hook'.kept = Append(hook.kept, Head(hook.todo))
          /\ ~(peerReady /\ up[hook.unit])
          /\ ~IsAction(Head(hook.todo))
    /\ Alike(hook'.bag, b)

\* Pinning the shard count changes nothing else.
LEMMA PinnedAlike ==
    ASSUME NEW h \in HookType
    PROVE  Alike(Pinned(h).bag, h.bag)
<1> DEFINE b == [h.bag EXCEPT !.shards = config.shards]
<1>1. [h EXCEPT !.bag.shards = config.shards].bag = b
  BY DEF HookType
<1>2. Alike(b, h.bag) /\ Alike(h.bag, h.bag)
  BY DEF HookType, StateType, Alike
<1> QED
  BY <1>1, <1>2 DEF Pinned

\* A handler that returns.
LEMMA ReturnEnds ==
    ASSUME hook \in HookType, NEW h, Same(hook, h), Return(h)
    PROVE  Leaves(h.bag)
  BY DEF Return, Same, Leaves, Alike, HookType

\* A handler that waits for the peer relation.
LEMMA PostponeEnds ==
    ASSUME hook \in HookType, Postpone, ~peerReady, ~IsAction(Head(hook.todo))
    PROVE  Leaves(hook.bag)
  BY DEF Postpone, Defer, Leaves, Alike, HookType

\* A handler that ends in _update.
LEMMA UpdateEnds ==
    ASSUME TypeOK, hook \in HookType, hook.todo # << >>,
           NEW h, Same(hook, h), NEW s, Update(h, s), hook' # None
    PROVE  Leaves(h.bag)
<1> DEFINE p == Pinned(h)
           q == PortsOpened(p)
<1>1. Same(h, p) /\ Alike(p.bag, h.bag) /\ h \in HookType
  BY PinnedFacts, PinnedAlike DEF Same, TypeOK
<1> HIDE DEF p
<1>2. Same(p, q) /\ q.bag = p.bag
  BY <1>1, PortsFacts DEF Same, TypeOK
<1> HIDE DEF q
<1>3. Same(hook, p) /\ Same(hook, q) /\ Alike(q.bag, h.bag)
  BY <1>1, <1>2 DEF Same, Alike
<1>4. CASE Return(p) \/ Return(q)
  <2>1. Leaves(p.bag) \/ Leaves(q.bag)
    BY <1>3, <1>4, ReturnEnds
  <2> QED
    BY <1>1, <1>3, <2>1 DEF Leaves, Alike
<1>5. CASE ~up[h.unit] /\ ~IsAction(Head(h.todo)) /\ Defer(q)
  <2>1. /\ hook'.todo = Tail(hook.todo)
        /\ hook'.kept = Append(hook.kept, Head(hook.todo))
        /\ hook'.bag = q.bag
    BY <1>3, <1>5 DEF Defer, Same, HookType
  <2> QED
    BY <1>1, <1>3, <1>5, <2>1 DEF Leaves, Same
<1> QED
  BY <1>4, <1>5 DEF Update, Raise, p, q

\* A handler that changes the databag and ends in _update.
LEMMA BagEnds ==
    ASSUME TypeOK, hook \in HookType, hook.todo # << >>,
           NEW b \in StateType, NEW s, Update([hook EXCEPT !.bag = b], s), hook' # None
    PROVE  Leaves(b)
<1> DEFINE h == [hook EXCEPT !.bag = b]
<1>1. Same(hook, h) /\ h.bag = b
  BY DEF HookType, Same
<1> HIDE DEF h
<1> QED
  BY <1>1, UpdateEnds DEF h

(***************************************************************************)
(* The OpenFGA server and the S3 integrator: what they announced last.     *)
(***************************************************************************)
Feeds == {"openfga", "s3"}

FeedChanged == [openfga |-> "openfga_changed", s3 |-> "s3_changed"]
FeedBroken  == [openfga |-> "openfga_broken", s3 |-> "s3_broken"]

Feeding(f) == IF f = "openfga" THEN remote.openfga.alive ELSE remote.s3.alive

\* A databag holds the store.
StoreKnown(b) ==
    IF remote.openfga.alive
    THEN b.openfga # None /\ b.openfga.store = remote.openfga.store
    ELSE b.openfga = None

\* A databag holds the bucket's parameters.
BucketKnown(b) ==
    /\ remote.s3.alive /\ remote.s3.bucket # "missing" =>
          /\ b.s3 # None
          /\ b.s3.cred = remote.s3.cred
          /\ b.s3.bucket_created <=> remote.s3.bucket = "created"
    /\ ~remote.s3.alive => b.s3 = None

Fed(f, b) == IF f = "openfga" THEN StoreKnown(b) ELSE BucketKnown(b)

\* What a handler leaves of it: right if the handler is that of the news,
\* as it was otherwise, unless the news is not that of the relation.
FeedHandled(f) ==
    /\ Handling = FeedChanged[f] /\ Leading /\ Feeding(f) => Fed(f, hook'.bag)
    /\ Handling = FeedBroken[f] /\ Leading /\ peerReady /\ ~Feeding(f) => Fed(f, hook'.bag)
    /\ Fed(f, hook.bag) =>
          \/ Fed(f, hook'.bag)
          \/ Handling = FeedBroken[f] /\ Feeding(f)
          \/ /\ Handling = FeedChanged[f] /\ ~Feeding(f)
             /\ FeedBroken[f] \in pending[hook.unit] /\ hook.event # FeedBroken[f]

SchemaHandled ==
    hook'.bag.schema_ready =
        IF Handling = "schema_changed" /\ peerReady
        THEN Head(hook.todo).arg = "ready" ELSE hook.bag.schema_ready

\* The notice the leader's handler of the admin charm's change adds.
SchemaNotice == Notice("schema_changed", remote.admin.schema_status)

QueuesHandled ==
    /\ \/ hook'.kept = hook.kept
       \/ /\ hook'.kept = Append(hook.kept, Head(hook.todo))
          /\ ~(peerReady /\ up[hook.unit])
          /\ ~IsAction(Head(hook.todo))
    /\ hook'.todo = IF Handling = "admin_changed" /\ Leading
                    THEN <<SchemaNotice>> \o Tail(hook.todo) ELSE Tail(hook.todo)

\* Connections that are not recorded by one of the two handlers that do.
ConnsHandled ==
    Handling \notin {"database_changed", "update_status"} =>
        \A r \in DBs : hook'.bag.conn[r] \in {None, hook.bag.conn[r]}

\* An OpenFGA server that is there has given its store.
NoStoreless == remote.openfga.alive => remote.openfga.store # None

DataHandled ==
    /\ QueuesHandled
    /\ SchemaHandled
    /\ NoStoreless => \A f \in Feeds : FeedHandled(f)
    /\ ConnsHandled

\* The handlers of neither, and of no schema either.
FeedEvents == {"openfga_changed", "openfga_broken", "s3_changed", "s3_broken"}

\* A databag decides what is known by its two records.
LEMMA FedStays ==
    ASSUME NEW a, NEW b, a.openfga = b.openfga, a.s3 = b.s3
    PROVE  \A f \in Feeds : Fed(f, a) <=> Fed(f, b)
  BY DEF Fed, StoreKnown, BucketKnown

\* The names of the events.
LEMMA FeedNames ==
    /\ FeedChanged["openfga"] = "openfga_changed" /\ FeedBroken["openfga"] = "openfga_broken"
    /\ FeedChanged["s3"] = "s3_changed" /\ FeedBroken["s3"] = "s3_broken"
    /\ \A f \in Feeds : FeedChanged[f] \in FeedEvents /\ FeedBroken[f] \in FeedEvents
  BY DEF FeedChanged, FeedBroken, Feeds, FeedEvents

\* A handler of something else.
LEMMA OtherData ==
    ASSUME NEW b, Leaves(b), Handling \notin FeedEvents \cup {"schema_changed", "admin_changed"},
           b.schema_ready = hook.bag.schema_ready, b.openfga = hook.bag.openfga,
           b.s3 = hook.bag.s3,
           \/ Handling \in {"database_changed", "update_status"}
           \/ \A r \in DBs : b.conn[r] \in {None, hook.bag.conn[r]}
    PROVE  DataHandled
<1>1. \A f \in Feeds : Fed(f, hook'.bag) <=> Fed(f, hook.bag)
  BY FedStays DEF Leaves, Alike
<1>2. \A f \in Feeds : FeedHandled(f)
  BY <1>1, FeedNames DEF FeedHandled
<1>3. QueuesHandled /\ SchemaHandled /\ ConnsHandled
  BY DEF Leaves, Alike, QueuesHandled, SchemaHandled, ConnsHandled
<1> QED
  BY <1>2, <1>3 DEF DataHandled

\* A handler that leaves the dispatch as it is.
LEMMA EarlyData ==
    ASSUME hook \in HookType,
           Ignore \/ (Postpone /\ ~peerReady /\ ~IsAction(Head(hook.todo)))
    PROVE  Leaves(hook.bag)
<1>1. Same(hook, hook)
  BY DEF Same
<1> QED
  BY <1>1, ReturnEnds, PostponeEnds DEF Ignore

\* What the handlers of the two databases do.
LEMMA DatabaseData ==
    ASSUME TypeOK, OnDatabaseChanged \/ OnDatabaseBroken, hook' # None
    PROVE  DataHandled
<1>1. /\ hook \in HookType /\ hook.todo # << >>
      /\ Head(hook.todo) \in NoticeType
      /\ hook.bag \in StateType
      /\ \A n : Current(n) => Handling = n
  BY CurrentType DEF HookType, Current, Handling, OnDatabaseChanged, OnDatabaseBroken
<1>2. Handling \in {"database_changed", "database_broken"} /\ ~IsAction(Head(hook.todo))
  BY <1>1 DEF OnDatabaseChanged, OnDatabaseBroken, IsAction, ActionEvents, Handling
<1>3. Handling \notin FeedEvents \cup {"schema_changed", "admin_changed"}
  BY <1>2 DEF FeedEvents
<1>4. CASE Ignore \/ (~peerReady /\ Postpone)
  BY <1>1, <1>2, <1>3, <1>4, EarlyData, OtherData
<1>5. CASE OnDatabaseChanged /\ ~(Ignore \/ (~peerReady /\ Postpone))
  <2> DEFINE h == ConnsRecorded(hook)
  <2>1. /\ Same(hook, h)
        /\ h.bag = [hook.bag EXCEPT !.conn = [r \in DBs |-> IF Readable(r) THEN ConnOf(r) ELSE @[r]]]
    BY <1>1, ConnsFacts DEF TypeOK
  <2>2. /\ h.bag.schema_ready = hook.bag.schema_ready
        /\ h.bag.openfga = hook.bag.openfga /\ h.bag.s3 = hook.bag.s3
    BY <1>1, <2>1 DEF StateType
  <2>3. Update(h, "waiting") /\ Handling = "database_changed"
    BY <1>1, <1>5 DEF OnDatabaseChanged
  <2> HIDE DEF h
  <2>4. Leaves(h.bag)
    BY <1>1, <2>1, <2>3, UpdateEnds
  <2> QED
    BY <1>3, <2>2, <2>3, <2>4, OtherData
<1>6. CASE OnDatabaseBroken /\ ~(Ignore \/ (~peerReady /\ Postpone))
  <2> DEFINE b == [hook.bag EXCEPT !.conn[Head(hook.todo).arg] = None]
  <2>1. b \in StateType /\ Alike([b EXCEPT !.conn = hook.bag.conn], hook.bag)
    BY <1>1 DEF StateType, Conns, Alike
  <2>2. [hook EXCEPT !.bag.conn[Head(hook.todo).arg] = None] = [hook EXCEPT !.bag = b]
    BY <1>1 DEF HookType
  <2>3. \A r \in DBs : b.conn[r] \in {None, hook.bag.conn[r]}
    <3>1. b.conn = [hook.bag.conn EXCEPT ![Head(hook.todo).arg] = None]
      BY <1>1 DEF StateType
    <3>2. hook.bag.conn \in [DBs -> Conn \cup {None}]
      BY <1>1 DEF StateType, Conns
    <3> HIDE DEF b
    <3> QED
      BY <3>1, <3>2
  <2>4. /\ b.schema_ready = hook.bag.schema_ready
        /\ b.openfga = hook.bag.openfga /\ b.s3 = hook.bag.s3
    BY <1>1 DEF StateType
  <2> HIDE DEF b
  <2>5. Leaves(b)
    BY <1>1, <1>6, <2>1, <2>2, BagEnds DEF OnDatabaseBroken
  <2> QED
    BY <1>3, <2>3, <2>4, <2>5, OtherData
<1> QED
  BY <1>4, <1>5, <1>6

\* What the handlers of the admin and UI charms do.
LEMMA AdminData ==
    ASSUME TypeOK, OnAdminJoinedOrDatabaseChanged \/ OnUiJoined \/ OnAdminChanged \/ OnSchemaChanged,
           hook' # None
    PROVE  DataHandled
<1>1. /\ hook \in HookType /\ hook.todo # << >>
      /\ Head(hook.todo) \in NoticeType
      /\ hook.bag \in StateType
      /\ \A n : Current(n) => Handling = n
  BY CurrentType DEF HookType, Current, Handling, OnAdminJoinedOrDatabaseChanged, OnUiJoined,
     OnAdminChanged, OnSchemaChanged
<1>2. CASE OnAdminJoinedOrDatabaseChanged \/ OnUiJoined
  <2>1. Handling \in {"admin_joined", "admin_database_changed", "ui_joined"}
    BY <1>1, <1>2 DEF OnAdminJoinedOrDatabaseChanged, OnUiJoined
  <2>2. /\ Handling \notin FeedEvents \cup {"schema_changed", "admin_changed"}
        /\ ~IsAction(Head(hook.todo))
    BY <2>1 DEF FeedEvents, IsAction, ActionEvents, Handling
  <2> DEFINE h == DbInfoProvided(hook)
             g == ServerStatusProvided(hook, status[hook.unit])
  <2>3. /\ Same(hook, h) /\ h.bag = hook.bag
        /\ Same(hook, g) /\ g.bag = hook.bag
    BY <1>1, DbInfoFacts, ServerStatusFacts
  <2> HIDE DEF h, g
  <2>4. Return(h) \/ Return(g) => Leaves(hook.bag)
    BY <1>1, <2>3, ReturnEnds
  <2>5. Leaves(hook.bag)
    BY <1>1, <1>2, <2>2, <2>4, EarlyData DEF OnAdminJoinedOrDatabaseChanged, OnUiJoined, h, g
  <2> QED
    BY <2>2, <2>5, OtherData
<1>3. CASE OnAdminChanged /\ ~Leading
  <2>1. Leaves(hook.bag) /\ Handling = "admin_changed"
    BY <1>1, <1>3, EarlyData DEF OnAdminChanged, IsLeader, Leading
  <2>2. \A f \in Feeds : Fed(f, hook'.bag) <=> Fed(f, hook.bag)
    BY <2>1, FedStays DEF Leaves, Alike
  <2>3. \A f \in Feeds : FeedHandled(f)
    BY <2>1, <2>2, FeedNames DEF FeedHandled, FeedEvents
  <2> QED
    BY <1>3, <2>1, <2>3
       DEF DataHandled, Leaves, Alike, QueuesHandled, SchemaHandled, ConnsHandled
<1>4. CASE OnAdminChanged /\ Leading
  <2> DEFINE t == <<SchemaNotice>> \o Tail(hook.todo)
  <2>1. hook' = [hook EXCEPT !.todo = t] /\ Handling = "admin_changed"
    BY <1>1, <1>4 DEF OnAdminChanged, IsLeader, Leading, SchemaNotice
  <2> HIDE DEF t
  <2>2. hook'.todo = t /\ hook'.kept = hook.kept /\ hook'.bag = hook.bag
    BY <1>1, <2>1 DEF HookType
  <2>3. \A f \in Feeds : FeedHandled(f)
    BY <2>1, <2>2, FeedNames DEF FeedHandled, FeedEvents
  <2> QED
    BY <1>4, <2>1, <2>2, <2>3
       DEF DataHandled, QueuesHandled, SchemaHandled, ConnsHandled, t
<1>5. CASE OnSchemaChanged
  <2> DEFINE b == [hook.bag EXCEPT !.schema_ready = Head(hook.todo).arg = "ready"]
  <2>1. /\ b \in StateType /\ b.conn = hook.bag.conn
        /\ b.openfga = hook.bag.openfga /\ b.s3 = hook.bag.s3
        /\ b.schema_ready = (Head(hook.todo).arg = "ready")
    BY <1>1 DEF StateType
  <2>2. [hook EXCEPT !.bag.schema_ready = Head(hook.todo).arg = "ready"]
          = [hook EXCEPT !.bag = b]
    BY <1>1 DEF HookType
  <2> HIDE DEF b
  <2>3. Handling = "schema_changed" /\ ~IsAction(Head(hook.todo))
    BY <1>1, <1>5 DEF OnSchemaChanged, IsAction, ActionEvents, Handling
  <2>4. IF peerReady THEN Leaves(b) ELSE Leaves(hook.bag)
    BY <1>1, <1>5, <2>1, <2>2, <2>3, BagEnds, EarlyData DEF OnSchemaChanged, Raise
  <2>5. /\ hook'.bag.openfga = hook.bag.openfga /\ hook'.bag.s3 = hook.bag.s3
        /\ hook'.bag.conn = hook.bag.conn
        /\ SchemaHandled /\ QueuesHandled
    BY <2>1, <2>3, <2>4 DEF Leaves, Alike, SchemaHandled, QueuesHandled
  <2>6. \A f \in Feeds : FeedHandled(f)
    BY <2>3, <2>5, FedStays, FeedNames DEF FeedHandled, FeedEvents
  <2> QED
    BY <2>5, <2>6 DEF DataHandled, ConnsHandled
<1> QED
  BY <1>2, <1>3, <1>4, <1>5

\* The handlers of one feed leave what is known from the other.
LEMMA OneFeed ==
    ASSUME NEW b, Leaves(b), b.conn = hook.bag.conn, b.schema_ready = hook.bag.schema_ready,
           NEW f \in Feeds, Handling \in {FeedChanged[f], FeedBroken[f]},
           \A g \in Feeds : g # f => (Fed(g, b) <=> Fed(g, hook.bag)),
           NoStoreless /\ Handling = FeedChanged[f] /\ Leading /\ Feeding(f) => Fed(f, b),
           Handling = FeedBroken[f] /\ Leading /\ peerReady /\ ~Feeding(f) => Fed(f, b),
           Fed(f, hook.bag) =>
              \/ Fed(f, b)
              \/ Handling = FeedBroken[f] /\ Feeding(f)
              \/ /\ Handling = FeedChanged[f] /\ ~Feeding(f)
                 /\ FeedBroken[f] \in pending[hook.unit] /\ hook.event # FeedBroken[f]
    PROVE  DataHandled
<1>1. \A g \in Feeds : Fed(g, hook'.bag) <=> Fed(g, b)
  BY FedStays DEF Leaves, Alike
<1>2. Handling \in FeedEvents
  BY FeedNames DEF FeedEvents
<1>3. \A g \in Feeds : g # f => Handling \notin {FeedChanged[g], FeedBroken[g]}
  BY FeedNames DEF Feeds
<1>4. NoStoreless => \A g \in Feeds : FeedHandled(g)
  BY <1>1, <1>3 DEF FeedHandled
<1>5. QueuesHandled /\ SchemaHandled /\ ConnsHandled
  BY <1>2 DEF Leaves, Alike, QueuesHandled, SchemaHandled, ConnsHandled, FeedEvents
<1> QED
  BY <1>4, <1>5 DEF DataHandled

\* What the handlers of the OpenFGA relation do.
LEMMA StoreData ==
    ASSUME TypeOK, OnOpenfgaStoreCreated \/ OnOpenfgaBroken, hook' # None
    PROVE  DataHandled
<1>1. /\ hook \in HookType /\ hook.todo # << >>
      /\ hook.bag \in StateType
      /\ \A n : Current(n) => Handling = n
  BY CurrentType DEF HookType, Current, Handling, OnOpenfgaStoreCreated, OnOpenfgaBroken
<1>2. /\ Handling \in {FeedChanged["openfga"], FeedBroken["openfga"]}
      /\ ~IsAction(Head(hook.todo)) /\ "openfga" \in Feeds
  BY <1>1, FeedNames
     DEF OnOpenfgaStoreCreated, OnOpenfgaBroken, IsAction, ActionEvents, Handling, Feeds
<1>3. \A b : b.s3 = hook.bag.s3 =>
          \A g \in Feeds : g # "openfga" => (Fed(g, b) <=> Fed(g, hook.bag))
  BY DEF Feeds, Fed, BucketKnown
<1>4. Feeding("openfga") = remote.openfga.alive /\ (\A b : Fed("openfga", b) <=> StoreKnown(b))
  BY DEF Feeding, Fed
<1>5. CASE OnOpenfgaStoreCreated
  <2>1. Handling = FeedChanged["openfga"] /\ FeedChanged["openfga"] # FeedBroken["openfga"]
    BY <1>1, <1>5, FeedNames DEF OnOpenfgaStoreCreated
  <2>2. CASE Ignore /\ (~Leading \/ ~StoreInfo)
    <3>1. Leaves(hook.bag)
      BY <1>1, <2>2, EarlyData
    <3>2. NoStoreless => ~(Leading /\ Feeding("openfga"))
      BY <1>4, <2>2 DEF StoreInfo, Related, NoStoreless
    <3> QED
      BY <1>2, <2>1, <3>1, <3>2, OneFeed
  <2>3. CASE /\ Leading /\ StoreInfo
             /\ Update([hook EXCEPT !.bag.openfga = [store |-> remote.openfga.store,
                         complete |-> remote.openfga.complete, model |-> None]], status[hook.unit])
    <3> DEFINE o == [store |-> remote.openfga.store,
                     complete |-> remote.openfga.complete, model |-> None]
               b == [hook.bag EXCEPT !.openfga = o]
    <3>1. o \in OpenfgaType /\ o.store = remote.openfga.store
      BY DEF TypeOK, RemoteType, OpenfgaType
    <3>2. Update([hook EXCEPT !.bag.openfga = o], status[hook.unit])
      BY <2>3
    <3>3. o # None
      BY <3>1, NoneAssumption
    <3> HIDE DEF o
    <3>4. /\ b \in StateType /\ b.openfga = o /\ b.s3 = hook.bag.s3
          /\ b.conn = hook.bag.conn /\ b.schema_ready = hook.bag.schema_ready
      BY <1>1, <3>1 DEF StateType
    <3>5. [hook EXCEPT !.bag.openfga = o] = [hook EXCEPT !.bag = b]
      BY <1>1 DEF HookType
    <3> HIDE DEF b
    <3>6. Leaves(b)
      BY <1>1, <3>2, <3>4, <3>5, BagEnds
    <3>7. Feeding("openfga") => Fed("openfga", b)
      BY <1>4, <3>1, <3>3, <3>4 DEF StoreKnown
    <3>8. ~Feeding("openfga") =>
              FeedBroken["openfga"] \in pending[hook.unit] /\ hook.event # FeedBroken["openfga"]
      BY <1>4, <2>3, FeedNames DEF StoreInfo, Related
    <3> QED
      BY <1>2, <1>3, <2>1, <3>4, <3>6, <3>7, <3>8, OneFeed
  <2> QED
    BY <1>5, <2>2, <2>3 DEF OnOpenfgaStoreCreated, IsLeader, Leading, Fail, Raise
<1>6. CASE OnOpenfgaBroken
  <2>1. Handling = FeedBroken["openfga"] /\ FeedChanged["openfga"] # FeedBroken["openfga"]
    BY <1>1, <1>6, FeedNames DEF OnOpenfgaBroken
  <2>2. CASE \/ Ignore /\ ~Leading
             \/ Postpone /\ ~peerReady
    <3>1. Leaves(hook.bag)
      BY <1>1, <1>2, <2>2, EarlyData
    <3> QED
      BY <1>2, <2>1, <2>2, <3>1, OneFeed
  <2>3. CASE Update([hook EXCEPT !.bag.openfga = None], status[hook.unit])
    <3> DEFINE b == [hook.bag EXCEPT !.openfga = None]
    <3>1. /\ b \in StateType /\ b.openfga = None /\ b.s3 = hook.bag.s3
          /\ b.conn = hook.bag.conn /\ b.schema_ready = hook.bag.schema_ready
      BY <1>1 DEF StateType
    <3>2. [hook EXCEPT !.bag.openfga = None] = [hook EXCEPT !.bag = b]
      BY <1>1 DEF HookType
    <3> HIDE DEF b
    <3>3. Leaves(b)
      BY <1>1, <2>3, <3>1, <3>2, BagEnds
    <3>4. ~Feeding("openfga") => Fed("openfga", b)
      BY <1>4, <3>1 DEF StoreKnown
    <3> QED
      BY <1>2, <1>3, <2>1, <3>1, <3>3, <3>4, OneFeed
  <2> QED
    BY <1>6, <2>2, <2>3 DEF OnOpenfgaBroken, IsLeader, Leading
<1> QED
  BY <1>5, <1>6

\* What the handlers of the S3 relation do.
LEMMA BucketData ==
    ASSUME TypeOK, OnS3CredentialsChanged \/ OnS3CredentialsGone, hook' # None
    PROVE  DataHandled
<1>1. /\ hook \in HookType /\ hook.todo # << >>
      /\ hook.bag \in StateType
      /\ \A n : Current(n) => Handling = n
  BY CurrentType DEF HookType, Current, Handling, OnS3CredentialsChanged, OnS3CredentialsGone
<1>2. Handling \in {FeedChanged["s3"], FeedBroken["s3"]} /\ "s3" \in Feeds
  BY <1>1, FeedNames DEF OnS3CredentialsChanged, OnS3CredentialsGone, Feeds
<1>3. \A b : b.openfga = hook.bag.openfga =>
          \A g \in Feeds : g # "s3" => (Fed(g, b) <=> Fed(g, hook.bag))
  BY DEF Feeds, Fed, StoreKnown
<1>4. Feeding("s3") = remote.s3.alive /\ (\A b : Fed("s3", b) <=> BucketKnown(b))
  BY DEF Feeding, Fed
<1>5. CASE OnS3CredentialsChanged
  <2>1. Handling = FeedChanged["s3"] /\ FeedChanged["s3"] # FeedBroken["s3"]
    BY <1>1, <1>5, FeedNames DEF OnS3CredentialsChanged
  <2>2. CASE Ignore /\ (~Leading \/ ~BucketNamed)
    <3>1. Leaves(hook.bag)
      BY <1>1, <2>2, EarlyData
    <3>2. Leading /\ Feeding("s3") => Fed("s3", hook.bag)
      BY <1>4, <2>2 DEF BucketNamed, Related, BucketKnown
    <3> QED
      BY <1>2, <2>1, <3>1, <3>2, OneFeed
  <2>3. CASE /\ Leading /\ BucketNamed
             /\ Update([hook EXCEPT !.bag.s3 = [cred |-> remote.s3.cred, bucket_created |-> BucketCreated]], status[hook.unit])
    <3> DEFINE o == [cred |-> remote.s3.cred, bucket_created |-> BucketCreated]
               b == [hook.bag EXCEPT !.s3 = o]
    <3>1. /\ o \in S3Type /\ o.cred = remote.s3.cred
          /\ o.bucket_created <=> remote.s3.bucket = "created"
      BY DEF TypeOK, RemoteType, S3Type, BucketCreated
    <3>2. Update([hook EXCEPT !.bag.s3 = o], status[hook.unit])
      BY <2>3
    <3>3. o # None
      BY <3>1, NoneAssumption
    <3> HIDE DEF o
    <3>4. /\ b \in StateType /\ b.s3 = o /\ b.openfga = hook.bag.openfga
          /\ b.conn = hook.bag.conn /\ b.schema_ready = hook.bag.schema_ready
      BY <1>1, <3>1 DEF StateType
    <3>5. [hook EXCEPT !.bag.s3 = o] = [hook EXCEPT !.bag = b]
      BY <1>1 DEF HookType
    <3> HIDE DEF b
    <3>6. Leaves(b)
      BY <1>1, <3>2, <3>4, <3>5, BagEnds
    <3>7. Feeding("s3") => Fed("s3", b)
      BY <1>4, <3>1, <3>3, <3>4 DEF BucketKnown
    <3>8. ~Feeding("s3") =>
              FeedBroken["s3"] \in pending[hook.unit] /\ hook.event # FeedBroken["s3"]
      BY <1>4, <2>3, FeedNames DEF BucketNamed, Related
    <3> QED
      BY <1>2, <1>3, <2>1, <3>4, <3>6, <3>7, <3>8, OneFeed
  <2> QED
    BY <1>5, <2>2, <2>3 DEF OnS3CredentialsChanged, IsLeader, Leading, Fail, Raise
<1>6. CASE OnS3CredentialsGone
  <2>1. Handling = FeedBroken["s3"] /\ FeedChanged["s3"] # FeedBroken["s3"]
    BY <1>1, <1>6, FeedNames DEF OnS3CredentialsGone
  <2>2. CASE Ignore /\ ~Leading
    <3>1. Leaves(hook.bag)
      BY <1>1, <2>2, EarlyData
    <3> QED
      BY <1>2, <2>1, <2>2, <3>1, OneFeed
  <2>3. CASE Update([hook EXCEPT !.bag.s3 = None], status[hook.unit])
    <3> DEFINE b == [hook.bag EXCEPT !.s3 = None]
    <3>1. /\ b \in StateType /\ b.s3 = None /\ b.openfga = hook.bag.openfga
          /\ b.conn = hook.bag.conn /\ b.schema_ready = hook.bag.schema_ready
      BY <1>1 DEF StateType
    <3>2. [hook EXCEPT !.bag.s3 = None] = [hook EXCEPT !.bag = b]
      BY <1>1 DEF HookType
    <3> HIDE DEF b
    <3>3. Leaves(b)
      BY <1>1, <2>3, <3>1, <3>2, BagEnds
    <3>4. ~Feeding("s3") => Fed("s3", b)
      BY <1>4, <3>1 DEF BucketKnown
    <3> QED
      BY <1>2, <1>3, <2>1, <3>1, <3>3, <3>4, OneFeed
  <2> QED
    BY <1>6, <2>2, <2>3 DEF OnS3CredentialsGone, IsLeader, Leading, Fail, Raise
<1> QED
  BY <1>5, <1>6

\* A model is created in the store that is known.
LEMMA ModelData ==
    ASSUME TypeOK, OnCreateAuthorizationModel, hook' # None
    PROVE  DataHandled
<1>1. /\ hook \in HookType /\ hook.todo # << >>
      /\ hook.bag \in StateType
      /\ \A n : Current(n) => Handling = n
  BY CurrentType DEF HookType, Current, Handling, OnCreateAuthorizationModel
<1>2. Handling = "create_model"
  BY <1>1 DEF OnCreateAuthorizationModel
<1>3. CASE Ignore
  BY <1>1, <1>2, <1>3, EarlyData, OtherData DEF FeedEvents
<1> DEFINE b == [hook.bag EXCEPT !.openfga.model = hook.bag.openfga.store]
<1>4. CASE hook.bag.openfga # None /\ Update([hook EXCEPT !.bag = b], status[hook.unit])
  <2>1. hook.bag.openfga \in OpenfgaType
    BY <1>1, <1>4 DEF StateType
  <2> DEFINE o == [hook.bag.openfga EXCEPT !.model = hook.bag.openfga.store]
  <2>2. o \in OpenfgaType /\ o.store = hook.bag.openfga.store /\ b = [hook.bag EXCEPT !.openfga = o]
    BY <1>1, <2>1 DEF StateType, OpenfgaType
  <2>3. o # None
    BY <2>2, NoneAssumption
  <2> HIDE DEF o
  <2>4. /\ b \in StateType /\ b.openfga = o /\ b.s3 = hook.bag.s3
        /\ b.conn = hook.bag.conn /\ b.schema_ready = hook.bag.schema_ready
    BY <1>1, <2>2 DEF StateType
  <2> HIDE DEF b
  <2>5. Leaves(b)
    BY <1>1, <1>4, <2>4, BagEnds
  <2>6. Fed("openfga", b) <=> Fed("openfga", hook.bag)
    BY <1>4, <2>2, <2>3, <2>4 DEF Fed, StoreKnown
  <2>7. Fed("s3", b) <=> Fed("s3", hook.bag)
    BY <2>4 DEF Fed, BucketKnown
  <2>8. \A f \in Feeds : Fed(f, hook'.bag) <=> Fed(f, hook.bag)
    BY <2>5, <2>6, <2>7, FedStays DEF Leaves, Alike, Feeds
  <2>9. \A f \in Feeds : FeedHandled(f)
    BY <1>2, <2>8, FeedNames DEF FeedHandled, FeedEvents
  <2> QED
    BY <1>2, <2>4, <2>5, <2>9
       DEF DataHandled, Leaves, Alike, QueuesHandled, SchemaHandled, ConnsHandled
<1>5. [hook EXCEPT !.bag.openfga.model = hook.bag.openfga.store] = [hook EXCEPT !.bag = b]
  BY <1>1 DEF HookType
<1> QED
  BY <1>3, <1>4, <1>5 DEF OnCreateAuthorizationModel, Fail, Raise

\* What the charm's own handlers do.
LEMMA LifecycleData ==
    ASSUME TypeOK, LifecycleStep, hook' # None
    PROVE  DataHandled
<1>1. /\ hook \in HookType /\ hook.todo # << >>
      /\ hook.bag \in StateType
      /\ \A n : Current(n) => Handling = n
  <2>1. \E n : Current(n)
    BY DEF LifecycleStep, OnInstall, OnPebbleReady, OnConfigChanged,
       OnPeerRelationChanged, OnRestart, OnUpdateStatus
  <2> QED
    BY <2>1, CurrentType DEF Current, Handling, HookType
<1>2. Handling \in {"install", "pebble_ready", "config_changed", "peer_changed", "restart",
                    "update_status"}
  BY <1>1 DEF LifecycleStep, OnInstall, OnPebbleReady, OnConfigChanged,
     OnPeerRelationChanged, OnRestart, OnUpdateStatus
<1>3. Handling \notin FeedEvents \cup {"schema_changed", "admin_changed"}
  BY <1>2 DEF FeedEvents
<1>4. Same(hook, hook)
  BY <1>1 DEF Same
<1>5. CASE ~OnUpdateStatus
  <2>1. Leaves(hook.bag)
    <3>1. Return(hook) \/ \E s : Update(hook, s)
      BY <1>5 DEF LifecycleStep, OnInstall, OnPebbleReady, OnConfigChanged,
         OnPeerRelationChanged, OnRestart, Ignore, Raise
    <3> QED
      BY <1>1, <1>4, <3>1, ReturnEnds, UpdateEnds
  <2> QED
    BY <1>3, <2>1, OtherData
<1>6. CASE OnUpdateStatus
  <2> DEFINE v == Pinned(hook)
             w == ConnsRecorded(v)
             h == IF IsLeader THEN w ELSE v
             g == ServerStatusProvided(h, "active")
  <2>1. Same(hook, v) /\ Alike(v.bag, hook.bag)
    BY <1>1, PinnedFacts, PinnedAlike DEF TypeOK
  <2>2. v \in HookType /\ v.bag \in StateType
    BY <2>1 DEF Same, HookType
  <2> HIDE DEF v
  <2>3. /\ Same(v, w)
        /\ w.bag = [v.bag EXCEPT !.conn = [r \in DBs |-> IF Readable(r) THEN ConnOf(r) ELSE @[r]]]
    BY <2>2, ConnsFacts DEF TypeOK
  <2>4. /\ w.bag.schema_ready = v.bag.schema_ready
        /\ w.bag.openfga = v.bag.openfga /\ w.bag.s3 = v.bag.s3
    BY <2>2, <2>3 DEF StateType
  <2> HIDE DEF w
  <2>5. /\ Same(hook, h)
        /\ h.bag.schema_ready = hook.bag.schema_ready
        /\ h.bag.openfga = hook.bag.openfga /\ h.bag.s3 = hook.bag.s3
    BY <2>1, <2>3, <2>4 DEF Same, Alike
  <2> HIDE DEF h
  <2>6. Same(h, g) /\ g.bag = h.bag
    BY <2>5, ServerStatusFacts DEF Same
  <2> HIDE DEF g
  <2>7. Same(hook, g)
    BY <2>5, <2>6 DEF Same
  <2>8. Handling = "update_status"
    BY <1>1, <1>6 DEF OnUpdateStatus
  <2>9. CASE Return(v)
    BY <1>1, <1>3, <2>1, <2>8, <2>9, ReturnEnds, OtherData DEF Alike
  <2>10. CASE Update(h, status[hook.unit]) \/ Return(h) \/ Return(g)
    <3>1. Leaves(h.bag)
      BY <1>1, <2>5, <2>6, <2>7, <2>10, ReturnEnds, UpdateEnds
    <3> QED
      BY <1>3, <2>5, <2>8, <3>1, OtherData
  <2> QED
    BY <1>6, <2>9, <2>10 DEF OnUpdateStatus, CheckUp, Fail, Raise, g, h, w, v
<1> QED
  BY <1>5, <1>6

\* Whichever handler runs, this is what it does to the data.
LEMMA HandleData ==
    ASSUME TypeOK, Handle, hook' # None
    PROVE  DataHandled
  BY DatabaseData, AdminData, StoreData, BucketData, ModelData, LifecycleData
     DEF Handle, RelationStep

(***************************************************************************)
(* Exceptions.                                                             *)
(***************************************************************************)
\* A handler that returns or defers goes on.
LEMMA GoesOn ==
    ASSUME hook \in HookType, hook.todo # << >>, NEW h, Same(hook, h), Return(h) \/ Defer(h)
    PROVE  hook' # None
  BY ReturnType, DeferType, NoneAssumption DEF Same

\* _update raises only where the shard count has been reset, or for an action
\* that finds no container.
LEMMA UpdateRaises ==
    ASSUME TypeOK, hook \in HookType, hook.todo # << >>,
           NEW h, Same(hook, h), NEW s, Update(h, s), hook' = None
    PROVE  config.shards = None \/ IsAction(Head(hook.todo))
<1> DEFINE p == Pinned(h)
           q == PortsOpened(p)
<1>1. Same(h, p) /\ h \in HookType
  BY PinnedFacts DEF Same, TypeOK
<1> HIDE DEF p
<1>2. Same(p, q)
  BY <1>1, PortsFacts DEF Same, TypeOK
<1> HIDE DEF q
<1>3. Same(hook, p) /\ Same(hook, q)
  BY <1>1, <1>2 DEF Same
<1>4. ~Return(p) /\ ~Return(q) /\ ~Defer(q)
  BY <1>3, GoesOn
<1> QED
  BY <1>4 DEF Update, ShardsUnreadable, Same, p, q

\* With a peer relation, a shard count in the configuration and an S3 that can
\* be reached, only an action raises, or a notice of the schema on a unit that
\* is not the leader.
LEMMA HandleRaises ==
    ASSUME TypeOK, Handle, hook' = None, peerReady, config.shards # None, ~Unreachable
    PROVE  /\ Raise /\ hook \in HookType /\ hook.todo # << >>
           /\ \/ IsAction(Head(hook.todo))
              \/ Handling = "schema_changed" /\ ~Leading
<1>1. /\ hook \in HookType /\ hook.todo # << >> /\ Raise
      /\ hook.bag \in StateType
  BY HandleHandled DEF Handled, HookType
<1> SUFFICES IsAction(Head(hook.todo)) \/ (Handling = "schema_changed" /\ ~Leading)
  BY <1>1
<1>2. \A n : Current(n) => Handling = n
  BY DEF Current, Handling
<1>3. Same(hook, hook)
  BY <1>1 DEF Same
<1>4. /\ ~Ignore /\ ~Postpone
      /\ \A h : Same(hook, h) => ~Return(h)
  BY <1>1, <1>3, GoesOn DEF Ignore, Postpone
<1>5. \A h, s : Same(hook, h) /\ Update(h, s) => IsAction(Head(hook.todo))
  BY <1>1, UpdateRaises
<1>6. \A b \in StateType : Same(hook, [hook EXCEPT !.bag = b])
  BY <1>1 DEF Same, HookType
<1>7. CASE OnDatabaseChanged
  <2>1. Same(hook, ConnsRecorded(hook))
    BY <1>1, ConnsFacts DEF TypeOK
  <2> QED
    BY <1>4, <1>5, <1>7, <2>1 DEF OnDatabaseChanged
<1>8. CASE OnDatabaseBroken
  <2> DEFINE b == [hook.bag EXCEPT !.conn[Head(hook.todo).arg] = None]
  <2>1. b \in StateType
    BY <1>1 DEF StateType, Conns
  <2>2. [hook EXCEPT !.bag.conn[Head(hook.todo).arg] = None] = [hook EXCEPT !.bag = b]
    BY <1>1 DEF HookType
  <2> HIDE DEF b
  <2> QED
    BY <1>4, <1>5, <1>6, <1>8, <2>1, <2>2 DEF OnDatabaseBroken
<1>9. ~OnAdminJoinedOrDatabaseChanged
  <2>1. Same(hook, DbInfoProvided(hook))
    BY <1>1, DbInfoFacts
  <2> QED
    BY <1>4, <2>1 DEF OnAdminJoinedOrDatabaseChanged
<1>10. ~OnAdminChanged
  <2> DEFINE n == Notice("schema_changed", remote.admin.schema_status)
             t == <<n>> \o Tail(hook.todo)
  <2>1. n \in NoticeType
    BY NoticeInType DEF TypeOK, RemoteType, Handlers
  <2> HIDE DEF n
  <2>2. <<n>> \in Seq(NoticeType) /\ Tail(hook.todo) \in Seq(NoticeType)
    BY <1>1, <2>1, HeadTailProperties DEF HookType
  <2>3. t \in Seq(NoticeType)
    BY <2>2, ConcatProperties
  <2> HIDE DEF t
  <2>4. [hook EXCEPT !.todo = t] # None
    BY <1>1, <2>3, NoneAssumption DEF HookType
  <2> QED
    BY <1>4, <2>4 DEF OnAdminChanged, n, t
<1>11. CASE OnSchemaChanged
  <2> DEFINE b == [hook.bag EXCEPT !.schema_ready = Head(hook.todo).arg = "ready"]
  <2>1. b \in StateType
    BY <1>1 DEF StateType
  <2>2. [hook EXCEPT !.bag.schema_ready = Head(hook.todo).arg = "ready"] = [hook EXCEPT !.bag = b]
    BY <1>1 DEF HookType
  <2> HIDE DEF b
  <2>3. Handling = "schema_changed"
    BY <1>2, <1>11 DEF OnSchemaChanged
  <2> QED
    BY <1>1, <1>4, <1>5, <1>6, <1>11, <2>1, <2>2, <2>3 DEF OnSchemaChanged, IsLeader, Leading
<1>12. ~OnUiJoined
  <2>1. Same(hook, ServerStatusProvided(hook, status[hook.unit]))
    BY <1>1, ServerStatusFacts
  <2> QED
    BY <1>4, <2>1 DEF OnUiJoined
<1>13. CASE OnOpenfgaStoreCreated
  <2> DEFINE o == [store |-> remote.openfga.store,
                   complete |-> remote.openfga.complete, model |-> None]
             b == [hook.bag EXCEPT !.openfga = o]
  <2>1. o \in OpenfgaType
    BY DEF TypeOK, RemoteType, OpenfgaType
  <2> HIDE DEF o
  <2>2. b \in StateType
    BY <1>1, <2>1 DEF StateType
  <2>3. [hook EXCEPT !.bag.openfga = o] = [hook EXCEPT !.bag = b]
    BY <1>1 DEF HookType
  <2> HIDE DEF b
  <2> QED
    BY <1>1, <1>4, <1>5, <1>6, <1>13, <2>2, <2>3 DEF OnOpenfgaStoreCreated, o
<1>14. CASE OnOpenfgaBroken
  <2> DEFINE b == [hook.bag EXCEPT !.openfga = None]
  <2>1. b \in StateType
    BY <1>1 DEF StateType
  <2>2. [hook EXCEPT !.bag.openfga = None] = [hook EXCEPT !.bag = b]
    BY <1>1 DEF HookType
  <2> HIDE DEF b
  <2> QED
    BY <1>4, <1>5, <1>6, <1>14, <2>1, <2>2 DEF OnOpenfgaBroken
<1>15. CASE OnS3CredentialsChanged
  <2> DEFINE o == [cred |-> remote.s3.cred, bucket_created |-> BucketCreated]
             b == [hook.bag EXCEPT !.s3 = o]
  <2>1. o \in S3Type
    BY DEF TypeOK, RemoteType, S3Type, BucketCreated
  <2> HIDE DEF o
  <2>2. b \in StateType
    BY <1>1, <2>1 DEF StateType
  <2>3. [hook EXCEPT !.bag.s3 = o] = [hook EXCEPT !.bag = b]
    BY <1>1 DEF HookType
  <2> HIDE DEF b
  <2> QED
    BY <1>1, <1>4, <1>5, <1>6, <1>15, <2>2, <2>3 DEF OnS3CredentialsChanged, o
<1>16. CASE OnS3CredentialsGone
  <2> DEFINE b == [hook.bag EXCEPT !.s3 = None]
  <2>1. b \in StateType
    BY <1>1 DEF StateType
  <2>2. [hook EXCEPT !.bag.s3 = None] = [hook EXCEPT !.bag = b]
    BY <1>1 DEF HookType
  <2> HIDE DEF b
  <2> QED
    BY <1>4, <1>5, <1>6, <1>16, <2>1, <2>2 DEF OnS3CredentialsGone
<1>17. CASE OnCreateAuthorizationModel \/ OnRestart
  BY <1>1, <1>2, <1>17
     DEF OnCreateAuthorizationModel, OnRestart, IsAction, ActionEvents, Handling
<1>18. CASE OnInstall \/ OnPebbleReady \/ OnConfigChanged \/ OnPeerRelationChanged
  BY <1>1, <1>3, <1>4, <1>5, <1>18
     DEF OnInstall, OnPebbleReady, OnConfigChanged, OnPeerRelationChanged
<1>19. CASE OnUpdateStatus
  <2> DEFINE v == Pinned(hook)
             w == ConnsRecorded(v)
             h == IF IsLeader THEN w ELSE v
             g == ServerStatusProvided(h, "active")
  <2>1. Same(hook, v) /\ v \in HookType
    BY <1>1, PinnedFacts DEF TypeOK, Same
  <2> HIDE DEF v
  <2>2. Same(v, w)
    BY <2>1, ConnsFacts DEF TypeOK
  <2> HIDE DEF w
  <2>3. Same(hook, h) /\ h \in HookType
    BY <2>1, <2>2 DEF Same
  <2> HIDE DEF h
  <2>4. Same(h, g)
    BY <2>3, ServerStatusFacts
  <2> HIDE DEF g
  <2>5. Same(hook, g)
    BY <2>3, <2>4 DEF Same
  <2> QED
    BY <1>4, <1>5, <1>19, <2>1, <2>3, <2>5
       DEF OnUpdateStatus, CheckUp, ShardsUnreadable, g, h, w, v
<1> QED
  BY <1>1, <1>7, <1>8, <1>9, <1>10, <1>11, <1>12, <1>13, <1>14, <1>15, <1>16, <1>17, <1>18, <1>19
     DEF Handle, RelationStep, LifecycleStep

(***************************************************************************)
(* What happens outside, for the schema and the feeds.                     *)
(***************************************************************************)
DataEvents == FeedEvents \cup {"admin_changed"}

\* The queues of events e in E are as they were.
Untouched(E) ==
    \A u \in Units : \A e \in E : e \in pending'[u] <=> e \in pending[u]

\* The admin charm's schema is as it was, gone, or announced.
SchemaNews ==
    \/ ~remote'.admin.alive
    \/ ToAll("admin_changed", pending')
    \/ remote'.admin = remote.admin /\ Untouched({"admin_changed"})

\* What a feed published is new and announced, gone and announced, or as it
\* was.  A relation is not made again before every unit knows it as broken.
FeedNews(f) ==
    \/ /\ Feeding(f)'
       /\ ToAll(FeedChanged[f], pending')
       /\ Feeding(f) \/ Gone(FeedBroken[f])
       /\ Untouched({FeedBroken[f]})
       /\ f = "openfga" => remote'.openfga.store \in Stores
    \/ /\ ~Feeding(f)'
       /\ ToAll(FeedBroken[f], pending')
    \/ /\ IF f = "openfga" THEN remote'.openfga = remote.openfga
                           ELSE remote'.s3 = remote.s3
       /\ Untouched({FeedChanged[f], FeedBroken[f]})

\* Containers only go away where that is one of the disturbances.
ContainersStay == "container" \notin Disturbances

Heralded ==
    /\ config' \in Configs \cup {config}
    /\ ContainersStay => \A u \in Units : up[u] => up'[u]
    /\ SchemaNews
    /\ \A f \in Feeds : FeedNews(f)

\* A change that has nothing to do with them.
LEMMA ElsewhereHeralded ==
    ASSUME config' \in Configs \cup {config}, ContainersStay => \A u \in Units : up[u] => up'[u],
           remote'.admin = remote.admin, remote'.openfga = remote.openfga,
           remote'.s3 = remote.s3, Untouched(DataEvents)
    PROVE  Heralded
<1>1. /\ Untouched({"admin_changed"})
      /\ \A f \in Feeds : Untouched({FeedChanged[f], FeedBroken[f]})
  BY FeedNames DEF Untouched, DataEvents
<1> QED
  BY <1>1 DEF Heralded, SchemaNews, FeedNews

\* Events added to and dropped from every queue.
LEMMA QueueFacts ==
    ASSUME NEW D, NEW A, pending' = [u \in Units |-> (pending[u] \ D) \cup A]
    PROVE  /\ \A e \in A : ToAll(e, pending')
           /\ \A E : (\A e \in E : e \notin D /\ e \notin A) => Untouched(E)
  BY DEF ToAll, Untouched

\* Telling every unit of an event.
LEMMA NotifyFacts ==
    ASSUME NEW e, pending' = Notify(e)
    PROVE  /\ ToAll(e, pending')
           /\ \A E : e \notin E => Untouched(E)
  BY DEF Notify, ToAll, Untouched

\* Breaking a relation.
LEMMA BrokenFacts ==
    ASSUME NEW D, NEW e, pending' = NotifyBroken(D, e)
    PROVE  /\ ToAll(e, pending')
           /\ \A E : e \notin E /\ (\A x \in E : x \notin D) => Untouched(E)
  BY DEF NotifyBroken, ToAll, Untouched

\* Whatever the operator and the other applications do is announced.
LEMMA EnvironmentHeralded ==
    ASSUME TypeOK, Environment
    PROVE  Heralded
<1>1. \A f \in Feeds : f = "openfga" \/ f = "s3"
  BY DEF Feeds
<1>2. DataEvents = {"openfga_changed", "openfga_broken", "s3_changed", "s3_broken", "admin_changed"}
  BY DEF DataEvents, FeedEvents
<1>3. \A r \in DBs : DbChanged[r] \notin DataEvents /\ DbBroken[r] \notin DataEvents
  BY <1>2 DEF DBs, DbChanged, DbBroken
<1>4. config' \in Configs \cup {config} /\ up' = up
  BY DEF Environment, SetConfig, OfferDb, RemoveDb, RelateAdmin, AdminSetsUpSchema,
     AdminLosesSchema, RemoveAdmin, RelateUi, RemoveUi, OfferStore, RemoveStore, OfferS3,
     RemoveS3, Publish
<1>5. CASE \E c \in Configs : SetConfig(c)
  <2>1. Untouched(DataEvents) /\ remote' = remote
    BY <1>2, <1>5, NotifyFacts DEF SetConfig
  <2> QED
    BY <1>4, <2>1, ElsewhereHeralded
<1>6. ASSUME NEW r \in DBs, NEW c \in DbOffers, OfferDb(r, c)
      PROVE  Heralded
  <2>1. /\ remote' = [remote EXCEPT !.db[r] = [alive |-> TRUE, conn |-> c]]
        /\ pending' = pending \/ pending' = Notify(DbChanged[r])
    BY <1>6 DEF OfferDb, Publish
  <2>2. Untouched(DataEvents)
    BY <1>3, <2>1, NotifyFacts DEF Untouched
  <2>3. /\ remote'.admin = remote.admin /\ remote'.openfga = remote.openfga
        /\ remote'.s3 = remote.s3
    BY <2>1 DEF TypeOK, RemoteType
  <2> QED
    BY <1>4, <2>2, <2>3, ElsewhereHeralded
<1>7. ASSUME NEW r \in DBs, RemoveDb(r)
      PROVE  Heralded
  <2>1. /\ remote' = [remote EXCEPT !.db[r].alive = FALSE]
        /\ pending' = NotifyBroken({DbChanged[r]}, DbBroken[r])
    BY <1>7 DEF RemoveDb, Publish
  <2>2. Untouched(DataEvents)
    BY <1>3, <2>1, BrokenFacts
  <2>3. /\ remote'.admin = remote.admin /\ remote'.openfga = remote.openfga
        /\ remote'.s3 = remote.s3
    BY <2>1 DEF TypeOK, RemoteType
  <2> QED
    BY <1>4, <2>2, <2>3, ElsewhereHeralded
<1>8. CASE RelateAdmin \/ AdminSetsUpSchema \/ AdminLosesSchema \/ RemoveAdmin
  <2>1. /\ remote'.openfga = remote.openfga /\ remote'.s3 = remote.s3
    BY <1>8 DEF RelateAdmin, AdminSetsUpSchema, AdminLosesSchema, RemoveAdmin, Publish,
       TypeOK, RemoteType
  <2>2. Untouched(FeedEvents)
    <3>1. CASE RelateAdmin
      <4>1. pending' = [u \in Units |-> pending[u] \cup {"admin_joined", "admin_changed"}]
        BY <3>1 DEF RelateAdmin, Publish
      <4> QED
        BY <4>1 DEF Untouched, FeedEvents
    <3>2. CASE AdminSetsUpSchema \/ AdminLosesSchema
      BY <3>2, NotifyFacts DEF AdminSetsUpSchema, AdminLosesSchema, Publish, FeedEvents
    <3>3. CASE RemoveAdmin
      BY <3>3, BrokenFacts DEF RemoveAdmin, Publish, FeedEvents
    <3> QED
      BY <1>8, <3>1, <3>2, <3>3
  <2>3. SchemaNews
    <3>1. CASE RelateAdmin
      BY <3>1 DEF RelateAdmin, Publish, SchemaNews, ToAll
    <3>2. CASE AdminSetsUpSchema \/ AdminLosesSchema
      BY <3>2, NotifyFacts DEF AdminSetsUpSchema, AdminLosesSchema, Publish, SchemaNews
    <3>3. CASE RemoveAdmin
      <4>1. remote' = [remote EXCEPT !.admin = [alive |-> FALSE, schema_status |-> "waiting"]]
        BY <3>3 DEF RemoveAdmin, Publish
      <4>2. ~remote'.admin.alive
        BY <4>1 DEF TypeOK, RemoteType
      <4> QED
        BY <4>2 DEF SchemaNews
    <3> QED
      BY <1>8, <3>1, <3>2, <3>3
  <2>4. \A f \in Feeds : FeedNews(f)
    BY <2>1, <2>2, FeedNames DEF FeedNews, Untouched
  <2> QED
    BY <1>4, <2>3, <2>4 DEF Heralded
<1>9. CASE RelateUi \/ RemoveUi
  <2>1. /\ remote'.admin = remote.admin /\ remote'.openfga = remote.openfga
        /\ remote'.s3 = remote.s3
    BY <1>9 DEF RelateUi, RemoveUi, Publish, TypeOK, RemoteType
  <2>2. Untouched(DataEvents)
    BY <1>2, <1>9 DEF RelateUi, RemoveUi, Publish, Notify, Untouched
  <2> QED
    BY <1>4, <2>1, <2>2, ElsewhereHeralded
<1>10. ASSUME NEW s \in Stores, NEW c \in BOOLEAN, OfferStore(s, c)
       PROVE  Heralded
  <2> DEFINE o == [alive |-> TRUE, store |-> s, complete |-> c]
  <2>1. /\ remote' = [remote EXCEPT !.openfga = o] /\ pending' = Notify("openfga_changed")
        /\ remote.openfga.alive \/ Gone("openfga_broken")
    BY <1>10 DEF OfferStore, Publish
  <2>2. o.alive = TRUE /\ o.store = s
    OBVIOUS
  <2> HIDE DEF o
  <2>3. /\ remote'.admin = remote.admin /\ remote'.s3 = remote.s3 /\ remote'.openfga = o
    BY <2>1 DEF TypeOK, RemoteType
  <2>4. /\ ToAll("openfga_changed", pending')
        /\ Untouched({"admin_changed"}) /\ Untouched({"openfga_broken"})
        /\ Untouched({"s3_changed", "s3_broken"})
    BY <2>1, NotifyFacts
  <2>5. FeedNews("openfga") /\ FeedNews("s3")
    BY <2>1, <2>2, <2>3, <2>4, FeedNames DEF FeedNews, Feeding
  <2> QED
    BY <1>1, <1>4, <2>3, <2>4, <2>5 DEF Heralded, SchemaNews
<1>11. CASE RemoveStore
  <2>1. /\ remote' = [remote EXCEPT !.openfga.alive = FALSE]
        /\ pending' = NotifyBroken({"openfga_changed"}, "openfga_broken")
    BY <1>11 DEF RemoveStore, Publish
  <2>2. /\ remote'.admin = remote.admin /\ remote'.s3 = remote.s3 /\ ~remote'.openfga.alive
    BY <2>1 DEF TypeOK, RemoteType
  <2>3. /\ ToAll("openfga_broken", pending')
        /\ Untouched({"admin_changed"}) /\ Untouched({"s3_changed", "s3_broken"})
    BY <2>1, BrokenFacts
  <2>4. FeedNews("openfga") /\ FeedNews("s3")
    BY <2>2, <2>3, FeedNames DEF FeedNews, Feeding
  <2> QED
    BY <1>1, <1>4, <2>2, <2>3, <2>4 DEF Heralded, SchemaNews
<1>12. ASSUME NEW c \in S3Creds, NEW b \in {"created", "refused", "missing"}, OfferS3(c, b)
       PROVE  Heralded
  <2> DEFINE o == [alive |-> TRUE, cred |-> c, bucket |-> b]
  <2>1. /\ remote' = [remote EXCEPT !.s3 = o] /\ pending' = Notify("s3_changed")
        /\ remote.s3.alive \/ Gone("s3_broken")
    BY <1>12 DEF OfferS3, Publish
  <2>2. o.alive = TRUE
    OBVIOUS
  <2> HIDE DEF o
  <2>3. /\ remote'.admin = remote.admin /\ remote'.openfga = remote.openfga /\ remote'.s3 = o
    BY <2>1 DEF TypeOK, RemoteType
  <2>4. /\ ToAll("s3_changed", pending')
        /\ Untouched({"admin_changed"}) /\ Untouched({"s3_broken"})
        /\ Untouched({"openfga_changed", "openfga_broken"})
    BY <2>1, NotifyFacts
  <2>5. FeedNews("openfga") /\ FeedNews("s3")
    BY <2>1, <2>2, <2>3, <2>4, FeedNames DEF FeedNews, Feeding
  <2> QED
    BY <1>1, <1>4, <2>3, <2>4, <2>5 DEF Heralded, SchemaNews
<1>13. CASE RemoveS3
  <2>1. /\ remote' = [remote EXCEPT !.s3.alive = FALSE]
        /\ pending' = NotifyBroken({"s3_changed"}, "s3_broken")
    BY <1>13 DEF RemoveS3, Publish
  <2>2. /\ remote'.admin = remote.admin /\ remote'.openfga = remote.openfga /\ ~remote'.s3.alive
    BY <2>1 DEF TypeOK, RemoteType
  <2>3. /\ ToAll("s3_broken", pending')
        /\ Untouched({"admin_changed"}) /\ Untouched({"openfga_changed", "openfga_broken"})
    BY <2>1, BrokenFacts
  <2>4. FeedNews("openfga") /\ FeedNews("s3")
    BY <2>2, <2>3, FeedNames DEF FeedNews, Feeding
  <2> QED
    BY <1>1, <1>4, <2>2, <2>3, <2>4 DEF Heralded, SchemaNews
<1> QED
  BY <1>5, <1>6, <1>7, <1>8, <1>9, <1>10, <1>11, <1>12, <1>13 DEF Environment

\* A dispatch is that of an event that is pending or to be retried, of an
\* action or of update-status.
Called(u, e) ==
    \/ e \in pending[u]
    \/ failed[u] # None /\ e = failed[u]
    \/ e \in ActionEvents \cup {"update_status"}

Calls == \E u \in Units, e \in Events : Dispatch(u, e) /\ Called(u, e)

Outside == Announced /\ Heralded

\* Every step starts a dispatch so, goes on with one, ends one, or is outside.
LEMMA StepsBy ==
    ASSUME LeaderStays, TypeOK, Next
    PROVE  Calls \/ Handle \/ SkipKept \/ Commit \/ Crash \/ Outside
<1>1. ASSUME NEW u \in Units,
             \/ DispatchPending(u) \/ DispatchRetry(u)
             \/ DispatchUpdateStatus(u) \/ Action(u)
      PROVE  Calls
  <2>1. pending[u] \subseteq Events /\ (failed[u] # None => failed[u] \in Events)
    BY DEF TypeOK, Events
  <2> QED
    BY <1>1, <2>1 DEF DispatchPending, DispatchRetry, DispatchUpdateStatus,
       Action, DispatchAction, Events, ActionEvents, Calls, Called
<1>2. ASSUME NEW u \in Units, PeerRelationCreated \/ ContainerLost(u) \/ ContainerUp(u)
      PROVE  Outside
  <2>1. hook = None /\ remote' = remote /\ config' = config
    BY <1>2 DEF PeerRelationCreated, ContainerLost, ContainerUp
  <2>2. Untouched(DataEvents)
    <3>1. "peer_changed" \notin DataEvents /\ "pebble_ready" \notin DataEvents
      BY DEF DataEvents, FeedEvents
    <3>2. CASE PeerRelationCreated
      BY <3>1, <3>2, NotifyFacts DEF PeerRelationCreated
    <3>3. CASE ContainerLost(u)
      BY <3>1, <3>3 DEF ContainerLost, Untouched, TypeOK
    <3>4. CASE ContainerUp(u)
      BY <3>1, <3>4 DEF ContainerUp, Untouched, TypeOK
    <3> QED
      BY <1>2, <3>2, <3>3, <3>4
  <2>3. ContainersStay => \A v \in Units : up[v] => up'[v]
    BY <1>2 DEF ContainersStay, PeerRelationCreated, ContainerLost, ContainerUp, Disturb, TypeOK
  <2> QED
    BY <1>2, <2>1, <2>2, <2>3, OutsideAnnounced, ElsewhereHeralded DEF Outside
<1>3. PeerRelationCreated => Outside
  BY <1>2, UnitsAssumption
<1>4. \A u \in Units : ~ChangeLeader(u)
  BY DEF ChangeLeader, Disturb, LeaderStays
<1> QED
  BY <1>1, <1>2, <1>3, <1>4, EnvironmentAnnounced, EnvironmentHeralded DEF Next, Outside

(***************************************************************************)
(* Which notices a dispatch and the queues may hold: those of the schema   *)
(* are the leader's, and those of actions are never deferred.              *)
(***************************************************************************)
NoticesInv ==
    /\ \A u \in Units : \A n : Contains(deferred[u], n) =>
          ~IsAction(n) /\ (n.handler = "schema_changed" => u = leader)
    /\ hook # None => \A n :
          /\ Contains(hook.todo, n) /\ n.handler = "schema_changed" => Leading
          /\ Contains(hook.todo, n) /\ IsAction(n) => hook.event \in ActionEvents
          /\ Contains(hook.kept, n) =>
                ~IsAction(n) /\ (n.handler = "schema_changed" => Leading)

\* An event's notices bear its name, but for those of the databases.
LEMMA ObserversFacts ==
    ASSUME NEW e \in Events, NEW n, Contains(Observers(e), n)
    PROVE  n.handler = e \/ n.handler \in {"database_changed", "admin_database_changed",
                                           "database_broken"}
<1>1. CASE e \in {"db_changed", "visibility_changed"}
  <2> DEFINE r == IF e = "db_changed" THEN "db" ELSE "visibility"
             p == Notice("database_changed", r)
             q == Notice("admin_database_changed", r)
  <2>1. p.handler = "database_changed" /\ q.handler = "admin_database_changed"
    BY DEF Notice
  <2>2. Observers(e) = <<p, q>>
    BY <1>1 DEF Observers
  <2> HIDE DEF p, q
  <2> DEFINE s == <<p, q>>
  <2>3. Len(s) = 2 /\ s[1] = p /\ s[2] = q /\ 1..2 = {1, 2}
    OBVIOUS
  <2> HIDE DEF s
  <2>4. n = p \/ n = q
    BY <2>2, <2>3 DEF Contains, s
  <2> QED
    BY <2>1, <2>4
<1>2. CASE e \in {"db_broken", "visibility_broken"}
  <2> DEFINE r == IF e = "db_broken" THEN "db" ELSE "visibility"
             p == Notice("database_broken", r)
  <2>1. p.handler = "database_broken" /\ Observers(e) = <<p>>
    BY <1>2 DEF Notice, Observers
  <2> HIDE DEF p
  <2> QED
    BY <2>1, OneFacts
<1>3. CASE e = "admin_broken"
  BY <1>3, OneFacts DEF Observers
<1>4. CASE e \notin {"db_changed", "visibility_changed", "db_broken", "visibility_broken",
                     "admin_broken"}
  <2> DEFINE p == Notice(e, "")
  <2>1. p.handler = e /\ Observers(e) = <<p>>
    BY <1>4 DEF Notice, Observers
  <2> HIDE DEF p
  <2> QED
    BY <2>1, OneFacts
<1> QED
  BY <1>1, <1>2, <1>3, <1>4

\* So no event has a notice of the schema, and only actions one of an action.
LEMMA NoticeNames ==
    ASSUME NEW e \in Events, NEW n, Contains(Observers(e), n)
    PROVE  /\ n.handler # "schema_changed"
           /\ IsAction(n) => e \in ActionEvents
           /\ n.handler \in DataEvents => n.handler = e
<1>1. "schema_changed" \notin Events
  BY DEF Events, HookEvents, ActionEvents
<1> QED
  BY <1>1, ObserversFacts DEF IsAction, ActionEvents, DataEvents, FeedEvents

\* What a handler does to its queues, notice by notice.
LEMMA QueuesFacts ==
    ASSUME TypeOK, Handle, hook' # None
    PROVE  /\ hook # None /\ hook \in HookType /\ hook.todo # << >>
           /\ hook'.unit = hook.unit /\ hook'.event = hook.event
           /\ UNCHANGED outside
           /\ \A n : Contains(hook'.todo, n) =>
                        Contains(hook.todo, n) \/ (Leading /\ n = SchemaNotice)
           /\ Contains(hook.todo, Head(hook.todo))
           /\ \A n : Contains(hook'.kept, n) =>
                        \/ Contains(hook.kept, n)
                        \/ Contains(hook.todo, n) /\ ~IsAction(n)
           /\ DataHandled
<1>1. /\ hook # None /\ hook \in HookType /\ hook.todo # << >>
      /\ hook'.unit = hook.unit /\ hook'.event = hook.event
      /\ UNCHANGED outside
  BY HandleHandled, NoneAssumption DEF Handled, Goes, Passed
<1>2. DataHandled
  BY HandleData
<1>3. /\ hook.todo \in Seq(NoticeType) /\ hook.kept \in Seq(NoticeType)
      /\ Head(hook.todo) \in NoticeType /\ Tail(hook.todo) \in Seq(NoticeType)
  BY <1>1, HeadTailProperties DEF HookType
<1>4. \A n : Contains(hook.todo, n) <=> n = Head(hook.todo) \/ Contains(Tail(hook.todo), n)
  BY <1>1, <1>3, TailFacts
<1>5. SchemaNotice \in NoticeType
  BY NoticeInType DEF TypeOK, RemoteType, Handlers, SchemaNotice
<1>6. \A n : Contains(<<SchemaNotice>> \o Tail(hook.todo), n) =>
                 n = SchemaNotice \/ Contains(Tail(hook.todo), n)
  <2> DEFINE m == SchemaNotice
  <2>1. m \in NoticeType
    BY <1>5
  <2> HIDE DEF m
  <2>2. <<m>> \in Seq(NoticeType)
    BY <2>1
  <2>3. \A n : Contains(<<m>> \o Tail(hook.todo), n) <=>
                   Contains(<<m>>, n) \/ Contains(Tail(hook.todo), n)
    BY <1>3, <2>2, ConcatFacts
  <2>4. \A n : Contains(<<m>>, n) <=> n = m
    BY OneFacts
  <2> QED
    BY <2>3, <2>4 DEF m
<1>7. \A n : Contains(Append(hook.kept, Head(hook.todo)), n) <=>
                 Contains(hook.kept, n) \/ n = Head(hook.todo)
  BY <1>3, AppendFacts
<1> QED
  BY <1>1, <1>2, <1>4, <1>6, <1>7 DEF DataHandled, QueuesHandled

\* Every step keeps the notices so.
LEMMA NoticesKept ==
    ASSUME LeaderStays, TypeOK, NoticesInv, [Next]_vars
    PROVE  NoticesInv'
<1>1. CASE Calls
  <2>1. PICK u \in Units, e \in Events : Dispatch(u, e)
    BY <1>1 DEF Calls
  <2>2. /\ hook'.unit = u /\ hook'.event = e /\ hook'.kept = << >>
        /\ UNCHANGED <<leader, deferred>>
        /\ \A n : Contains(hook'.todo, n) <=>
                      Contains(deferred[u], n) \/ Contains(Observers(e), n)
    BY <2>1, StartFacts DEF outside
  <2>3. \A n : ~Contains(<< >>, n)
    BY OneFacts
  <2> QED
    BY <2>1, <2>2, <2>3, NoticeNames DEF NoticesInv, Leading
<1>2. CASE Handle
  <2>1. leader' = leader /\ deferred' = deferred
    BY <1>2, HandleHandled DEF outside
  <2>2. CASE hook' = None
    BY <2>1, <2>2 DEF NoticesInv
  <2>3. CASE hook' # None
    <3>1. SchemaNotice.handler = "schema_changed" /\ ~IsAction(SchemaNotice)
      BY DEF SchemaNotice, Notice, IsAction, ActionEvents
    <3> QED
      BY <1>2, <2>1, <2>3, <3>1, QueuesFacts DEF NoticesInv, Leading
  <2> QED
    BY <2>2, <2>3
<1>3. CASE SkipKept
  <2>1. /\ hook # None /\ hook'.unit = hook.unit /\ hook'.event = hook.event
        /\ hook'.kept = hook.kept
        /\ \A n : Contains(hook'.todo, n) => Contains(hook.todo, n)
        /\ UNCHANGED <<leader, deferred>>
    BY <1>3, SkipFacts DEF outside
  <2> QED
    BY <2>1 DEF NoticesInv, Leading
<1>4. CASE Commit
  <2>1. /\ hook # None /\ hook' = None /\ leader' = leader
        /\ deferred' = [deferred EXCEPT ![hook.unit] = hook.kept]
    BY <1>4 DEF Commit
  <2>2. \A u \in Units : deferred'[u] = deferred[u] \/ (u = hook.unit /\ deferred'[u] = hook.kept)
    BY <2>1 DEF TypeOK
  <2> QED
    BY <2>1, <2>2 DEF NoticesInv, Leading
<1>5. CASE Crash
  BY <1>5 DEF Crash, Raise, NoticesInv
<1>6. CASE Outside
  BY <1>6 DEF Outside, Announced, NoticesInv
<1>7. CASE UNCHANGED vars
  BY <1>7 DEF vars, NoticesInv, Leading
<1> QED
  BY <1>1, <1>2, <1>3, <1>4, <1>5, <1>6, <1>7, StepsBy

\* They are so whenever the lease does not move.
LEMMA NoticesHold == LeaderStays /\ Spec => []NoticesInv
<1>1. LeaderStays /\ TypeOK /\ NoticesInv /\ [Next]_vars => NoticesInv'
  BY NoticesKept
<1>2. Init => NoticesInv
  BY OneFacts DEF Init, NoticesInv
<1>3. CASE LeaderStays
  BY <1>1, <1>2, <1>3, TypeCorrect, PTL DEF Spec
<1> QED
  BY <1>3

\* The configuration is one the operator may set.
Configured == config \in Configs

\* It stays so.
LEMMA ConfigHolds == LeaderStays /\ Spec => []Configured
<1>1. LeaderStays /\ TypeOK /\ Configured /\ [Next]_vars => Configured'
  <2> SUFFICES ASSUME LeaderStays, TypeOK, config \in Configs, [Next]_vars
               PROVE  config' \in Configs
    BY DEF Configured
  <2>1. CASE Calls
    BY <2>1, StartFacts DEF Calls, outside
  <2>2. CASE Handle \/ SkipKept
    BY <2>2, HandleHandled, SkipFacts DEF outside
  <2>3. CASE Commit \/ Crash
    BY <2>3 DEF Commit, Crash
  <2>4. CASE Outside
    BY <2>4 DEF Outside, Heralded
  <2> QED
    BY <2>1, <2>2, <2>3, <2>4, StepsBy DEF vars
<1>2. Init => Configured
  BY DEF Init, Configured
<1>3. CASE LeaderStays
  BY <1>1, <1>2, <1>3, TypeCorrect, PTL DEF Spec
<1> QED
  BY <1>3

Errorless == peerReady /\ NoHookError

\* With a peer relation and no unit in error, no step puts one there.
LEMMA ErrorlessKept ==
    ASSUME LeaderStays, NoCrash, \A c \in Configs : c.shards # None,
           TypeOK, Configured, NoticesInv, Errorless, [Next]_vars
    PROVE  Errorless'
<1>1. CASE Calls
  BY <1>1, StartFacts DEF Calls, Errorless, NoHookError, outside
<1>2. CASE Handle
  <2>1. peerReady' = peerReady
    BY <1>2, HandleHandled DEF outside
  <2>2. CASE hook' # None
    BY <1>2, <2>1, <2>2, HandleHandled DEF Handled, Errorless, NoHookError
  <2>3. CASE hook' = None
    <3>1. /\ Raise /\ hook \in HookType /\ hook.todo # << >>
          /\ IsAction(Head(hook.todo)) \/ (Handling = "schema_changed" /\ ~Leading)
      BY <1>2, <2>3, HandleRaises DEF Errorless, Configured, NoCrash, Unreachable
    <3>2. Contains(hook.todo, Head(hook.todo)) /\ hook # None
      BY <3>1, TailFacts, NoneAssumption DEF HookType
    <3>3. hook.event \in ActionEvents
      BY <3>1, <3>2 DEF NoticesInv, Handling
    <3>4. failed' = [failed EXCEPT ![hook.unit] = None]
      BY <3>1, <3>3 DEF Raise
    <3> QED
      BY <2>1, <3>4 DEF Errorless, NoHookError, TypeOK
  <2> QED
    BY <2>2, <2>3
<1>3. CASE SkipKept
  BY <1>3, SkipFacts DEF Errorless, NoHookError, outside
<1>4. CASE Commit
  BY <1>4 DEF Commit, Errorless, NoHookError, TypeOK
<1>5. ~Crash
  BY DEF NoCrash, Crash, Disturb
<1>6. CASE Outside
  BY <1>6 DEF Outside, Announced, Errorless, NoHookError
<1>7. CASE UNCHANGED vars
  BY <1>7 DEF vars, Errorless, NoHookError
<1> QED
  BY <1>1, <1>2, <1>3, <1>4, <1>5, <1>6, <1>7, StepsBy

\* From the moment there is a peer relation and no unit is in error, no
\* handler raises any more, whatever containers, configuration and relations
\* do, as long as the operator does not unset the number of shards, the lease
\* does not move, the process does not die and S3 can be reached: boto3 raises
\* nothing that the handler of the S3 credentials does not catch.
THEOREM HandlersNeverRaise ==
    ASSUME "leader" \notin Disturbances, "crash" \notin Disturbances,
           "endpoint" \notin Disturbances, \A c \in Configs : c.shards # None
    PROVE  Spec => [](peerReady /\ NoHookError => []NoHookError)
<1>1. LeaderStays /\ NoCrash
  BY DEF LeaderStays, NoCrash
<1>2. TypeOK /\ Configured /\ NoticesInv /\ Errorless /\ [Next]_vars => Errorless'
  BY <1>1, ErrorlessKept
<1>3. (peerReady /\ NoHookError <=> Errorless) /\ (Errorless => NoHookError)
  BY DEF Errorless
<1>4. Spec => []NoticesInv /\ []Configured
  BY <1>1, NoticesHold, ConfigHolds
<1> QED
  BY <1>2, <1>3, <1>4, TypeCorrect, PTL DEF Spec

(***************************************************************************)
(* Where nothing is deferred, nothing old is handled again: a dispatch     *)
(* holds the notices of its own event and, on the leader, what the admin   *)
(* charm says now.                                                         *)
(***************************************************************************)
Fresh ==
    /\ peerReady
    /\ \A u \in Units : up[u] /\ deferred[u] = << >>
    /\ hook # None =>
          /\ hook.kept = << >>
          /\ \A n : Contains(hook.todo, n) =>
                       n = SchemaNotice \/ Contains(Observers(hook.event), n)

\* With containers that stay, nothing is deferred any more.
LEMMA FreshKept ==
    ASSUME LeaderStays, ContainersStay, TypeOK, Fresh, [Next]_vars
    PROVE  Fresh'
<1>1. CASE Calls
  <2>1. PICK u \in Units, e \in Events : Dispatch(u, e)
    BY <1>1 DEF Calls
  <2>2. /\ hook'.unit = u /\ hook'.event = e /\ hook'.kept = << >>
        /\ UNCHANGED <<peerReady, up, deferred>>
        /\ \A n : Contains(hook'.todo, n) <=>
                      Contains(deferred[u], n) \/ Contains(Observers(e), n)
    BY <2>1, StartFacts DEF outside
  <2>3. \A n : ~Contains(deferred[u], n)
    BY OneFacts DEF Fresh
  <2> QED
    BY <2>2, <2>3 DEF Fresh
<1>2. CASE Handle
  <2>1. UNCHANGED <<remote, peerReady, up, deferred>>
    BY <1>2, HandleHandled DEF outside
  <2>2. CASE hook' = None
    BY <2>1, <2>2 DEF Fresh
  <2>3. CASE hook' # None
    <3>1. /\ hook # None /\ hook \in HookType /\ hook'.event = hook.event
          /\ \A n : Contains(hook'.todo, n) => Contains(hook.todo, n) \/ n = SchemaNotice
          /\ QueuesHandled
      BY <1>2, <2>3, QueuesFacts DEF DataHandled
    <3>2. hook'.kept = hook.kept
      BY <3>1 DEF QueuesHandled, Fresh, HookType
    <3>3. SchemaNotice' = SchemaNotice
      BY <2>1 DEF SchemaNotice
    <3> QED
      BY <2>1, <3>1, <3>2, <3>3 DEF Fresh
  <2> QED
    BY <2>2, <2>3
<1>3. ~SkipKept
  BY OneFacts DEF SkipKept, Fresh
<1>4. CASE Commit
  <2>1. /\ hook # None /\ hook' = None /\ UNCHANGED <<peerReady, up>>
        /\ deferred' = [deferred EXCEPT ![hook.unit] = hook.kept]
    BY <1>4 DEF Commit
  <2>2. \A u \in Units : deferred'[u] = << >>
    BY <2>1 DEF TypeOK, Fresh
  <2> QED
    BY <2>1, <2>2 DEF Fresh
<1>5. CASE Crash
  BY <1>5 DEF Crash, Raise, Fresh
<1>6. CASE Outside
  BY <1>6 DEF Outside, Announced, Heralded, Fresh
<1>7. CASE UNCHANGED vars
  BY <1>7 DEF vars, Fresh, SchemaNotice
<1> QED
  BY <1>1, <1>2, <1>3, <1>4, <1>5, <1>6, <1>7, StepsBy

(***************************************************************************)
(* News that is on its way to the leader.                                  *)
(***************************************************************************)
\* The leader will handle event e, in a later dispatch or in this one.
Coming(e) ==
    \/ e \in pending[leader] /\ (Leading => hook.event # e)
    \/ Leading /\ Told(hook.todo, e)

\* The news has one observer each.
LEMMA NewsObserved ==
    ASSUME NEW e \in DataEvents
    PROVE  e \in Events /\ Contains(Observers(e), First(e)) /\ First(e).handler = e
<1> DEFINE n == Notice(e, "")
<1>1. Observers(e) = <<n>> /\ n.handler = e /\ e \in Events
  BY DEF Observers, Notice, DataEvents, FeedEvents, Events, HookEvents
<1> HIDE DEF n
<1>2. First(e) = n
  BY <1>1 DEF First
<1> QED
  BY <1>1, <1>2, OneFacts

\* What the leader has pending it will handle.
LEMMA ComingStarts ==
    ASSUME TypeOK, Calls, NEW e \in DataEvents, e \in pending[leader]
    PROVE  Coming(e)'
<1>1. PICK u \in Units, x \in Events : Dispatch(u, x)
  BY DEF Calls
<1>2. /\ hook'.unit = u /\ hook'.event = x
      /\ UNCHANGED <<leader, pending>>
      /\ \A n : Contains(Observers(x), n) => Contains(hook'.todo, n)
  BY <1>1, StartFacts DEF outside
<1> QED
  BY <1>2, NewsObserved DEF Coming, Leading, Told

\* No handler takes it back, but the one that handles it.
LEMMA ComingGoesOn ==
    ASSUME TypeOK, Handle, hook' # None, NEW e \in DataEvents, Coming(e)
    PROVE  Coming(e)' \/ (Leading /\ Handling = e)
<1>1. /\ hook # None /\ hook \in HookType /\ hook.todo # << >>
      /\ hook'.unit = hook.unit /\ hook'.event = hook.event
      /\ UNCHANGED outside
      /\ QueuesHandled
  BY QueuesFacts DEF DataHandled
<1>2. /\ hook.todo \in Seq(NoticeType) /\ Tail(hook.todo) \in Seq(NoticeType)
  BY <1>1, HeadTailProperties DEF HookType
<1>3. \A n : Contains(hook.todo, n) <=> n = Head(hook.todo) \/ Contains(Tail(hook.todo), n)
  BY <1>1, <1>2, TailFacts
<1>4. \A n : Contains(Tail(hook.todo), n) => Contains(hook'.todo, n)
  <2> DEFINE m == SchemaNotice
  <2>1. m \in NoticeType
    BY NoticeInType DEF TypeOK, RemoteType, Handlers, SchemaNotice
  <2> HIDE DEF m
  <2>2. <<m>> \in Seq(NoticeType)
    BY <2>1
  <2>3. \A n : Contains(<<m>> \o Tail(hook.todo), n) <=>
                   Contains(<<m>>, n) \/ Contains(Tail(hook.todo), n)
    BY <1>2, <2>2, ConcatFacts
  <2> QED
    BY <1>1, <2>3 DEF QueuesHandled, m
<1>5. leader' = leader /\ pending' = pending
  BY <1>1 DEF outside
<1> QED
  BY <1>1, <1>3, <1>4, <1>5, NewsObserved DEF Coming, Leading, Told, Handling

\* A dispatch that ends has handled it, or has it still pending.
LEMMA ComingCommits ==
    ASSUME TypeOK, Commit, NEW e, Coming(e)
    PROVE  e \in pending'[leader']
<1>1. /\ leader' = leader /\ hook.todo = << >>
      /\ pending' = [v \in Units |->
                       IF v = hook.unit THEN pending[v] \ {hook.event}
                       ELSE IF hook.bag = bag THEN pending[v]
                       ELSE pending[v] \cup {"peer_changed"}]
  BY DEF Commit
<1>2. e \in pending[leader] /\ (Leading => hook.event # e)
  BY <1>1, OneFacts DEF Coming, Told
<1>3. leader \in Units
  BY DEF TypeOK
<1> QED
  BY <1>1, <1>2, <1>3 DEF Leading

(***************************************************************************)
(* A feed's relation and the queues.                                       *)
(***************************************************************************)
\* A unit that runs a feed's broken hook has it pending, and none has while
\* the relation is there; a server that is there has named its store.
FeedsSound ==
    /\ NoStoreless
    /\ \A f \in Feeds :
          /\ \A u \in Units : failed[u] # None /\ failed[u] = FeedBroken[f] =>
                               FeedBroken[f] \in pending[u]
          /\ hook # None /\ hook.event = FeedBroken[f] => FeedBroken[f] \in pending[hook.unit]
          /\ Feeding(f) => Gone(FeedBroken[f])

\* Every step keeps it so.
LEMMA FeedsKept ==
    ASSUME LeaderStays, TypeOK, FeedsSound, [Next]_vars
    PROVE  FeedsSound'
<1>1. \A f \in Feeds : FeedBroken[f] \in HookEvents
  BY FeedNames DEF Feeds, HookEvents
<1>2. ASSUME NEW f \in Feeds, UNCHANGED remote
      PROVE  NoStoreless' /\ Feeding(f)' = Feeding(f)
  BY <1>2 DEF FeedsSound, NoStoreless, Feeding
<1>3. CASE Calls
  <2>1. PICK u \in Units, e \in Events : Dispatch(u, e) /\ Called(u, e)
    BY <1>3 DEF Calls
  <2>2. /\ hook'.unit = u /\ hook'.event = e
        /\ UNCHANGED <<remote, pending, failed>>
    BY <2>1, StartFacts DEF outside
  <2>3. \A f \in Feeds : FeedBroken[f] \notin ActionEvents \cup {"update_status"}
    BY <1>1, FeedNames DEF Feeds, ActionEvents
  <2> QED
    BY <1>2, <2>1, <2>2, <2>3 DEF FeedsSound, NoStoreless, Called, Gone
<1>4. CASE Raise /\ UNCHANGED <<remote, pending>> /\ hook # None
  <2>1. /\ hook' = None
        /\ \A u \in Units : failed'[u] \in {failed[u], None}
                               \/ (u = hook.unit /\ failed'[u] = hook.event)
    BY <1>4 DEF Raise, TypeOK
  <2> QED
    BY <1>1, <1>2, <1>4, <2>1 DEF FeedsSound, NoStoreless, Gone
<1>5. CASE Handle
  <2>1. UNCHANGED <<remote, pending>>
    BY <1>5, HandleHandled DEF outside
  <2>2. CASE hook' = None
    <3>1. Raise /\ hook # None
      BY <1>5, <2>2, HandleHandled, NoneAssumption DEF Handled
    <3> QED
      BY <1>4, <2>1, <3>1
  <2>3. CASE hook' # None
    <3>1. hook # None /\ hook'.unit = hook.unit /\ hook'.event = hook.event
      BY <1>5, <2>3, QueuesFacts
    <3>2. failed' = failed
      BY <1>5, <2>3, HandleHandled DEF Handled
    <3> QED
      BY <1>2, <2>1, <3>1, <3>2 DEF FeedsSound, NoStoreless, Gone
  <2> QED
    BY <2>2, <2>3
<1>6. CASE SkipKept
  <2>1. /\ hook # None /\ hook'.unit = hook.unit /\ hook'.event = hook.event
        /\ UNCHANGED <<remote, pending, failed>>
    BY <1>6, SkipFacts DEF outside
  <2> QED
    BY <1>2, <2>1 DEF FeedsSound, NoStoreless, Gone
<1>7. CASE Commit
  <2>1. /\ hook # None /\ hook' = None /\ remote' = remote
        /\ failed' = [failed EXCEPT ![hook.unit] = None]
        /\ pending' = [v \in Units |->
                         IF v = hook.unit THEN pending[v] \ {hook.event}
                         ELSE IF hook.bag = bag THEN pending[v]
                         ELSE pending[v] \cup {"peer_changed"}]
    BY <1>7 DEF Commit
  <2>2. \A f \in Feeds : FeedBroken[f] # "peer_changed"
    BY FeedNames DEF Feeds
  <2>3. \A u \in Units, f \in Feeds :
            /\ FeedBroken[f] \in pending'[u] => FeedBroken[f] \in pending[u]
            /\ failed'[u] # None =>
                  failed'[u] = failed[u] /\ pending[u] \subseteq pending'[u]
    BY <1>1, <2>1, <2>2 DEF TypeOK
  <2> QED
    BY <1>2, <2>1, <2>3 DEF FeedsSound, NoStoreless, Gone
<1>8. CASE Crash
  <2>1. Raise /\ UNCHANGED <<remote, pending>> /\ hook # None
    BY <1>8 DEF Crash
  <2> QED
    BY <1>4, <2>1
<1>9. CASE Outside
  <2>1. hook' = None /\ failed' = failed /\ \A f \in Feeds : FeedNews(f)
    BY <1>9 DEF Outside, Announced, Heralded
  <2>2. NoStoreless'
    <3>1. FeedNews("openfga")
      BY <2>1 DEF Feeds
    <3> QED
      BY <3>1, StoresAssumption DEF FeedNews, Feeding, FeedsSound, NoStoreless
  <2>3. ASSUME NEW f \in Feeds
        PROVE  /\ \A u \in Units : failed'[u] # None /\ failed'[u] = FeedBroken[f] =>
                                    FeedBroken[f] \in pending'[u]
               /\ Feeding(f)' => Gone(FeedBroken[f])'
    <3>1. CASE /\ Feeding(f)' /\ Untouched({FeedBroken[f]})
               /\ Feeding(f) \/ Gone(FeedBroken[f])
      BY <2>1, <3>1 DEF FeedsSound, Untouched, Gone
    <3>2. CASE ~Feeding(f)' /\ ToAll(FeedBroken[f], pending')
      BY <3>2 DEF ToAll
    <3>3. CASE /\ IF f = "openfga" THEN remote'.openfga = remote.openfga
                                   ELSE remote'.s3 = remote.s3
               /\ Untouched({FeedChanged[f], FeedBroken[f]})
      <4>1. Feeding(f)' = Feeding(f)
        BY <3>3 DEF Feeding
      <4> QED
        BY <2>1, <3>3, <4>1 DEF FeedsSound, Untouched, Gone
    <3> QED
      BY <2>1, <3>1, <3>2, <3>3 DEF FeedNews
  <2> QED
    BY <2>1, <2>2, <2>3 DEF FeedsSound
<1>10. CASE UNCHANGED vars
  BY <1>2, <1>10 DEF vars, FeedsSound, NoStoreless, Gone
<1> QED
  BY <1>3, <1>5, <1>6, <1>7, <1>8, <1>9, <1>10, StepsBy

\* It is so whenever the lease does not move.
LEMMA FeedsHold == LeaderStays /\ Spec => []FeedsSound
<1>1. LeaderStays /\ TypeOK /\ FeedsSound /\ [Next]_vars => FeedsSound'
  BY FeedsKept
<1>2. Init => FeedsSound
  <2> SUFFICES ASSUME Init PROVE FeedsSound
    OBVIOUS
  <2>1. ~remote.openfga.alive /\ ~remote.s3.alive
    BY DEF Init, NoRemote
  <2> QED
    BY <2>1 DEF Init, FeedsSound, NoStoreless, Feeding
<1>3. CASE LeaderStays
  BY <1>1, <1>2, <1>3, TypeCorrect, PTL DEF Spec
<1> QED
  BY <1>3

(***************************************************************************)
(* What a feed announced last reaches the databag.                         *)
(***************************************************************************)
\* The event the leader learns of the feed from.
FeedEvent(f) == IF Feeding(f) THEN FeedChanged[f] ELSE FeedBroken[f]

FeedInv(f) ==
    /\ Fed(f, bag) \/ FeedEvent(f) \in pending[leader]
    /\ hook # None => Fed(f, hook.bag) \/ Coming(FeedEvent(f))

\* The databag is right, or the leader will make it so.
LEMMA FeedKept ==
    ASSUME LeaderStays, ContainersStay, NEW f \in Feeds,
           TypeOK, Fresh, FeedsSound, FeedInv(f), [Next]_vars
    PROVE  FeedInv(f)'
<1>1. PICK e \in DataEvents : e = FeedEvent(f)
  BY FeedNames DEF FeedEvent, DataEvents
<1>2. ASSUME UNCHANGED remote
      PROVE  /\ FeedEvent(f)' = e
             /\ Fed(f, bag)' <=> Fed(f, bag')
             /\ Fed(f, hook.bag)' <=> Fed(f, hook'.bag)
  BY <1>1, <1>2 DEF FeedEvent, Feeding, Fed, StoreKnown, BucketKnown
<1>3. ASSUME UNCHANGED <<remote, leader, pending, bag>>, hook' = None
      PROVE  FeedInv(f)'
  BY <1>1, <1>2, <1>3 DEF FeedInv
<1>4. CASE Calls
  <2>1. hook'.bag = bag /\ UNCHANGED <<remote, leader, pending, bag>>
    BY <1>1, <1>4, StartFacts DEF Calls, outside
  <2>2. Fed(f, bag) \/ Coming(e)'
    BY <1>1, <1>4, ComingStarts DEF FeedInv
  <2> QED
    BY <1>1, <1>2, <2>1, <2>2 DEF FeedInv, Coming
<1>5. CASE Handle
  <2>1. UNCHANGED <<remote, leader, pending, bag, peerReady>>
    BY <1>1, <1>5, HandleHandled DEF outside
  <2>2. CASE hook' # None
    <3>1. /\ hook # None /\ hook \in HookType /\ hook.todo # << >>
          /\ hook'.unit = hook.unit /\ hook'.event = hook.event
          /\ Contains(hook.todo, Head(hook.todo))
          /\ FeedHandled(f)
      BY <1>1, <1>5, <2>2, QueuesFacts DEF DataHandled, FeedsSound
    <3>2. ~Leading => hook'.bag = hook.bag
      BY <1>1, <1>5, <2>2, HandleHandled DEF Handled, Goes, Follows
    <3>3. Handling \in DataEvents => hook.event = Handling
      <4>1. hook.event \in Events
        BY <1>1, <3>1 DEF HookType
      <4>2. SchemaNotice.handler = "schema_changed" /\ "schema_changed" \notin DataEvents
        BY DEF SchemaNotice, Notice, DataEvents, FeedEvents
      <4> QED
        BY <1>1, <3>1, <4>1, <4>2, NoticeNames DEF Fresh, Handling
    <3>4. FeedChanged[f] \in DataEvents /\ FeedBroken[f] \in DataEvents
      BY FeedNames DEF DataEvents
    <3>5. ~(Handling = FeedBroken[f] /\ Feeding(f))
      BY <1>1, <3>1, <3>3, <3>4 DEF FeedsSound, Gone, HookType
    <3>6. CASE Fed(f, hook.bag) /\ ~Fed(f, hook'.bag)
      <4>1. /\ Leading /\ ~Feeding(f)
            /\ FeedBroken[f] \in pending[hook.unit] /\ hook.event # FeedBroken[f]
        BY <1>1, <3>1, <3>2, <3>5, <3>6 DEF FeedHandled
      <4>2. Coming(e)'
        BY <1>1, <2>1, <3>1, <4>1 DEF FeedEvent, Coming, Leading
      <4> QED
        BY <1>1, <1>2, <2>1, <4>2 DEF FeedInv, Coming
    <3>7. CASE Coming(e)
      <4>1. CASE Coming(e)'
        BY <1>1, <1>2, <2>1, <4>1 DEF FeedInv, Coming
      <4>2. CASE Leading /\ Handling = e
        <5>1. Fed(f, hook'.bag)
          BY <1>1, <3>1, <4>2 DEF FeedHandled, FeedEvent, Fresh
        <5> QED
          BY <1>1, <1>2, <2>1, <5>1 DEF FeedInv
      <4> QED
        BY <1>1, <1>5, <2>2, <3>7, <4>1, <4>2, ComingGoesOn
    <3> QED
      BY <1>1, <1>2, <2>1, <3>1, <3>6, <3>7 DEF FeedInv
  <2> QED
    BY <1>1, <1>3, <2>1, <2>2
<1>6. ~SkipKept
  BY OneFacts DEF SkipKept, Fresh
<1>7. CASE Commit
  <2>1. hook # None /\ hook' = None /\ remote' = remote /\ bag' = hook.bag
    BY <1>1, <1>7 DEF Commit
  <2>2. Fed(f, hook.bag) \/ e \in pending'[leader']
    BY <1>1, <1>7, <2>1, ComingCommits DEF FeedInv
  <2> QED
    BY <1>1, <1>2, <2>1, <2>2 DEF FeedInv
<1>8. CASE Crash
  BY <1>1, <1>3, <1>8 DEF Crash, Raise
<1>9. CASE Outside
  <2>1. hook' = None /\ UNCHANGED <<leader, bag>> /\ FeedNews(f)
    BY <1>1, <1>9 DEF Outside, Announced, Heralded
  <2>2. leader \in Units
    BY DEF TypeOK
  <2>3. CASE /\ IF f = "openfga" THEN remote'.openfga = remote.openfga
                                 ELSE remote'.s3 = remote.s3
             /\ Untouched({FeedChanged[f], FeedBroken[f]})
    <3>1. FeedEvent(f)' = e /\ (Fed(f, bag)' <=> Fed(f, bag))
      BY <1>1, <2>1, <2>3 DEF FeedEvent, Feeding, Fed, StoreKnown, BucketKnown
    <3>2. e \in pending'[leader] <=> e \in pending[leader]
      BY <1>1, <2>2, <2>3 DEF Untouched, FeedEvent
    <3> QED
      BY <1>1, <2>1, <3>1, <3>2 DEF FeedInv
  <2>4. CASE FeedEvent(f)' \in pending'[leader]
    BY <1>1, <2>1, <2>4 DEF FeedInv
  <2> QED
    BY <1>1, <2>1, <2>2, <2>3, <2>4 DEF FeedNews, FeedEvent, ToAll
<1>10. CASE UNCHANGED vars
  BY <1>1, <1>2, <1>10 DEF vars, FeedInv, Coming, Leading
<1> QED
  BY <1>1, <1>4, <1>5, <1>6, <1>7, <1>8, <1>9, <1>10, StepsBy

\* From the moment everything is delivered and the databag holds the OpenFGA
\* store of the provider, it holds that one whenever everything is delivered:
\* over every later relation, change and removal, and whatever dispatch dies,
\* as long as the lease does not move and no container restarts.
THEOREM StoreKeepsFollowing ==
    ASSUME "leader" \notin Disturbances, "container" \notin Disturbances
    PROVE  Spec => [](Quiet /\ StoreFollowsProvider => []StoreFollowsProvider)
<1> DEFINE Live == Fresh /\ FeedInv("openfga")
<1>1. LeaderStays /\ ContainersStay /\ "openfga" \in Feeds
  BY DEF LeaderStays, ContainersStay, Feeds
<1>2. TypeOK /\ FeedsSound /\ Live /\ [Next]_vars => Live'
  BY <1>1, FreshKept, FeedKept
<1>3. Quiet /\ StoreFollowsProvider => Live
  BY DEF Quiet, StoreFollowsProvider, Fresh, FeedInv, Fed, StoreKnown
<1>4. TypeOK /\ Live => StoreFollowsProvider
  BY DEF Quiet, StoreFollowsProvider, FeedInv, Fed, StoreKnown, TypeOK
<1>5. Spec => []FeedsSound
  BY <1>1, FeedsHold
<1> HIDE DEF Live
<1> QED
  BY <1>2, <1>3, <1>4, <1>5, TypeCorrect, PTL DEF Spec

\* The same of the parameters of the S3 integrator: its credentials and
\* whether their bucket exists.
THEOREM ArchivalKeepsFollowing ==
    ASSUME "leader" \notin Disturbances, "container" \notin Disturbances
    PROVE  Spec => [](Quiet /\ ArchivalFollowsIntegrator => []ArchivalFollowsIntegrator)
<1> DEFINE Live == Fresh /\ FeedInv("s3")
<1>1. LeaderStays /\ ContainersStay /\ "s3" \in Feeds /\ "s3" # "openfga"
  BY DEF LeaderStays, ContainersStay, Feeds
<1>2. TypeOK /\ FeedsSound /\ Live /\ [Next]_vars => Live'
  BY <1>1, FreshKept, FeedKept
<1>3. Quiet /\ ArchivalFollowsIntegrator => Live
  BY <1>1 DEF Quiet, ArchivalFollowsIntegrator, Fresh, FeedInv, Fed, BucketKnown
<1>4. TypeOK /\ Live => ArchivalFollowsIntegrator
  BY <1>1 DEF Quiet, ArchivalFollowsIntegrator, FeedInv, Fed, BucketKnown, TypeOK
<1>5. Spec => []FeedsSound
  BY <1>1, FeedsHold
<1> HIDE DEF Live
<1> QED
  BY <1>2, <1>3, <1>4, <1>5, TypeCorrect, PTL DEF Spec

(***************************************************************************)
(* What the admin charm said last reaches the databag.                     *)
(***************************************************************************)
SchemaKnown(b) ==
    remote.admin.alive => (b.schema_ready <=> remote.admin.schema_status = "ready")

SchemaInv ==
    /\ SchemaKnown(bag) \/ "admin_changed" \in pending[leader]
    /\ hook # None =>
          \/ SchemaKnown(hook.bag)
          \/ Coming("admin_changed")
          \/ Leading /\ Contains(hook.todo, SchemaNotice)

\* The flag is right, or the leader will make it so.
LEMMA SchemaKept ==
    ASSUME LeaderStays, ContainersStay, TypeOK, Fresh, SchemaInv, [Next]_vars
    PROVE  SchemaInv'
<1>1. "admin_changed" \in DataEvents
  BY DEF DataEvents
<1>2. ASSUME UNCHANGED remote
      PROVE  /\ SchemaNotice' = SchemaNotice
             /\ SchemaKnown(bag)' <=> SchemaKnown(bag')
             /\ SchemaKnown(hook.bag)' <=> SchemaKnown(hook'.bag)
  BY <1>2 DEF SchemaNotice, SchemaKnown
<1>3. ASSUME UNCHANGED <<remote, leader, pending, bag>>, hook' = None
      PROVE  SchemaInv'
  BY <1>2, <1>3 DEF SchemaInv
<1>4. CASE Calls
  <2>1. hook'.bag = bag /\ UNCHANGED <<remote, leader, pending, bag>>
    BY <1>4, StartFacts DEF Calls, outside
  <2>2. SchemaKnown(bag) \/ Coming("admin_changed")'
    BY <1>1, <1>4, ComingStarts DEF SchemaInv
  <2> QED
    BY <1>2, <2>1, <2>2 DEF SchemaInv
<1>5. CASE Handle
  <2>1. UNCHANGED <<remote, leader, pending, bag, peerReady>>
    BY <1>5, HandleHandled DEF outside
  <2>2. CASE hook' # None
    <3>1. /\ hook # None /\ hook \in HookType /\ hook.todo # << >>
          /\ hook'.unit = hook.unit /\ hook'.event = hook.event
          /\ Contains(hook.todo, Head(hook.todo))
          /\ SchemaHandled /\ QueuesHandled
      BY <1>5, <2>2, QueuesFacts DEF DataHandled
    <3>2. hook.todo \in Seq(NoticeType) /\ Tail(hook.todo) \in Seq(NoticeType)
      BY <3>1, HeadTailProperties DEF HookType
    <3>3. \A n : Contains(hook.todo, n) <=> n = Head(hook.todo) \/ Contains(Tail(hook.todo), n)
      BY <3>1, <3>2, TailFacts
    <3>4. /\ SchemaNotice \in NoticeType /\ SchemaNotice.handler = "schema_changed"
          /\ SchemaNotice.arg = remote.admin.schema_status
      BY NoticeInType DEF TypeOK, RemoteType, Handlers, SchemaNotice, Notice
    <3>5. Handling = "schema_changed" => Head(hook.todo) = SchemaNotice
      <4>1. hook.event \in Events
        BY <3>1 DEF HookType
      <4> QED
        BY <3>1, <4>1, NoticeNames DEF Fresh, Handling
    <3>6. CASE Handling = "schema_changed"
      <4>1. SchemaKnown(hook'.bag)
        BY <3>1, <3>4, <3>5, <3>6 DEF SchemaHandled, SchemaKnown, Fresh
      <4> QED
        BY <1>2, <2>1, <4>1 DEF SchemaInv
    <3>7. CASE Handling = "admin_changed" /\ Leading
      <4> DEFINE m == SchemaNotice
      <4>1. m \in NoticeType
        BY <3>4
      <4> HIDE DEF m
      <4>2. <<m>> \in Seq(NoticeType)
        BY <4>1
      <4>3. Contains(<<m>> \o Tail(hook.todo), m)
        <5>1. \A n : Contains(<<m>> \o Tail(hook.todo), n) <=>
                         Contains(<<m>>, n) \/ Contains(Tail(hook.todo), n)
          BY <3>2, <4>2, ConcatFacts
        <5>2. Contains(<<m>>, m)
          BY OneFacts
        <5> QED
          BY <5>1, <5>2
      <4>4. Leading' /\ Contains(hook'.todo, SchemaNotice)
        BY <2>1, <3>1, <3>7, <4>3 DEF QueuesHandled, Leading, m
      <4> QED
        BY <1>2, <2>1, <4>4 DEF SchemaInv
    <3>8. CASE Handling # "schema_changed" /\ ~(Handling = "admin_changed" /\ Leading)
      <4>1. hook'.bag.schema_ready = hook.bag.schema_ready
        BY <3>1, <3>8 DEF SchemaHandled
      <4>2. SchemaKnown(hook.bag) => SchemaKnown(hook'.bag)
        BY <4>1 DEF SchemaKnown
      <4>3. Leading' <=> Leading
        BY <2>1, <3>1 DEF Leading
      <4>4. Contains(hook.todo, SchemaNotice) => Contains(hook'.todo, SchemaNotice)
        BY <3>1, <3>3, <3>4, <3>8 DEF QueuesHandled, Handling
      <4>5. Coming("admin_changed") => Coming("admin_changed")'
        BY <1>1, <1>5, <2>2, <3>8, ComingGoesOn
      <4> QED
        BY <1>2, <2>1, <3>1, <4>2, <4>3, <4>4, <4>5 DEF SchemaInv
    <3> QED
      BY <3>6, <3>7, <3>8
  <2> QED
    BY <1>3, <2>1, <2>2
<1>6. ~SkipKept
  BY OneFacts DEF SkipKept, Fresh
<1>7. CASE Commit
  <2>1. /\ hook # None /\ hook' = None /\ remote' = remote /\ bag' = hook.bag
        /\ hook.todo = << >>
    BY <1>7 DEF Commit
  <2>2. ~Contains(hook.todo, SchemaNotice)
    BY <2>1, OneFacts
  <2>3. SchemaKnown(hook.bag) \/ "admin_changed" \in pending'[leader']
    BY <1>7, <2>1, <2>2, ComingCommits DEF SchemaInv
  <2> QED
    BY <1>2, <2>1, <2>3 DEF SchemaInv
<1>8. CASE Crash
  BY <1>3, <1>8 DEF Crash, Raise
<1>9. CASE Outside
  <2>1. hook' = None /\ UNCHANGED <<leader, bag>> /\ SchemaNews
    BY <1>9 DEF Outside, Announced, Heralded
  <2>2. leader \in Units
    BY DEF TypeOK
  <2> QED
    BY <2>1, <2>2 DEF SchemaInv, SchemaNews, SchemaKnown, ToAll, Untouched
<1>10. CASE UNCHANGED vars
  BY <1>2, <1>10 DEF vars, SchemaInv, Coming, Leading
<1> QED
  BY <1>4, <1>5, <1>6, <1>7, <1>8, <1>9, <1>10, StepsBy

\* From the moment everything is delivered and the schema flag is what the
\* admin charm said last, it is so whenever everything is delivered.
THEOREM SchemaKeepsFollowing ==
    ASSUME "leader" \notin Disturbances, "container" \notin Disturbances
    PROVE  Spec => [](Quiet /\ SchemaFollowsAdmin => []SchemaFollowsAdmin)
<1> DEFINE Live == Fresh /\ SchemaInv
<1>1. LeaderStays /\ ContainersStay
  BY DEF LeaderStays, ContainersStay
<1>2. TypeOK /\ Live /\ [Next]_vars => Live'
  BY <1>1, FreshKept, SchemaKept
<1>3. Quiet /\ SchemaFollowsAdmin => Live
  BY DEF Quiet, SchemaFollowsAdmin, Fresh, SchemaInv, SchemaKnown
<1>4. TypeOK /\ Live => SchemaFollowsAdmin
  BY DEF Quiet, SchemaFollowsAdmin, SchemaInv, SchemaKnown, TypeOK
<1> HIDE DEF Live
<1> QED
  BY <1>2, <1>3, <1>4, TypeCorrect, PTL DEF Spec
=============================================================================
