--------------------------- MODULE MCTemporalCharm --------------------------
(***************************************************************************)
(* TLC instances of TemporalCharm: two units, a handful of configurations  *)
(* and of outside changes.  Every initial predicate below is a state that  *)
(* Spec reaches: it only spares TLC the way there.                         *)
(***************************************************************************)
EXTENDS TemporalCharm, TLC

UnitSymmetry == Permutations(Units)

MCShards == {-1, 4, 8}

Options(shards, services, bad) ==
    [shards |-> shards, services |-> services, auth |-> FALSE,
     db_tls |-> FALSE, bad |-> bad]

Base       == Options(4, Services, {})
NoShards   == Options(None, Services, {})
HistoryOnly == Options(4, {"history"}, {})
MoreShards == Options(8, Services, {})
WrongLimit == Options(4, Services, {"limits"})
WrongNames == Options(4, {"history"}, {"sans-dns"})
WithTls    == [Base EXCEPT !.db_tls = TRUE]
WithAuth   == [Base EXCEPT !.auth = TRUE]
Negative   == Options(-1, Services, {"options"})

BaseOnly        == {Base}
DeployConfigs   == {NoShards, Base}
OperatorConfigs == {Base, HistoryOnly, MoreShards, WrongLimit, WithAuth}
DnsConfigs      == {Base, WrongNames, Negative}
ShardConfigs    == {NoShards, Base, MoreShards}
TlsConfigs      == {Base, WithTls, WrongLimit}
AuthConfigs     == {Base, WithAuth}

(***************************************************************************)
(* Two offers that an event announces, and one that only rotates the       *)
(* credentials of the first.                                               *)
(***************************************************************************)
FirstOffer == [host |-> "h", port |-> "p1", cred |-> "c1", tls |-> FALSE]
Moved      == [FirstOffer EXCEPT !.port = "p2", !.cred = "c2"]
Rotated    == [FirstOffer EXCEPT !.cred = "c2"]

OneOffer      == {FirstOffer}
AnnouncedOnly == {FirstOffer, Moved}
AnyOffer      == {FirstOffer, Moved, Rotated}

(***************************************************************************)
(* Nothing in flight, databag b, published data p, n outside changes left. *)
(***************************************************************************)
Still(c, l, b, p, n) ==
    /\ config = c
    /\ leader = l
    /\ peerReady = TRUE
    /\ budget = n
    /\ bag = b
    /\ pub = p
    /\ deferred = [u \in Units |-> << >>]
    /\ failed = [u \in Units |-> None]
    /\ hook = None

Conns2(c) == [r \in DBs |-> [FirstOffer EXCEPT !.tls = c.db_tls]]

AllRelated(schema) ==
    [NoRemote(FirstOffer, None, None) EXCEPT
        !.db = [r \in DBs |-> [alive |-> TRUE, conn |-> FirstOffer]],
        !.admin = [alive |-> TRUE, schema_status |-> schema]]

\* A deployment that has been set up: both databases, the admin charm with
\* the schema in place, all events delivered, every unit Active.
Established(c, l) ==
    /\ Still(c, l, [FreshState EXCEPT !.shards = c.shards, !.conn = Conns2(c),
                                      !.schema_ready = TRUE],
             [admin |-> Conns2(c), ui |-> None], MaxDisturbances)
    /\ remote = AllRelated("ready")
    /\ up = [u \in Units |-> TRUE]
    /\ ports = [u \in Units |-> IF u = l THEN ServicePorts(c.services) ELSE {}]
    /\ pending = [u \in Units |-> {}]
    /\ status = [u \in Units |-> "active"]
    /\ plan = [u \in Units |-> PlanOf(bag)]

\* The same, but num-history-shards has not been given yet: every unit is
\* blocked and has no plan.
Unpinned(l) ==
    /\ Still(NoShards, l, [FreshState EXCEPT !.conn = Conns2(NoShards),
                                             !.schema_ready = TRUE],
             [admin |-> Conns2(NoShards), ui |-> None], MaxDisturbances)
    /\ remote = AllRelated("ready")
    /\ up = [u \in Units |-> TRUE]
    /\ ports = [u \in Units |-> {}]
    /\ pending = [u \in Units |-> {}]
    /\ status = [u \in Units |-> "blocked"]
    /\ plan = [u \in Units |-> None]

\* A bundle: the units have handled the configuration, so that the shard
\* count is pinned, and every relation has been made but not handled yet; no
\* other outside change follows.
Bundle(l) ==
    /\ Still(Base, l, [FreshState EXCEPT !.shards = 4], [admin |-> None, ui |-> None], 0)
    /\ remote = AllRelated("waiting")
    /\ up = [u \in Units |-> FALSE]
    /\ ports = [u \in Units |-> {}]
    /\ pending = [u \in Units |-> {"db_changed", "visibility_changed",
                                   "admin_joined", "admin_changed"}]
    /\ status = [u \in Units |-> "blocked"]
    /\ plan = [u \in Units |-> None]

EstablishedSpec == (\E l \in Units : Established(Base, l)) /\ [][Next]_vars
UnpinnedSpec    == (\E l \in Units : Unpinned(l)) /\ [][Next]_vars
DeploymentSpec  == (Init \/ \E l \in Units : Bundle(l)) /\ [][Next]_vars
EstablishedFairSpec == EstablishedSpec /\ Fairness
=============================================================================
