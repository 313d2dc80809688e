----------------------------- MODULE Relations ------------------------------
(***************************************************************************)
(* The handlers of src/src/relations: postgresql.py, admin.py, ui.py,      *)
(* openfga.py and s3_archival.py, on top of Reconciler's Update.           *)
(*                                                                         *)
(* remote.db[r]    [alive, conn]   the database provider of relation r     *)
(* remote.admin    [alive, schema_status]                                  *)
(* remote.ui       [alive]                                                 *)
(* remote.openfga  [alive, store, complete]                                *)
(* remote.s3       [alive, cred, bucket]  bucket: "created" if it exists   *)
(*                 or can be created, "refused" if not, "missing" if the   *)
(*                 integrator names none                                   *)
(* What was published stays readable on a dying relation until the unit    *)
(* runs its broken hook.                                                   *)
(***************************************************************************)
EXTENDS Reconciler

\* get_relation(name) is not None, for unit u in the current dispatch: ops
\* hides a relation from the unit that is running its broken hook.
Related(relation, broken) ==
    \/ relation.alive
    \/ broken \in pending[hook.unit] /\ hook.event # broken

(***************************************************************************)
(* admin.py and ui.py: what the leader publishes.                          *)
(***************************************************************************)
\* Mutants of DbInfoProvided: it waits for a state _validate accepts, which
\* in turn waits for the schema; it never publishes a second time.
DbInfoWhenValid(h) ==
    IF /\ leader = h.unit
       /\ Valid(h.bag)
       /\ Related(remote.admin, "admin_broken")
    THEN [h EXCEPT !.pub.admin = h.bag.conn]
    ELSE h

DbInfoProvidedOnce(h) ==
    IF /\ leader = h.unit
       /\ h.pub.admin = None
       /\ DatabasesConnected(h.bag)
       /\ Related(remote.admin, "admin_broken")
    THEN [h EXCEPT !.pub.admin = h.bag.conn]
    ELSE h

\* Admin._provide_db_info
DbInfoProvided(h) ==
    IF /\ leader = h.unit
       /\ DatabasesConnected(h.bag)
       /\ Related(remote.admin, "admin_broken")
    THEN [h EXCEPT !.pub.admin = h.bag.conn]
    ELSE h

\* Mutant of ServerStatusProvided: the unit's status is published as it is.
UnitStatusProvided(h, s) ==
    IF remote.ui.alive THEN [h EXCEPT !.pub.ui = s] ELSE h

\* UI._provide_server_status, with the unit's status at that moment.
ServerStatusProvided(h, s) ==
    IF remote.ui.alive
    THEN [h EXCEPT !.pub.ui = IF s = "active" THEN "ready" ELSE "blocked"]
    ELSE h

(***************************************************************************)
(* postgresql.py                                                           *)
(***************************************************************************)
\* The connection update_db_relation_data_in_state builds from a relation.
ConnOf(r) ==
    [remote.db[r].conn EXCEPT !.tls = @ \/ config.db_tls]

Readable(r) == Related(remote.db[r], DbBroken[r])

\* Mutant of ReplanFields: credentials are not compared.
ReplanAddress == {"host", "tls"}

\* The fields whose change makes update-status replan: not the port.
ReplanFields == {"host", "cred", "tls"}

ConnDiffers(b, r) ==
    \/ b.conn[r] = None
    \/ \E f \in ReplanFields : b.conn[r][f] # ConnOf(r)[f]

\* Postgresql.update_db_relation_data_in_state, leader side: every readable
\* relation is recorded and the admin charm is told.
ConnsRecorded(h) ==
    LET b == [h.bag EXCEPT !.conn =
                [r \in DBs |-> IF Readable(r) THEN ConnOf(r) ELSE @[r]]]
    IN  IF \E r \in DBs : Readable(r)
        THEN DbInfoProvided([h EXCEPT !.bag = b])
        ELSE h

ShouldReplan(b) == \E r \in DBs : Readable(r) /\ ConnDiffers(b, r)

\* Mutants of OnDatabaseChanged: it records the connections only; it lacks
\* the leadership check, so that Juju refuses the write.
OnDatabaseRecorded ==
    /\ Current("database_changed")
    /\ \/ ~IsLeader /\ Ignore
       \/ IsLeader /\ ~peerReady /\ Postpone
       \/ IsLeader /\ peerReady /\ Return(ConnsRecorded(hook)) /\ UNCHANGED <<status, plan>>

OnDatabaseChangedAnywhere ==
    /\ Current("database_changed")
    /\ \/ ~peerReady /\ Postpone
       \/ peerReady /\ ~IsLeader /\ Fail
       \/ IsLeader /\ peerReady /\ Update(ConnsRecorded(hook), "waiting")

OnDatabaseChanged ==
    /\ Current("database_changed")
    /\ \/ ~IsLeader /\ Ignore
       \/ IsLeader /\ ~peerReady /\ Postpone
       \/ IsLeader /\ peerReady /\ Update(ConnsRecorded(hook), "waiting")

OnDatabaseBroken ==
    /\ Current("database_broken")
    /\ \/ ~IsLeader /\ Ignore
       \/ IsLeader /\ ~peerReady /\ Postpone
       \/ /\ IsLeader /\ peerReady
          /\ Update([hook EXCEPT !.bag.conn[Head(hook.todo).arg] = None],
                    status[hook.unit])

(***************************************************************************)
(* admin.py                                                                *)
(***************************************************************************)
\* Mutant of OnAdminJoinedOrDatabaseChanged: a follower waits for leadership.
OnAdminJoinedByLeader ==
    /\ Current("admin_joined") \/ Current("admin_database_changed")
    /\ \/ ~(peerReady /\ IsLeader) /\ Postpone
       \/ /\ peerReady /\ IsLeader
          /\ Return(DbInfoProvided(hook))
          /\ UNCHANGED <<status, plan>>

\* _on_admin_relation_joined and _on_database_changed do the same.
OnAdminJoinedOrDatabaseChanged ==
    /\ Current("admin_joined") \/ Current("admin_database_changed")
    /\ \/ ~peerReady /\ Postpone
       \/ peerReady /\ ~IsLeader /\ Ignore
       \/ /\ peerReady /\ IsLeader
          /\ Return(DbInfoProvided(hook))
          /\ UNCHANGED <<status, plan>>

\* The leader emits schema_changed, which runs before anything else.
OnAdminChanged ==
    /\ Current("admin_changed")
    /\ \/ ~IsLeader /\ Ignore
       \/ /\ IsLeader
          /\ hook' = [hook EXCEPT !.todo =
                        <<Notice("schema_changed", remote.admin.schema_status)>> \o Tail(@)]
          /\ UNCHANGED <<failed, status, plan>>

\* Mutant of OnSchemaChanged: a schema once ready stays ready.
OnSchemaReady ==
    /\ Current("schema_changed")
    /\ \/ ~peerReady /\ Postpone
       \/ peerReady /\ ~IsLeader /\ Raise /\ SetStatus("waiting") /\ UNCHANGED plan
       \/ /\ peerReady /\ IsLeader
          /\ Update([hook EXCEPT !.bag.schema_ready = @ \/ Head(hook.todo).arg = "ready"],
                    "waiting")

\* No leadership check: ops refuses the write of a unit that is not leader.
OnSchemaChanged ==
    /\ Current("schema_changed")
    /\ \/ ~peerReady /\ Postpone
       \/ peerReady /\ ~IsLeader /\ Raise /\ SetStatus("waiting") /\ UNCHANGED plan
       \/ /\ peerReady /\ IsLeader
          /\ Update([hook EXCEPT !.bag.schema_ready = Head(hook.todo).arg = "ready"],
                    "waiting")

(***************************************************************************)
(* ui.py: joined and changed share their handler.                          *)
(***************************************************************************)
OnUiJoined ==
    /\ Current("ui_joined")
    /\ \/ ~IsLeader /\ Ignore
       \/ /\ IsLeader
          /\ Return(ServerStatusProvided(hook, status[hook.unit]))
          /\ UNCHANGED <<status, plan>>

(***************************************************************************)
(* openfga.py                                                              *)
(***************************************************************************)
\* get_store_info is not None.
StoreInfo ==
    Related(remote.openfga, "openfga_broken") /\ remote.openfga.store # None

\* Mutant of OnOpenfgaStoreCreated: the model survives a change of store.
OnOpenfgaStoreUpdated ==
    /\ Current("openfga_changed")
    /\ \/ ~IsLeader /\ Ignore
       \/ IsLeader /\ ~StoreInfo /\ Ignore
       \/ IsLeader /\ StoreInfo /\ ~peerReady /\ Fail
       \/ /\ IsLeader /\ StoreInfo /\ peerReady
          /\ Update([hook EXCEPT !.bag.openfga =
                       [store |-> remote.openfga.store,
                        complete |-> remote.openfga.complete,
                        model |-> IF @ = None THEN None ELSE @.model]], status[hook.unit])

\* _on_openfga_store_created: the stored record is replaced as a whole, so
\* that a model created earlier is forgotten.
OnOpenfgaStoreCreated ==
    /\ Current("openfga_changed")
    /\ \/ ~IsLeader /\ Ignore
       \/ IsLeader /\ ~StoreInfo /\ Ignore
       \/ IsLeader /\ StoreInfo /\ ~peerReady /\ Fail
       \/ /\ IsLeader /\ StoreInfo /\ peerReady
          /\ Update([hook EXCEPT !.bag.openfga =
                       [store |-> remote.openfga.store,
                        complete |-> remote.openfga.complete,
                        model |-> None]], status[hook.unit])

\* Mutant of OnOpenfgaBroken: the store is kept.
OnOpenfgaBrokenKept ==
    /\ Current("openfga_broken")
    /\ \/ ~IsLeader /\ Ignore
       \/ IsLeader /\ ~peerReady /\ Postpone
       \/ IsLeader /\ peerReady /\ Update(hook, status[hook.unit])

OnOpenfgaBroken ==
    /\ Current("openfga_broken")
    /\ \/ ~IsLeader /\ Ignore
       \/ IsLeader /\ ~peerReady /\ Postpone
       \/ /\ IsLeader /\ peerReady
          /\ Update([hook EXCEPT !.bag.openfga = None], status[hook.unit])

\* The create-authorization-model action posts the model to the store of the
\* databag; the request may fail.  A model is named by the store it is in.
OnCreateAuthorizationModel ==
    /\ Current("create_model")
    /\ \/ IsLeader /\ ~peerReady /\ Fail
       \/ ~IsLeader /\ Ignore
       \/ IsLeader /\ peerReady /\ Ignore      \* no relation, or the post failed
       \/ /\ IsLeader /\ peerReady /\ hook.bag.openfga # None
          /\ Update([hook EXCEPT !.bag.openfga.model = hook.bag.openfga.store],
                    status[hook.unit])

(***************************************************************************)
(* s3_archival.py                                                          *)
(***************************************************************************)
\* _retrieve_s3_parameters finds no required parameter missing.
BucketNamed ==
    Related(remote.s3, "s3_broken") /\ remote.s3.bucket # "missing"

\* The bucket is there or could be created, at the endpoint of its region.
BucketCreated == remote.s3.bucket = "created"

\* boto3 may raise what the handler does not catch, which is anything but
\* ClientError and ValueError: the endpoint cannot be reached, a created bucket
\* does not show up in time, a parameter is refused.
Unreachable == "endpoint" \in Disturbances

OnS3CredentialsChanged ==
    /\ Current("s3_changed")
    /\ \/ ~IsLeader /\ Ignore
       \/ IsLeader /\ ~BucketNamed /\ Ignore
       \/ IsLeader /\ BucketNamed /\ (~peerReady \/ Unreachable) /\ Fail
       \/ /\ IsLeader /\ BucketNamed /\ peerReady
          /\ Update([hook EXCEPT !.bag.s3 =
                       [cred |-> remote.s3.cred,
                        bucket_created |-> BucketCreated]],
                    status[hook.unit])

\* Mutant of OnS3CredentialsGone: the bucket's parameters are kept.
OnS3CredentialsKept ==
    /\ Current("s3_broken")
    /\ \/ ~IsLeader /\ Ignore
       \/ IsLeader /\ ~peerReady /\ Fail
       \/ IsLeader /\ peerReady /\ Update(hook, status[hook.unit])

OnS3CredentialsGone ==
    /\ Current("s3_broken")
    /\ \/ ~IsLeader /\ Ignore
       \/ IsLeader /\ ~peerReady /\ Fail
       \/ /\ IsLeader /\ peerReady
          /\ Update([hook EXCEPT !.bag.s3 = None], status[hook.unit])

RelationStep ==
    \/ OnDatabaseChanged
    \/ OnDatabaseBroken
    \/ OnAdminJoinedOrDatabaseChanged
    \/ OnAdminChanged
    \/ OnSchemaChanged
    \/ OnUiJoined
    \/ OnOpenfgaStoreCreated
    \/ OnOpenfgaBroken
    \/ OnCreateAuthorizationModel
    \/ OnS3CredentialsChanged
    \/ OnS3CredentialsGone
=============================================================================
