------------------------------ MODULE AuthRules ------------------------------
(***************************************************************************)
(* The rule actions of relations/openfga.py, run on several units at once  *)
(* against the stores of one OpenFGA server.  Every call of the server is  *)
(* a step: a listing makes several, and rules come and go in between.      *)
(* check-auth-rule and actions that fail change nothing anywhere.          *)
(*                                                                         *)
(* "user:<name>" and "group:<name>#member" are a model value each.         *)
(***************************************************************************)
EXTENDS Outside, Sequences, FiniteSetsExt

CONSTANTS
    Callers,      \* units that run actions
    Stores,       \* the stores of the server
    RuleUsers,
    RuleGroups,
    Namespaces,
    RoleNames,    \* what may be given as a role
    AllowedRoles, \* ALLOWED_OFGA_ROLES: each role implies those after it
    AdminGroups,  \* auth-admin-groups
    Empty,        \* a parameter that is given but empty
    PageSize      \* how many rules the server returns at once

ASSUME RulesAssumption ==
    AllowedRoles \in Seq(RoleNames) /\ AdminGroups \in Seq(RuleGroups)

VARIABLES
    connected,  \* the store in state.openfga, None if it is empty
    rules,      \* per store, its tuples
    listing     \* per caller, its listing in progress or last finished

ruleVars == <<connected, rules, listing, changes>>

Member  == "member"
Allowed == {AllowedRoles[i] : i \in DOMAIN AllowedRoles}
Tuples  == [subject : RuleUsers, relation : {Member}, object : RuleGroups]
           \cup [subject : RuleGroups, relation : RoleNames, object : Namespaces]

(***************************************************************************)
(* Whether rules come or go while a listing runs is recorded, for the      *)
(* properties only: always is what there was to list from the beginning    *)
(* to the end, ever what there was at some time.  A listing with nothing   *)
(* left to do has finished.                                                *)
(***************************************************************************)
NoListing == [store |-> None, queries |-> << >>, todo |-> << >>, found |-> {},
              always |-> {}, ever |-> {}]

(***************************************************************************)
(* OpenFGA with temporal_auth_model.json.                                  *)
(***************************************************************************)
Subjects(s, rs) == {s} \cup {g \in RuleGroups : \E t \in rs :
                               t.subject = s /\ t.relation = Member /\ t.object = g}

\* What list_objects says of a subject and a relation.
Objects(s, r, rs) ==
    {o \in RuleGroups \cup Namespaces : \E t \in rs :
        /\ t.object = o
        /\ \/ t.subject = s /\ t.relation = r
           \/ /\ t.subject \in Subjects(s, rs)
              /\ \E i, j \in DOMAIN AllowedRoles :
                    i <= j /\ t.relation = AllowedRoles[i] /\ r = AllowedRoles[j]}

\* All there is to answer to a query.
Matching(q, rs) ==
    IF q.op = "read" THEN {t \in rs : t.object = q.about}
    ELSE {[subject |-> q.about, relation |-> q.relation, object |-> o] :
            o \in Objects(q.about, q.relation, rs)}

\* A read returns one page, and a continuation token if there is more.
Pages(q, rs) ==
    IF q.op = "read" /\ Cardinality(Matching(q, rs)) > PageSize
    THEN kSubset(PageSize, Matching(q, rs))
    ELSE {Matching(q, rs)}

More(q, rs) == q.op = "read" /\ Cardinality(Matching(q, rs)) > PageSize

(***************************************************************************)
(* Parameters of an action; one that is not given is None.                 *)
(***************************************************************************)
Params ==
    [user : RuleUsers \cup {None, Empty}, group : RuleGroups \cup {None, Empty},
     namespace : Namespaces \cup {None, Empty}, role : RoleNames \cup {None}]

Given(params) == {key \in DOMAIN params : params[key] # None}
Truthy(param) == param \notin {None, Empty}

(***************************************************************************)
(* add-auth-rule and remove-auth-rule: one call, refused by the server if  *)
(* the rule is malformed, there already, or not there.                     *)
(***************************************************************************)
\* Mutant of RuleAccepted: the role is not looked at.
AnyRoleAccepted(params) ==
    Given(params) \in {{"user", "group"}, {"group", "namespace", "role"}}

RuleAccepted(params) ==
    /\ Given(params) \in {{"user", "group"}, {"group", "namespace", "role"}}
    /\ Truthy(params.user) \/ params.role \in Allowed

RuleOf(params) ==
    IF Truthy(params.user)
    THEN [subject |-> params.user, relation |-> Member, object |-> params.group]
    ELSE [subject |-> params.group, relation |-> params.role, object |-> params.namespace]

\* All there is to answer to some queries.
Answers(qs, rs) == UNION {Matching(qs[i], rs) : i \in DOMAIN qs}

\* The rules of the store that state.openfga names become rs.
ChangeRules(rs) ==
    /\ rules' = [rules EXCEPT ![connected] = rs]
    /\ listing' = [c \in Callers |->
                     IF listing[c].store # connected \/ listing[c].todo = << >> THEN listing[c]
                     ELSE [listing[c] EXCEPT !.always = @ \cap Answers(listing[c].queries, rs),
                                             !.ever = @ \cup Answers(listing[c].queries, rs)]]
    /\ UNCHANGED connected

AddAuthRule(params) ==
    /\ Change
    /\ connected # None
    /\ RuleAccepted(params)
    /\ RuleOf(params) \in Tuples \ rules[connected]
    /\ ChangeRules(rules[connected] \cup {RuleOf(params)})

RemoveAuthRule(params) ==
    /\ Change
    /\ connected # None
    /\ RuleAccepted(params)
    /\ RuleOf(params) \in rules[connected]
    /\ ChangeRules(rules[connected] \ {RuleOf(params)})

(***************************************************************************)
(* list-auth-rule and list-system-admins.                                  *)
(***************************************************************************)
Query(op, about, relation) == [op |-> op, about |-> about, relation |-> relation]

RoleQueries(about) ==
    [i \in DOMAIN AllowedRoles |-> Query("list", about, AllowedRoles[i])]

\* An empty user or group is not refused: the namespace, which is None, is read.
QueriesOf(params) ==
    IF Truthy(params.user)
    THEN <<Query("list", params.user, Member)>> \o RoleQueries(params.user)
    ELSE IF Truthy(params.group) THEN RoleQueries(params.group)
    ELSE <<Query("read", params.namespace, None)>>

AdminQueries == [i \in DOMAIN AdminGroups |-> Query("read", AdminGroups[i], None)]

\* What openfga_data was when the action began is used to its end.
Begin(c, queries) ==
    /\ connected # None
    /\ listing[c].todo = << >>
    /\ listing' = [listing EXCEPT ![c] =
                     [store |-> connected, queries |-> queries, todo |-> queries, found |-> {},
                      always |-> Answers(queries, rules[connected]),
                      ever |-> Answers(queries, rules[connected])]]
    /\ UNCHANGED <<connected, rules>>

ListAuthRule(c, params) ==
    /\ Change
    /\ Given(params) \in {{"user"}, {"group"}, {"namespace"}}
    /\ Begin(c, QueriesOf(params))

ListSystemAdmins(c) == Change /\ Begin(c, AdminQueries)

\* Mutant of Remaining: the continuation token is not looked at.
NextQuery(q, todo, rs) == Tail(todo)

\* The loop goes on while there is a continuation token, but the token is not
\* passed: the next read returns the first page again.
Remaining(q, todo, rs) == IF More(q, rs) THEN todo ELSE Tail(todo)

\* One call of the server; pages add up.
PerformCall(c) ==
    LET l == listing[c]
        q == Head(l.todo)
    IN  /\ l.todo # << >>
        /\ \E page \in Pages(q, rules[l.store]) :
              listing' = [listing EXCEPT ![c].found = @ \cup page,
                                         ![c].todo = Remaining(q, @, rules[l.store])]
        /\ UNCHANGED <<connected, rules, changes>>

\* An ApiException: the action fails.
CallFails(c) ==
    /\ Change
    /\ listing[c].todo # << >>
    /\ listing' = [listing EXCEPT ![c] = NoListing]
    /\ UNCHANGED <<connected, rules>>

\* The store of state.openfga is set, replaced or removed, by another unit.
Connect(s) ==
    /\ Change
    /\ connected # s
    /\ connected' = s
    /\ UNCHANGED <<rules, listing>>

\* The store may hold rules from before.
RuleInit ==
    /\ connected \in Stores
    /\ \E ts \in SUBSET {t \in Tuples : t.relation \in Allowed \cup {Member}} :
          /\ Cardinality(ts) <= PageSize
          /\ rules = [s \in Stores |-> IF s = connected THEN ts ELSE {}]
    /\ listing = [c \in Callers |-> NoListing]

RuleNext ==
    \/ \E params \in Params : AddAuthRule(params)
    \/ \E params \in Params : RemoveAuthRule(params)
    \/ \E c \in Callers, params \in Params : ListAuthRule(c, params)
    \/ \E c \in Callers : ListSystemAdmins(c)
    \/ \E c \in Callers : PerformCall(c)
    \/ \E c \in Callers : CallFails(c)
    \/ \E s \in Stores \cup {None} : Connect(s)

RuleSpec == RuleInit /\ changes = MaxChanges /\ [][RuleNext]_ruleVars

Facts == [subject : RuleUsers \cup RuleGroups, relation : RoleNames \cup {Member},
          object : RuleGroups \cup Namespaces]

RuleTypeOK ==
    /\ connected \in Stores \cup {None}
    /\ rules \in [Stores -> SUBSET Tuples]
    /\ \A c \in Callers :
          /\ listing[c].store \in Stores \cup {None}
          /\ listing[c].found \in SUBSET Facts
          /\ listing[c].always \in SUBSET Facts
          /\ listing[c].ever \in SUBSET Facts
          /\ \E n \in 0..Len(listing[c].queries) :
                listing[c].todo = SubSeq(listing[c].queries, n + 1, Len(listing[c].queries))

(***************************************************************************)
(* Properties.                                                             *)
(***************************************************************************)
\* A listing that has finished shows every rule that applied all the time it
\* ran and none that never did, although it takes several calls, rules come
\* and go in between, and the relation may move to another store.
ListingRegular ==
    \A c \in Callers : listing[c].todo = << >> =>
        listing[c].always \subseteq listing[c].found /\ listing[c].found \subseteq listing[c].ever

\* Listing a namespace never meets a role that it has no key for: whatever
\* add-auth-rule was given, it wrote no such rule.
ListingHasKeys ==
    \A c \in Callers : \A t \in listing[c].found : t.relation \in Allowed \cup {Member}
=============================================================================
