--------------------------- MODULE ConvergenceProofs ---------------------------
(***************************************************************************)
(* What holds of the charm once everything has been delivered, for any     *)
(* units, configurations and offers, while the lease stays where it is.    *)
(***************************************************************************)
EXTENDS TemporalCharmProofs

(***************************************************************************)
(* Sequences of notices.                                                   *)
(***************************************************************************)
\* What is in a sequence is its head or in its tail.
LEMMA TailFacts ==
    ASSUME NEW S, NEW s \in Seq(S), s # << >>
    PROVE  \A n : Contains(s, n) <=> n = Head(s) \/ Contains(Tail(s), n)
<1>1. Len(s) \in Nat /\ Len(s) # 0 /\ Head(s) = s[1]
  OBVIOUS
<1>2. /\ Len(Tail(s)) = Len(s) - 1
      /\ \A i \in 1..Len(Tail(s)) : Tail(s)[i] = s[i + 1]
  OBVIOUS
<1> TAKE n
<1>3. ASSUME Contains(s, n), n # Head(s)
      PROVE  Contains(Tail(s), n)
  <2>1. PICK i \in 1..Len(s) : s[i] = n
    BY <1>3 DEF Contains
  <2>2. i # 1 /\ i - 1 \in 1..Len(Tail(s)) /\ (i - 1) + 1 = i
    BY <1>1, <1>2, <1>3, <2>1
  <2>3. Tail(s)[i - 1] = n
    BY <1>2, <2>1, <2>2
  <2> QED
    BY <2>2, <2>3 DEF Contains
<1>4. n = Head(s) => Contains(s, n)
  <2>1. 1 \in 1..Len(s)
    BY <1>1
  <2> QED
    BY <1>1, <2>1 DEF Contains
<1>5. ASSUME Contains(Tail(s), n)
      PROVE  Contains(s, n)
  <2>1. PICK i \in 1..Len(Tail(s)) : Tail(s)[i] = n
    BY <1>5 DEF Contains
  <2>2. i + 1 \in 1..Len(s) /\ s[i + 1] = n
    BY <1>1, <1>2, <2>1
  <2> QED
    BY <2>2 DEF Contains
<1> QED
  BY <1>3, <1>4, <1>5

\* What is in a concatenation is in one of its parts.
LEMMA ConcatFacts ==
    ASSUME NEW S, NEW s \in Seq(S), NEW t \in Seq(S)
    PROVE  \A n : Contains(s \o t, n) <=> Contains(s, n) \/ Contains(t, n)
<1> DEFINE c == s \o t
<1>1. /\ Len(s) \in Nat /\ Len(t) \in Nat /\ Len(c) = Len(s) + Len(t)
      /\ \A i \in 1..Len(s) : c[i] = s[i]
      /\ \A i \in 1..Len(t) : c[i + Len(s)] = t[i]
  BY ConcatProperties
<1> HIDE DEF c
<1> SUFFICES \A n : Contains(c, n) <=> Contains(s, n) \/ Contains(t, n)
  BY DEF c
<1> TAKE n
<1>2. ASSUME Contains(c, n)
      PROVE  Contains(s, n) \/ Contains(t, n)
  <2>1. PICK i \in 1..Len(c) : c[i] = n
    BY <1>2 DEF Contains
  <2>2. CASE i \in 1..Len(s)
    BY <1>1, <2>1, <2>2 DEF Contains
  <2>3. CASE i \notin 1..Len(s)
    <3>1. i - Len(s) \in 1..Len(t) /\ (i - Len(s)) + Len(s) = i
      BY <1>1, <2>1, <2>3
    <3>2. t[i - Len(s)] = n
      BY <1>1, <2>1, <3>1
    <3> QED
      BY <3>1, <3>2 DEF Contains
  <2> QED
    BY <2>2, <2>3
<1>3. ASSUME Contains(s, n)
      PROVE  Contains(c, n)
  <2>1. PICK i \in 1..Len(s) : s[i] = n
    BY <1>3 DEF Contains
  <2>2. i \in 1..Len(c) /\ c[i] = n
    BY <1>1, <2>1
  <2> QED
    BY <2>2 DEF Contains
<1>4. ASSUME Contains(t, n)
      PROVE  Contains(c, n)
  <2>1. PICK i \in 1..Len(t) : t[i] = n
    BY <1>4 DEF Contains
  <2>2. i + Len(s) \in 1..Len(c) /\ c[i + Len(s)] = n
    BY <1>1, <2>1
  <2> QED
    BY <2>2 DEF Contains
<1> QED
  BY <1>2, <1>3, <1>4

\* One notice, and none.
LEMMA OneFacts ==
    ASSUME NEW x
    PROVE  \A n : /\ Contains(<<x>>, n) <=> n = x
                  /\ ~Contains(<< >>, n)
<1>1. Len(<<x>>) = 1 /\ <<x>>[1] = x /\ Len(<< >>) = 0
  OBVIOUS
<1>2. 1..1 = {1} /\ 1..0 = {}
  OBVIOUS
<1> QED
  BY <1>1, <1>2 DEF Contains

\* Keeping a notice adds it to those kept.
LEMMA AppendFacts ==
    ASSUME NEW S, NEW s \in Seq(S), NEW x \in S
    PROVE  \A n : Contains(Append(s, x), n) <=> Contains(s, n) \/ n = x
<1>1. <<x>> \in Seq(S)
  OBVIOUS
<1>2. Append(s, x) = s \o <<x>>
  OBVIOUS
<1>3. \A n : Contains(s \o <<x>>, n) <=> Contains(s, n) \/ Contains(<<x>>, n)
  BY <1>1, ConcatFacts
<1>4. \A n : Contains(<<x>>, n) <=> n = x
  BY OneFacts
<1> QED
  BY <1>2, <1>3, <1>4

(***************************************************************************)
(* What one handler does.  h is the dispatch as the handler has buffered   *)
(* it, before it returns.                                                  *)
(***************************************************************************)
\* The queues, the unit and the event of a dispatch are those of g.
Same(g, h) ==
    /\ h \in HookType
    /\ h.unit = g.unit
    /\ h.event = g.event
    /\ h.todo = g.todo
    /\ h.kept = g.kept

\* Nothing is lost from the queues but the notice handled, and nothing else
\* is kept; the one notice a handler adds is that of the schema.
Passed ==
    /\ hook' \in HookType
    /\ hook'.unit = hook.unit
    /\ hook'.event = hook.event
    /\ \A n : Contains(hook.todo, n) => Contains(hook'.todo, n) \/ n = Head(hook.todo)
    /\ \A n : Contains(hook'.todo, n) => Contains(hook.todo, n) \/ n.handler = "schema_changed"
    /\ \A n : Contains(hook.kept, n) => Contains(hook'.kept, n)
    /\ \A n : Contains(hook'.kept, n) => Contains(hook.kept, n) \/ n = Head(hook.todo)

Handling == Head(hook.todo).handler
Leading  == leader = hook.unit

\* Only the leader changes what the application shares.
Follows(h) == ~Leading => h.bag = hook.bag /\ h.pub = hook.pub /\ h.ports = hook.ports

\* Connections are dropped, or recorded from the relations as they are.
Recorded(h) ==
    /\ \A r \in DBs : \/ h.bag.conn[r] \in {None, hook.bag.conn[r]}
                      \/ Readable(r) /\ h.bag.conn[r] = ConnOf(r)
    /\ ~peerReady => h.bag.conn = hook.bag.conn
    /\ Handling = "database_changed" /\ Leading /\ peerReady =>
          \A r \in DBs : Readable(r) => h.bag.conn[r] = ConnOf(r)

\* The admin charm is told of all connections, or none are new to it.
Informs(h) ==
    DatabasesConnected(h.bag) /\ Related(remote.admin, "admin_broken") =>
        h.pub.admin = h.bag.conn

Uninformed(h) ==
    /\ h.pub.admin = hook.pub.admin
    /\ h.bag.conn = hook.bag.conn \/ ~DatabasesConnected(h.bag)

\* A handler that ends in _update.
Updated(h) ==
    LET u == hook.unit IN
    \/ ~Valid(h.bag) /\ UNCHANGED plan /\ status'[u] = "blocked"
    \/ /\ ~up[u]
       /\ UNCHANGED plan
       /\ status'[u] \in {status[u], "waiting"}
       /\ Leading => h.ports = ServicePorts(config.services)
    \/ /\ Valid(h.bag)
       /\ Leading => h.bag.shards # None /\ h.ports = ServicePorts(config.services)
       /\ plan' = [plan EXCEPT ![u] = PlanOf(h.bag)]
       /\ status'[u] = "maintenance"

\* What update-status may record when it plans nothing: a port that moved.
PortRecorded(h) ==
    /\ Leading
    /\ Valid(hook.bag)
    /\ Valid(h.bag)
    /\ plan[hook.unit] # None
    /\ hook.bag.shards # None /\ h.bag # hook.bag =>
          \E r \in DBs : /\ Readable(r)
                         /\ hook.bag.conn[r] # None
                         /\ hook.bag.conn[r].port # remote.db[r].conn.port

\* A handler that does not: no such handler is that of an event whose handler
\* always does.
Aside(h) ==
    LET u == hook.unit IN
    /\ UNCHANGED plan
    /\ h.ports = hook.ports
    /\ \/ h.bag = hook.bag
       \/ PortRecorded(h)
       \/ ~Valid(hook.bag) /\ ~Valid(h.bag)
    /\ Handling = "config_changed" => "sans-dns" \in config.bad /\ status'[u] = "blocked"
    /\ Handling # "pebble_ready"
    /\ Handling = "peer_changed" => Leading
    /\ Handling \in {"database_changed", "database_broken"} /\ Leading => ~peerReady
    /\ \/ status'[u] \in {status[u], "blocked", "maintenance"}
       \/ Valid(h.bag) /\ plan[u] # None
       \/ Handling = "restart"

\* A handler that returns or defers.
Goes ==
    /\ Passed
    /\ Follows(hook')
    /\ Recorded(hook')
    /\ Leading => \/ Informs(hook')
                  \/ /\ Uninformed(hook')
                     /\ Handling = "admin_joined" => Contains(hook'.kept, Head(hook.todo))
    /\ Updated(hook') \/ Aside(hook')

\* Any handler, one that raises included.
Handled ==
    /\ hook' # None => Goes /\ UNCHANGED failed
    /\ hook' = None => /\ Raise
                       /\ status'[hook.unit] \in {status[hook.unit], "waiting", "maintenance"}
    /\ \A u \in Units : u # hook.unit => status'[u] = status[u]

(***************************************************************************)
(* The operators the handlers are built from.                              *)
(***************************************************************************)
\* Pinning does nothing but give the leader's databag a missing count.
LEMMA PinnedFacts ==
    ASSUME config \in ConfigType, NEW h \in HookType
    PROVE  LET p == Pinned(h) IN
           /\ Same(h, p)
           /\ p.pub = h.pub /\ p.ports = h.ports /\ p.bag.conn = h.bag.conn
           /\ leader # h.unit \/ h.bag.shards # None => p = h
           /\ Valid(p.bag) <=> Valid(h.bag)
           /\ Valid(h.bag) /\ leader = h.unit => p.bag.shards # None
<1> DEFINE pins == /\ PassesFirstChecks /\ h.bag.shards = None
                   /\ ShardsAccepted(h.bag) /\ leader = h.unit
<1>1. CASE ~pins
  <2>1. Pinned(h) = h
    BY <1>1 DEF Pinned
  <2>2. Valid(h.bag) /\ leader = h.unit => h.bag.shards # None
    BY <1>1 DEF Valid
  <2> QED
    BY <2>1, <2>2 DEF Same
<1>2. CASE pins
  <2> DEFINE p == Pinned(h)
  <2>1. p = [h EXCEPT !.bag.shards = config.shards] /\ config.shards # None
    BY <1>2 DEF Pinned, ShardsAccepted
  <2>2. p \in HookType
    BY PinnedType
  <2>3. /\ Same(h, p) /\ p.pub = h.pub /\ p.ports = h.ports
        /\ p.bag = [h.bag EXCEPT !.shards = config.shards]
    BY <2>1, <2>2 DEF Same, HookType
  <2>4. /\ p.bag.shards = config.shards /\ p.bag.conn = h.bag.conn
        /\ p.bag.schema_ready = h.bag.schema_ready
        /\ p.bag.openfga = h.bag.openfga /\ p.bag.s3 = h.bag.s3
    BY <2>3 DEF HookType, StateType
  <2> HIDE DEF p
  <2>5. Valid(p.bag) <=> Valid(h.bag)
    <3>1. ShardsAccepted(p.bag) /\ ShardsAccepted(h.bag)
      BY <1>2, <2>1, <2>4 DEF ShardsAccepted
    <3> QED
      BY <2>4, <3>1 DEF Valid, DatabasesConnected, AuthorizationReady, ArchivalReady
  <2> QED
    BY <1>2, <2>1, <2>3, <2>4, <2>5 DEF p
<1> QED
  BY <1>1, <1>2

\* Opening ports changes the leader's ports.
LEMMA PortsFacts ==
    ASSUME config \in ConfigType, NEW h \in HookType
    PROVE  LET q == PortsOpened(h) IN
           /\ Same(h, q)
           /\ q.pub = h.pub /\ q.bag = h.bag
           /\ q.ports = IF leader = h.unit THEN ServicePorts(config.services) ELSE h.ports
<1>1. PortsOpened(h) \in HookType
  BY PortsType
<1> QED
  BY <1>1 DEF PortsOpened, Same, HookType

\* Telling the admin charm changes what the leader publishes to it.
LEMMA DbInfoFacts ==
    ASSUME NEW h \in HookType
    PROVE  LET q == DbInfoProvided(h) IN
           /\ Same(h, q)
           /\ q.bag = h.bag /\ q.ports = h.ports
           /\ leader = h.unit => Informs(q)
           /\ leader # h.unit => q = h
<1> DEFINE q == DbInfoProvided(h)
<1>1. q \in HookType
  BY DbInfoType
<1>2. Same(h, q) /\ q.bag = h.bag /\ q.ports = h.ports
  BY <1>1 DEF DbInfoProvided, Same, HookType
<1>3. /\ leader = h.unit /\ DatabasesConnected(h.bag) /\ Related(remote.admin, "admin_broken") =>
            q.pub.admin = h.bag.conn
      /\ leader # h.unit => q = h
  BY DEF DbInfoProvided, HookType, PubType
<1> HIDE DEF q
<1>4. leader = h.unit => Informs(q)
  BY <1>2, <1>3 DEF Informs
<1> QED
  BY <1>2, <1>3, <1>4 DEF q

\* Telling the UI charm changes nothing else.
LEMMA ServerStatusFacts ==
    ASSUME NEW h \in HookType, NEW s
    PROVE  LET q == ServerStatusProvided(h, s) IN
           /\ Same(h, q)
           /\ q.bag = h.bag /\ q.ports = h.ports /\ q.pub.admin = h.pub.admin
<1>1. ServerStatusProvided(h, s) \in HookType
  BY ServerStatusType
<1> QED
  BY <1>1 DEF ServerStatusProvided, Same, HookType, PubType

\* Recording the connections of every readable relation, and telling the admin
\* charm.
LEMMA ConnsFacts ==
    ASSUME config \in ConfigType, remote \in RemoteType, NEW h \in HookType
    PROVE  LET q == ConnsRecorded(h) IN
           /\ Same(h, q)
           /\ q.ports = h.ports
           /\ q.bag = [h.bag EXCEPT !.conn = [r \in DBs |-> IF Readable(r) THEN ConnOf(r) ELSE @[r]]]
           /\ q = h \/ (leader = h.unit => Informs(q))
<1>1. \A r \in DBs : ConnOf(r) \in Conn
  BY DEF ConnOf, RemoteType, ConfigType, Conn
<1> DEFINE b == [h.bag EXCEPT !.conn = [r \in DBs |-> IF Readable(r) THEN ConnOf(r) ELSE @[r]]]
           g == [h EXCEPT !.bag = b]
<1>2. b \in StateType
  BY <1>1 DEF StateType, Conns, HookType
<1>3. ASSUME \A r \in DBs : ~Readable(r)
      PROVE  b = h.bag
  <2>1. h.bag \in StateType /\ h.bag.conn \in [DBs -> Conn \cup {None}]
    BY DEF HookType, StateType, Conns
  <2>2. [r \in DBs |-> IF Readable(r) THEN ConnOf(r) ELSE h.bag.conn[r]] = h.bag.conn
    BY <1>3, <2>1
  <2> QED
    BY <2>1, <2>2 DEF StateType
<1> HIDE DEF b
<1>4. Same(h, g) /\ g.ports = h.ports /\ g.bag = b
  BY <1>2 DEF HookType, Same
<1>5. /\ Same(g, DbInfoProvided(g)) /\ DbInfoProvided(g).bag = g.bag
      /\ DbInfoProvided(g).ports = g.ports /\ (leader = g.unit => Informs(DbInfoProvided(g)))
  <2> HIDE DEF g
  <2> QED
    BY <1>4, DbInfoFacts DEF Same
<1>6. CASE \E r \in DBs : Readable(r)
  <2>1. ConnsRecorded(h) = DbInfoProvided(g)
    BY <1>6 DEF ConnsRecorded, b
  <2> HIDE DEF g
  <2> QED
    BY <1>4, <1>5, <2>1 DEF Same, b
<1>7. CASE ~\E r \in DBs : Readable(r)
  <2>1. ConnsRecorded(h) = h
    BY <1>7 DEF ConnsRecorded
  <2> QED
    BY <1>3, <1>7, <2>1 DEF Same, b
<1> QED
  BY <1>6, <1>7

(***************************************************************************)
(* How a handler ends.                                                     *)
(***************************************************************************)
\* Returning takes the notice off the queue.
LEMMA ReturnPasses ==
    ASSUME hook \in HookType, hook.todo # << >>, NEW h, Same(hook, h), Return(h)
    PROVE  Passed /\ hook'.bag = h.bag /\ hook'.pub = h.pub /\ hook'.ports = h.ports
<1>1. hook' \in HookType
  BY ReturnType DEF Same
<1>2. /\ hook'.unit = hook.unit /\ hook'.event = hook.event
      /\ hook'.todo = Tail(hook.todo) /\ hook'.kept = hook.kept
      /\ hook'.bag = h.bag /\ hook'.pub = h.pub /\ hook'.ports = h.ports
  BY DEF Return, Same, HookType
<1>3. \A n : Contains(hook.todo, n) <=> n = Head(hook.todo) \/ Contains(Tail(hook.todo), n)
  BY TailFacts DEF HookType
<1> QED
  BY <1>1, <1>2, <1>3 DEF Passed

\* Deferring also keeps it.
LEMMA DeferPasses ==
    ASSUME hook \in HookType, hook.todo # << >>, NEW h, Same(hook, h), Defer(h)
    PROVE  /\ Passed /\ hook'.bag = h.bag /\ hook'.pub = h.pub /\ hook'.ports = h.ports
           /\ Contains(hook'.kept, Head(hook.todo))
<1>1. hook' \in HookType
  BY DeferType DEF Same
<1>2. /\ hook'.unit = hook.unit /\ hook'.event = hook.event
      /\ hook'.todo = Tail(hook.todo) /\ hook'.kept = Append(hook.kept, Head(hook.todo))
      /\ hook'.bag = h.bag /\ hook'.pub = h.pub /\ hook'.ports = h.ports
  BY DEF Defer, Same, HookType
<1>3. \A n : Contains(hook.todo, n) <=> n = Head(hook.todo) \/ Contains(Tail(hook.todo), n)
  BY TailFacts DEF HookType
<1>4. Head(hook.todo) \in NoticeType
  BY HeadTailProperties DEF HookType
<1>5. \A n : Contains(hook'.kept, n) <=> Contains(hook.kept, n) \/ n = Head(hook.todo)
  BY <1>2, <1>4, AppendFacts DEF HookType
<1> QED
  BY <1>1, <1>2, <1>3, <1>5 DEF Passed

\* Setting the status sets that of the unit only.
LEMMA StatusFacts ==
    ASSUME TypeOK, hook \in HookType, NEW s, SetStatus(s)
    PROVE  /\ status'[hook.unit] = s
           /\ \A u \in Units : u # hook.unit => status'[u] = status[u]
  BY DEF SetStatus, TypeOK, HookType

\* An exception ends the dispatch.
LEMMA RaiseHandled ==
    ASSUME TypeOK, hook \in HookType, Raise,
           \/ UNCHANGED status
           \/ SetStatus("waiting") \/ SetStatus("maintenance")
           \/ SetStatus(status[hook.unit])
    PROVE  Handled
<1>1. hook' = None
  BY DEF Raise
<1> QED
  BY <1>1, StatusFacts DEF Handled, TypeOK, HookType

\* What a handler ends with is what it has buffered.
Ends(h, d) == d.bag = h.bag /\ d.pub = h.pub /\ d.ports = h.ports

\* What holds of the buffered dispatch holds of the one it leaves.
LEMMA EndsFacts ==
    ASSUME NEW h, NEW d, Ends(h, d)
    PROVE  /\ Follows(h) => Follows(d)
           /\ Recorded(h) => Recorded(d)
           /\ Informs(h) => Informs(d)
           /\ Uninformed(h) => Uninformed(d)
           /\ Updated(h) => Updated(d)
           /\ Aside(h) => Aside(d)
  BY DEF Ends, Follows, Recorded, Informs, Uninformed, Updated, Aside, PortRecorded

\* _update at the end of a handler.
LEMMA UpdateHandled ==
    ASSUME TypeOK, hook \in HookType, hook.todo # << >>,
           NEW h, Same(hook, h), Follows(h), Recorded(h),
           Leading => Informs(h) \/ (Uninformed(h) /\ Handling # "admin_joined"),
           NEW s, s \in {status[hook.unit], "waiting"}, Update(h, s)
    PROVE  Handled
<1> DEFINE p == Pinned(h)
           q == PortsOpened(p)
<1>1. /\ Same(h, p) /\ p.pub = h.pub /\ p.ports = h.ports /\ p.bag.conn = h.bag.conn
      /\ ~Leading => p = h
      /\ Valid(p.bag) <=> Valid(h.bag)
      /\ Valid(h.bag) /\ Leading => p.bag.shards # None
  BY PinnedFacts DEF Same, TypeOK, Leading
<1>2. Follows(p) /\ Recorded(p)
  BY <1>1 DEF Follows, Recorded
<1>3. (Informs(h) => Informs(p)) /\ (Uninformed(h) => Uninformed(p))
  BY <1>1 DEF Informs, Uninformed, DatabasesConnected
<1> HIDE DEF p
<1>4. /\ Same(p, q) /\ q.pub = p.pub /\ q.bag = p.bag
      /\ q.ports = IF Leading THEN ServicePorts(config.services) ELSE p.ports
  BY <1>1, PortsFacts DEF Same, TypeOK, Leading
<1> HIDE DEF q
<1>5. Follows(q) /\ Recorded(q)
  BY <1>2, <1>4 DEF Follows, Recorded
<1>6. (Informs(h) => Informs(q)) /\ (Uninformed(h) => Uninformed(q))
  BY <1>3, <1>4 DEF Informs, Uninformed
<1>7. Same(hook, p) /\ Same(hook, q) /\ h.unit = hook.unit
  BY <1>1, <1>4 DEF Same
<1>8. CASE Raise /\ SetStatus(s)
  BY <1>8, RaiseHandled
<1>9. CASE ~Valid(h.bag) /\ Return(p) /\ SetStatus("blocked") /\ UNCHANGED plan
  <2>1. Passed /\ Ends(p, hook')
    BY <1>7, <1>9, ReturnPasses DEF Ends
  <2>2. Updated(p)
    BY <1>1, <1>9, StatusFacts DEF Updated
  <2> QED
    BY <1>2, <1>3, <1>9, <2>1, <2>2, EndsFacts, StatusFacts, NoneAssumption
       DEF Handled, Goes, Passed, Return
<1>10. CASE ~up[h.unit] /\ Defer(q) /\ SetStatus(s) /\ UNCHANGED plan
  <2>1. Passed /\ Ends(q, hook')
    BY <1>7, <1>10, DeferPasses DEF Ends
  <2>2. Updated(q)
    BY <1>4, <1>7, <1>10, StatusFacts DEF Updated
  <2> QED
    BY <1>5, <1>6, <1>10, <2>1, <2>2, EndsFacts, StatusFacts, NoneAssumption
       DEF Handled, Goes, Passed, Defer
<1>11. CASE /\ Valid(h.bag) /\ Return(q) /\ SetStatus("maintenance")
            /\ plan' = [plan EXCEPT ![h.unit] = PlanOf(p.bag)]
  <2>1. Passed /\ Ends(q, hook')
    BY <1>7, <1>11, ReturnPasses DEF Ends
  <2>2. Updated(q)
    BY <1>1, <1>4, <1>7, <1>11, StatusFacts DEF Updated
  <2> QED
    BY <1>5, <1>6, <1>11, <2>1, <2>2, EndsFacts, StatusFacts, NoneAssumption
       DEF Handled, Goes, Passed, Return
<1> QED
  BY <1>8, <1>9, <1>10, <1>11 DEF Update, p, q

\* A handler that goes on or defers without an update.
LEMMA AsideHandled ==
    ASSUME TypeOK, hook \in HookType, hook.todo # << >>,
           NEW h, Same(hook, h), Follows(h), Recorded(h), Aside(h),
           Return(h) \/ Defer(h),
           Leading => \/ Informs(h)
                      \/ Uninformed(h) /\ (Handling # "admin_joined" \/ Defer(h)),
           \A u \in Units : u # hook.unit => status'[u] = status[u]
    PROVE  Handled
<1>1. Passed /\ Ends(h, hook') /\ (Defer(h) => Contains(hook'.kept, Head(hook.todo)))
  BY ReturnPasses, DeferPasses DEF Ends
<1>2. hook' # None
  BY <1>1, NoneAssumption DEF Passed
<1> QED
  BY <1>1, <1>2, EndsFacts DEF Handled, Goes, Return, Defer

\* A handler that leaves the dispatch as it is.
LEMMA NothingBuffered ==
    ASSUME hook \in HookType
    PROVE  /\ Same(hook, hook) /\ Follows(hook) /\ Uninformed(hook)
           /\ Handling # "database_changed" \/ ~Leading \/ ~peerReady => Recorded(hook)
  BY DEF Same, Follows, Uninformed, Recorded

\* The events whose handlers always end in _update.
Bound == {"config_changed", "pebble_ready", "peer_changed",
          "database_changed", "database_broken"}

\* A handler that returns early or defers.
LEMMA EarlyHandled ==
    ASSUME TypeOK, hook \in HookType, hook.todo # << >>, Ignore \/ Postpone,
           Handling \in Bound =>
              \/ Handling = "peer_changed" /\ Leading
              \/ Handling \in {"database_changed", "database_broken"} /\ (~Leading \/ ~peerReady),
           Leading /\ Handling = "admin_joined" => Postpone
    PROVE  Handled
<1>1. /\ Same(hook, hook) /\ Follows(hook) /\ Uninformed(hook) /\ Recorded(hook)
  BY NothingBuffered DEF Bound
<1>2. (Return(hook) \/ Defer(hook)) /\ UNCHANGED <<status, plan>> /\ (Postpone => Defer(hook))
  BY DEF Ignore, Postpone
<1>3. Aside(hook)
  BY <1>2 DEF Aside, Bound
<1> QED
  BY <1>1, <1>2, <1>3, AsideHandled

\* A leader's handler that changes the databag and then updates.
LEMMA BagHandled ==
    ASSUME TypeOK, hook \in HookType, hook.todo # << >>, Leading, peerReady,
           Handling \notin {"database_changed", "admin_joined"},
           NEW b \in StateType,
           \A r \in DBs : b.conn[r] \in {None, hook.bag.conn[r]},
           b.conn = hook.bag.conn \/ ~DatabasesConnected(b),
           NEW s, s \in {status[hook.unit], "waiting"},
           Update([hook EXCEPT !.bag = b], s)
    PROVE  Handled
<1> DEFINE h == [hook EXCEPT !.bag = b]
<1>1. Same(hook, h) /\ h.bag = b /\ h.pub = hook.pub
  BY DEF HookType, Same
<1> HIDE DEF h
<1>2. Follows(h) /\ Recorded(h) /\ Uninformed(h)
  BY <1>1 DEF Follows, Recorded, Uninformed
<1> QED
  BY <1>1, <1>2, UpdateHandled DEF h


\* Another handler than those that always end in _update, which returns with
\* nothing changed but what it publishes.
LEMMA PublishHandled ==
    ASSUME TypeOK, hook \in HookType, hook.todo # << >>, Handling \notin Bound,
           NEW h, Same(hook, h), h.bag = hook.bag, h.ports = hook.ports,
           Leading \/ h = hook,
           Informs(h) \/ (h.pub.admin = hook.pub.admin /\ Handling # "admin_joined"),
           Return(h), UNCHANGED <<status, plan>>
    PROVE  Handled
<1>1. Follows(h) /\ Recorded(h) /\ Aside(h)
  BY DEF Follows, Recorded, Aside, Bound
<1>2. Informs(h) \/ (Uninformed(h) /\ Handling # "admin_joined")
  BY DEF Uninformed
<1> QED
  BY <1>1, <1>2, AsideHandled

\* A handler that only the leader runs to the end, and only with a peer
\* relation.
LEMMA LeaderOnlyHandled ==
    ASSUME TypeOK, hook \in HookType, hook.todo # << >>,
           \/ ~IsLeader /\ Ignore
           \/ IsLeader /\ ~peerReady /\ Postpone,
           Handling \notin {"config_changed", "pebble_ready", "peer_changed"}
    PROVE  Handled
  BY EarlyHandled DEF Bound, IsLeader, Leading

\* What the handlers of the relations do.
LEMMA RelationHandled ==
    ASSUME TypeOK, RelationStep, ~OnAdminChanged
    PROVE  Handled
<1>1. /\ hook \in HookType /\ hook.todo # << >>
      /\ Head(hook.todo) \in NoticeType
      /\ hook.bag \in StateType
      /\ \A n : Current(n) => Handling = n
  <2>1. \E n : Current(n)
    BY DEF RelationStep, OnDatabaseChanged, OnDatabaseBroken,
       OnAdminJoinedOrDatabaseChanged, OnAdminChanged, OnSchemaChanged,
       OnUiJoined, OnOpenfgaStoreCreated, OnOpenfgaBroken,
       OnCreateAuthorizationModel, OnS3CredentialsChanged, OnS3CredentialsGone
  <2> QED
    BY <2>1, CurrentType DEF HookType, Current, Handling
<1>2. IsLeader <=> Leading
  BY DEF IsLeader, Leading
<1>3. Fail => Handled
  BY <1>1, RaiseHandled DEF Fail
<1>4. CASE OnDatabaseChanged
  <2> DEFINE h == ConnsRecorded(hook)
  <2>1. Handling = "database_changed"
    BY <1>1, <1>4 DEF OnDatabaseChanged
  <2>2. CASE IsLeader /\ peerReady /\ Update(h, "waiting")
    <3>1. /\ Same(hook, h)
          /\ h.bag = [hook.bag EXCEPT !.conn = [r \in DBs |-> IF Readable(r) THEN ConnOf(r) ELSE @[r]]]
          /\ h = hook \/ (leader = hook.unit => Informs(h))
      BY <1>1, ConnsFacts DEF TypeOK
    <3>2. \A r \in DBs : h.bag.conn[r] = IF Readable(r) THEN ConnOf(r) ELSE hook.bag.conn[r]
      BY <1>1, <3>1 DEF StateType
    <3> HIDE DEF h
    <3>3. Recorded(h)
      BY <2>2, <3>2 DEF Recorded
    <3>4. Follows(h) /\ (Informs(h) \/ Uninformed(h))
      BY <1>1, <1>2, <2>2, <3>1, NothingBuffered DEF Follows, Leading
    <3> QED
      BY <1>1, <2>1, <2>2, <3>1, <3>3, <3>4, UpdateHandled
  <2> QED
    BY <1>1, <1>4, <2>1, <2>2, LeaderOnlyHandled DEF OnDatabaseChanged
<1>5. CASE OnDatabaseBroken
  <2> DEFINE b == [hook.bag EXCEPT !.conn[Head(hook.todo).arg] = None]
  <2>1. b \in StateType
    BY <1>1 DEF StateType, Conns
  <2>2. [hook EXCEPT !.bag.conn[Head(hook.todo).arg] = None] = [hook EXCEPT !.bag = b]
    BY <1>1 DEF HookType
  <2>3. /\ \A r \in DBs : b.conn[r] \in {None, hook.bag.conn[r]}
        /\ b.conn = hook.bag.conn \/ ~DatabasesConnected(b)
    <3>1. b.conn = [hook.bag.conn EXCEPT ![Head(hook.todo).arg] = None]
      BY <1>1 DEF StateType
    <3>2. hook.bag.conn \in [DBs -> Conn \cup {None}]
      BY <1>1 DEF StateType, Conns
    <3> HIDE DEF b
    <3> QED
      BY <3>1, <3>2 DEF DatabasesConnected
  <2>4. Handling = "database_broken"
    BY <1>1, <1>5 DEF OnDatabaseBroken
  <2> HIDE DEF b
  <2> QED
    BY <1>1, <1>2, <1>5, <2>1, <2>2, <2>3, <2>4, BagHandled, LeaderOnlyHandled
       DEF OnDatabaseBroken
<1>6. CASE OnAdminJoinedOrDatabaseChanged
  <2> DEFINE h == DbInfoProvided(hook)
  <2>1. Handling \in {"admin_joined", "admin_database_changed"}
    BY <1>1, <1>6 DEF OnAdminJoinedOrDatabaseChanged
  <2>2. Same(hook, h) /\ h.bag = hook.bag /\ h.ports = hook.ports /\ (Leading => Informs(h))
    BY <1>1, DbInfoFacts DEF Leading
  <2> HIDE DEF h
  <2>3. CASE IsLeader /\ Return(h) /\ UNCHANGED <<status, plan>>
    BY <1>1, <1>2, <2>1, <2>2, <2>3, PublishHandled DEF Bound
  <2>4. CASE ~peerReady /\ Postpone
    BY <1>1, <2>1, <2>4, EarlyHandled DEF Bound
  <2>5. CASE ~IsLeader /\ Ignore
    BY <1>1, <2>1, <2>5, LeaderOnlyHandled
  <2> QED
    BY <1>6, <2>3, <2>4, <2>5 DEF OnAdminJoinedOrDatabaseChanged, h
<1>7. CASE OnSchemaChanged
  <2> DEFINE b == [hook.bag EXCEPT !.schema_ready = Head(hook.todo).arg = "ready"]
  <2>1. b \in StateType /\ b.conn = hook.bag.conn
    BY <1>1 DEF StateType
  <2>2. [hook EXCEPT !.bag.schema_ready = Head(hook.todo).arg = "ready"]
          = [hook EXCEPT !.bag = b]
    BY <1>1 DEF HookType
  <2> HIDE DEF b
  <2>3. Handling = "schema_changed"
    BY <1>1, <1>7 DEF OnSchemaChanged
  <2>4. CASE ~IsLeader /\ Raise /\ SetStatus("waiting")
    BY <1>1, <2>4, RaiseHandled
  <2>5. CASE ~peerReady /\ Postpone
    BY <1>1, <2>3, <2>5, EarlyHandled DEF Bound
  <2> QED
    BY <1>1, <1>2, <1>7, <2>1, <2>2, <2>3, <2>4, <2>5, BagHandled DEF OnSchemaChanged
<1>8. CASE OnUiJoined
  <2> DEFINE h == ServerStatusProvided(hook, status[hook.unit])
  <2>1. Handling = "ui_joined"
    BY <1>1, <1>8 DEF OnUiJoined
  <2>2. /\ Same(hook, h) /\ h.bag = hook.bag /\ h.ports = hook.ports
        /\ h.pub.admin = hook.pub.admin
    BY <1>1, ServerStatusFacts
  <2> HIDE DEF h
  <2> QED
    BY <1>1, <1>2, <1>8, <2>1, <2>2, PublishHandled, LeaderOnlyHandled
       DEF OnUiJoined, h, Bound
<1>9. CASE OnOpenfgaStoreCreated
  <2> DEFINE o == [store |-> remote.openfga.store,
                   complete |-> remote.openfga.complete, model |-> None]
             b == [hook.bag EXCEPT !.openfga = o]
  <2>1. o \in OpenfgaType
    BY DEF TypeOK, RemoteType, OpenfgaType
  <2> HIDE DEF o
  <2>2. b \in StateType /\ b.conn = hook.bag.conn
    BY <1>1, <2>1 DEF StateType
  <2>3. [hook EXCEPT !.bag.openfga = o] = [hook EXCEPT !.bag = b]
    BY <1>1 DEF HookType
  <2> HIDE DEF b
  <2>4. Handling = "openfga_changed"
    BY <1>1, <1>9 DEF OnOpenfgaStoreCreated
  <2>5. CASE Ignore
    BY <1>1, <2>4, <2>5, EarlyHandled DEF Bound
  <2> QED
    BY <1>1, <1>2, <1>3, <1>9, <2>2, <2>3, <2>4, <2>5, BagHandled
       DEF OnOpenfgaStoreCreated, o
<1>10. CASE OnOpenfgaBroken
  <2> DEFINE b == [hook.bag EXCEPT !.openfga = None]
  <2>1. b \in StateType /\ b.conn = hook.bag.conn
    BY <1>1 DEF StateType
  <2>2. [hook EXCEPT !.bag.openfga = None] = [hook EXCEPT !.bag = b]
    BY <1>1 DEF HookType
  <2> HIDE DEF b
  <2>3. Handling = "openfga_broken"
    BY <1>1, <1>10 DEF OnOpenfgaBroken
  <2> QED
    BY <1>1, <1>2, <1>10, <2>1, <2>2, <2>3, BagHandled, LeaderOnlyHandled
       DEF OnOpenfgaBroken
<1>11. CASE OnCreateAuthorizationModel
  <2> DEFINE b == [hook.bag EXCEPT !.openfga.model = hook.bag.openfga.store]
  <2>0. Handling = "create_model"
    BY <1>1, <1>11 DEF OnCreateAuthorizationModel
  <2>1. ASSUME IsLeader, peerReady, hook.bag.openfga # None,
               Update([hook EXCEPT !.bag = b], status[hook.unit])
        PROVE  Handled
    <3>1. hook.bag.openfga \in OpenfgaType
      BY <1>1, <2>1 DEF StateType
    <3>2. b \in StateType /\ b.conn = hook.bag.conn
      BY <1>1, <3>1 DEF StateType, OpenfgaType
    <3> HIDE DEF b
    <3> QED
      BY <1>1, <1>2, <2>0, <2>1, <3>2, BagHandled
  <2>2. [hook EXCEPT !.bag.openfga.model = hook.bag.openfga.store]
          = [hook EXCEPT !.bag = b]
    BY <1>1 DEF HookType
  <2> HIDE DEF b
  <2>3. CASE Ignore
    BY <1>1, <2>0, <2>3, EarlyHandled DEF Bound
  <2> QED
    BY <1>3, <1>11, <2>1, <2>2, <2>3 DEF OnCreateAuthorizationModel
<1>12. CASE OnS3CredentialsChanged
  <2> DEFINE o == [cred |-> remote.s3.cred,
                   bucket_created |-> BucketCreated]
             b == [hook.bag EXCEPT !.s3 = o]
  <2>1. o \in S3Type
    BY DEF TypeOK, RemoteType, S3Type, BucketCreated
  <2> HIDE DEF o
  <2>2. b \in StateType /\ b.conn = hook.bag.conn
    BY <1>1, <2>1 DEF StateType
  <2>3. [hook EXCEPT !.bag.s3 = o] = [hook EXCEPT !.bag = b]
    BY <1>1 DEF HookType
  <2> HIDE DEF b
  <2>4. Handling = "s3_changed"
    BY <1>1, <1>12 DEF OnS3CredentialsChanged
  <2>5. CASE Ignore
    BY <1>1, <2>4, <2>5, EarlyHandled DEF Bound
  <2> QED
    BY <1>1, <1>2, <1>3, <1>12, <2>2, <2>3, <2>4, <2>5, BagHandled
       DEF OnS3CredentialsChanged, o
<1>13. CASE OnS3CredentialsGone
  <2> DEFINE b == [hook.bag EXCEPT !.s3 = None]
  <2>1. b \in StateType /\ b.conn = hook.bag.conn
    BY <1>1 DEF StateType
  <2>2. [hook EXCEPT !.bag.s3 = None] = [hook EXCEPT !.bag = b]
    BY <1>1 DEF HookType
  <2> HIDE DEF b
  <2>3. Handling = "s3_broken"
    BY <1>1, <1>13 DEF OnS3CredentialsGone
  <2>4. CASE Ignore
    BY <1>1, <2>3, <2>4, EarlyHandled DEF Bound
  <2> QED
    BY <1>1, <1>2, <1>3, <1>13, <2>1, <2>2, <2>3, <2>4, BagHandled
       DEF OnS3CredentialsGone
<1> QED
  BY <1>4, <1>5, <1>6, <1>7, <1>8, <1>9, <1>10, <1>11, <1>12, <1>13
     DEF RelationStep

\* The admin charm's change becomes a notice of its own.
LEMMA AdminChangedHandled ==
    ASSUME TypeOK, OnAdminChanged
    PROVE  Handled
<1>1. /\ hook \in HookType /\ hook.todo # << >>
      /\ Handling = "admin_changed"
  BY CurrentType DEF OnAdminChanged, Current, Handling
<1>2. CASE Ignore
  BY <1>1, <1>2, EarlyHandled DEF Bound
<1> DEFINE n == Notice("schema_changed", remote.admin.schema_status)
           t == <<n>> \o Tail(hook.todo)
<1>3. CASE hook' = [hook EXCEPT !.todo = t] /\ UNCHANGED <<failed, status, plan>>
  <2>1. n \in NoticeType /\ n.handler = "schema_changed"
    BY NoticeInType DEF TypeOK, RemoteType, Handlers, Notice
  <2> HIDE DEF n
  <2>2. <<n>> \in Seq(NoticeType) /\ Tail(hook.todo) \in Seq(NoticeType)
    BY <1>1, <2>1, HeadTailProperties DEF HookType
  <2>3. /\ t \in Seq(NoticeType)
        /\ \A m : Contains(t, m) <=> m = n \/ Contains(Tail(hook.todo), m)
    <3>1. t \in Seq(NoticeType)
      BY <2>2, ConcatProperties
    <3>2. \A m : Contains(t, m) <=> Contains(<<n>>, m) \/ Contains(Tail(hook.todo), m)
      BY <2>2, ConcatFacts
    <3>3. \A m : Contains(<<n>>, m) <=> m = n
      BY OneFacts
    <3> QED
      BY <3>1, <3>2, <3>3
  <2>4. \A m : Contains(hook.todo, m) <=> m = Head(hook.todo) \/ Contains(Tail(hook.todo), m)
    BY <1>1, TailFacts DEF HookType
  <2> HIDE DEF t
  <2>5. /\ hook' \in HookType /\ hook'.todo = t
        /\ hook'.unit = hook.unit /\ hook'.event = hook.event /\ hook'.kept = hook.kept
        /\ Ends(hook, hook')
    BY <1>1, <1>3, <2>3 DEF HookType, Ends
  <2>6. Passed
    BY <2>1, <2>3, <2>4, <2>5 DEF Passed
  <2>7. Follows(hook) /\ Uninformed(hook) /\ Recorded(hook) /\ Aside(hook)
    BY <1>1, <1>3, NothingBuffered DEF Aside
  <2>8. hook' # None
    BY <2>5, NoneAssumption
  <2> QED
    BY <1>1, <1>3, <2>5, <2>6, <2>7, <2>8, EndsFacts DEF Handled, Goes
<1> QED
  BY <1>2, <1>3 DEF OnAdminChanged

\* Where update-status finds nothing to replan, all it records is a port.
LEMMA OnlyPortsMove ==
    ASSUME TypeOK, hook \in HookType, Leading,
           NEW v \in HookType, v.bag.conn = hook.bag.conn, Valid(v.bag), Valid(hook.bag),
           hook.bag.shards # None => v = hook,
           plan[hook.unit] # None, ~ShouldReplan(v.bag)
    PROVE  PortRecorded(ConnsRecorded(v))
<1> DEFINE h == ConnsRecorded(v)
           c == [r \in DBs |-> IF Readable(r) THEN ConnOf(r) ELSE v.bag.conn[r]]
<1>1. h.bag = [v.bag EXCEPT !.conn = [r \in DBs |-> IF Readable(r) THEN ConnOf(r) ELSE @[r]]]
  BY ConnsFacts DEF TypeOK
<1>2. h.bag = [v.bag EXCEPT !.conn = c]
  BY <1>1
<1>3. /\ h.bag.conn = c
      /\ h.bag.shards = v.bag.shards /\ h.bag.schema_ready = v.bag.schema_ready
      /\ h.bag.openfga = v.bag.openfga /\ h.bag.s3 = v.bag.s3
      /\ v.bag \in StateType
  BY <1>2 DEF HookType, StateType
<1> HIDE DEF h
<1>4. \A r \in DBs : ConnOf(r) \in Conn /\ ConnOf(r).port = remote.db[r].conn.port
  <2> SUFFICES ASSUME NEW r \in DBs
               PROVE  ConnOf(r) \in Conn /\ ConnOf(r).port = remote.db[r].conn.port
    OBVIOUS
  <2> DEFINE k == remote.db[r].conn
             x == k.tls \/ config.db_tls
  <2>1. k \in Conn /\ x \in BOOLEAN
    BY DEF TypeOK, RemoteType, ConfigType
  <2>2. ConnOf(r) = [k EXCEPT !.tls = x]
    BY DEF ConnOf
  <2> HIDE DEF k, x
  <2>3. ConnOf(r) \in Conn /\ ConnOf(r).port = k.port
    BY <2>1, <2>2 DEF Conn
  <2> QED
    BY <2>3 DEF k
<1>5. Valid(h.bag)
  <2>1. \A r \in DBs : h.bag.conn[r] # None
    BY <1>3, <1>4, NoneAssumption DEF Valid, DatabasesConnected
  <2> QED
    BY <1>3, <2>1 DEF Valid, DatabasesConnected, ShardsAccepted, AuthorizationReady,
       ArchivalReady
<1>6. ASSUME hook.bag.shards # None, h.bag # hook.bag
      PROVE  \E r \in DBs : /\ Readable(r)
                            /\ hook.bag.conn[r] # None
                            /\ hook.bag.conn[r].port # remote.db[r].conn.port
  <2>1. v.bag = hook.bag /\ v.bag.conn \in [DBs -> Conn \cup {None}]
    BY <1>3, <1>6 DEF StateType, Conns
  <2>2. c # v.bag.conn
    BY <1>2, <1>3, <1>6, <2>1 DEF StateType
  <2>3. PICK r \in DBs : c[r] # v.bag.conn[r]
    BY <2>1, <2>2
  <2>4. Readable(r) /\ ConnOf(r) # v.bag.conn[r]
    BY <2>3
  <2>5. ~ConnDiffers(v.bag, r)
    BY <2>4 DEF ShouldReplan
  <2>6. /\ v.bag.conn[r] \in Conn
        /\ v.bag.conn[r].host = ConnOf(r).host
        /\ v.bag.conn[r].cred = ConnOf(r).cred
        /\ v.bag.conn[r].tls = ConnOf(r).tls
    BY <2>1, <2>5 DEF ConnDiffers, ReplanFields
  <2>7. v.bag.conn[r].port # ConnOf(r).port
    BY <1>4, <2>4, <2>6 DEF Conn
  <2> QED
    BY <1>4, <2>1, <2>4, <2>6, <2>7, NoneAssumption
<1> QED
  BY <1>5, <1>6 DEF PortRecorded, h

\* update-status.
LEMMA UpdateStatusHandled ==
    ASSUME TypeOK, OnUpdateStatus
    PROVE  Handled
<1>1. /\ hook \in HookType /\ hook.todo # << >>
      /\ Handling = "update_status"
  BY CurrentType DEF OnUpdateStatus, Current, Handling
<1> DEFINE v == Pinned(hook)
           w == ConnsRecorded(v)
           h == IF IsLeader THEN w ELSE v
           g == ServerStatusProvided(h, "active")
<1>2. /\ Same(hook, v) /\ v.pub = hook.pub /\ v.ports = hook.ports
      /\ v.bag.conn = hook.bag.conn
      /\ ~Leading \/ hook.bag.shards # None => v = hook
      /\ Valid(v.bag) <=> Valid(hook.bag)
  BY <1>1, PinnedFacts DEF TypeOK, Leading
<1>3. Follows(v) /\ Recorded(v) /\ Uninformed(v)
  BY <1>1, <1>2 DEF Follows, Recorded, Uninformed
<1>4. v \in HookType /\ v.bag \in StateType
  BY <1>2 DEF Same, HookType
<1>5. Leading /\ Valid(hook.bag) /\ plan[hook.unit] # None /\ ~ShouldReplan(v.bag) =>
          PortRecorded(w)
  BY <1>1, <1>2, <1>4, OnlyPortsMove
<1> HIDE DEF v
<1>6. /\ Same(v, w) /\ w.ports = v.ports
      /\ \A r \in DBs : w.bag.conn[r] = IF Readable(r) THEN ConnOf(r) ELSE v.bag.conn[r]
      /\ w = v \/ (Leading => Informs(w))
  <2>1. /\ Same(v, w) /\ w.ports = v.ports
        /\ w.bag = [v.bag EXCEPT !.conn = [r \in DBs |-> IF Readable(r) THEN ConnOf(r) ELSE @[r]]]
        /\ w = v \/ (leader = v.unit => Informs(w))
    BY <1>4, ConnsFacts DEF TypeOK
  <2> HIDE DEF w
  <2> QED
    BY <1>2, <1>4, <2>1 DEF StateType, Same, Leading
<1> HIDE DEF w
<1>7. Valid(hook.bag) => peerReady
  BY DEF Valid, PassesFirstChecks
<1>8. Leading /\ Valid(hook.bag) => Follows(w) /\ Recorded(w) /\ (Informs(w) \/ Uninformed(w))
  BY <1>1, <1>2, <1>3, <1>6, <1>7 DEF Follows, Recorded
<1>9. /\ Same(hook, h) /\ h.ports = hook.ports
      /\ Valid(hook.bag) => Follows(h) /\ Recorded(h) /\ (Leading => Informs(h) \/ Uninformed(h))
  BY <1>2, <1>3, <1>6, <1>8 DEF Same, IsLeader, Leading
<1>10. CASE Fail
  BY <1>1, <1>10, RaiseHandled DEF Fail
<1>11. CASE ~Valid(hook.bag) /\ Return(v) /\ UNCHANGED <<status, plan>>
  <2>1. Aside(v)
    BY <1>1, <1>2, <1>11 DEF Aside
  <2> QED
    BY <1>1, <1>2, <1>3, <1>11, <2>1, AsideHandled
<1>12. CASE Valid(hook.bag) /\ Update(h, status[hook.unit])
  <2> HIDE DEF h
  <2> QED
    BY <1>1, <1>9, <1>12, UpdateHandled
<1>13. CASE /\ Valid(hook.bag)
            /\ ~(IsLeader /\ ShouldReplan(v.bag)) /\ plan[hook.unit] # None
            /\ \E healthy \in BOOLEAN : CheckUp(h, healthy)
            /\ UNCHANGED plan
  <2>1. h.bag = hook.bag \/ PortRecorded(h)
    BY <1>2, <1>5, <1>13 DEF IsLeader, Leading
  <2>2. Valid(h.bag)
    BY <1>13, <2>1 DEF PortRecorded
  <2>3. ~IsLeader => g.pub = g.pub /\ h.pub = h.pub
    OBVIOUS
  <2> HIDE DEF h
  <2>4. /\ Same(h, g) /\ g.bag = h.bag /\ g.ports = h.ports /\ g.pub.admin = h.pub.admin
    BY <1>9, ServerStatusFacts DEF Same
  <2> HIDE DEF g
  <2>5. ASSUME NEW d, d = h \/ (IsLeader /\ d = g), Return(d),
               \/ SetStatus("maintenance")
               \/ SetStatus("active")
        PROVE  Handled
    <3>1. Same(hook, d) /\ d.ports = hook.ports /\ d.bag = h.bag
      BY <1>9, <2>4, <2>5 DEF Same
    <3>2. Follows(d) /\ Recorded(d) /\ (Leading => Informs(d) \/ Uninformed(d))
      BY <1>9, <1>13, <2>4, <2>5
         DEF Follows, Recorded, Informs, Uninformed, IsLeader, Leading
    <3>3. /\ status'[hook.unit] \in {"maintenance", "active"}
          /\ \A u \in Units : u # hook.unit => status'[u] = status[u]
      BY <1>1, <2>5, StatusFacts
    <3>4. Aside(d)
      BY <1>1, <1>13, <2>1, <2>2, <3>1, <3>3 DEF Aside, PortRecorded
    <3> QED
      BY <1>1, <2>5, <3>1, <3>2, <3>3, <3>4, AsideHandled
  <2> QED
    BY <1>13, <2>5 DEF CheckUp, g
<1> QED
  BY <1>10, <1>11, <1>12, <1>13 DEF OnUpdateStatus, h, w, v

\* What the charm's own handlers do.
LEMMA LifecycleHandled ==
    ASSUME TypeOK, LifecycleStep
    PROVE  Handled
<1>1. /\ hook \in HookType /\ hook.todo # << >>
      /\ \A n : Current(n) => Handling = n
  <2>1. \E n : Current(n)
    BY DEF LifecycleStep, OnInstall, OnPebbleReady, OnConfigChanged,
       OnPeerRelationChanged, OnRestart, OnUpdateStatus
  <2> QED
    BY <2>1, CurrentType DEF Current, Handling
<1>2. /\ Same(hook, hook) /\ Follows(hook) /\ Uninformed(hook)
      /\ Handling # "database_changed" => Recorded(hook)
  BY <1>1, NothingBuffered
<1>3. \A s \in {status[hook.unit], "waiting"} :
          /\ Update(hook, s)
          /\ Handling \in {"config_changed", "pebble_ready", "peer_changed"}
          => Handled
  BY <1>1, <1>2, UpdateHandled
<1>4. CASE OnInstall
  <2>1. Handling = "install"
    BY <1>1, <1>4 DEF OnInstall
  <2>2. /\ Return(hook) /\ UNCHANGED plan
        /\ status'[hook.unit] \in {status[hook.unit], "maintenance"}
        /\ \A u \in Units : u # hook.unit => status'[u] = status[u]
    BY <1>1, <1>4, StatusFacts DEF OnInstall
  <2>3. Aside(hook)
    BY <2>1, <2>2 DEF Aside
  <2> QED
    BY <1>1, <1>2, <2>1, <2>2, <2>3, AsideHandled
<1>5. CASE OnPebbleReady
  BY <1>1, <1>3, <1>5 DEF OnPebbleReady
<1>6. CASE OnConfigChanged
  <2>1. Handling = "config_changed"
    BY <1>1, <1>6 DEF OnConfigChanged
  <2>2. CASE "sans-dns" \in config.bad /\ Return(hook) /\ SetStatus("blocked") /\ UNCHANGED plan
    <3>1. /\ status'[hook.unit] = "blocked"
          /\ \A u \in Units : u # hook.unit => status'[u] = status[u]
      BY <1>1, <2>2, StatusFacts
    <3>2. Aside(hook)
      BY <2>1, <2>2, <3>1 DEF Aside
    <3> QED
      BY <1>1, <1>2, <2>1, <2>2, <3>1, <3>2, AsideHandled
  <2> QED
    BY <1>3, <1>6, <2>1, <2>2 DEF OnConfigChanged
<1>7. CASE OnPeerRelationChanged
  <2>1. Handling = "peer_changed"
    BY <1>1, <1>7 DEF OnPeerRelationChanged
  <2>2. CASE IsLeader /\ Ignore
    BY <1>1, <2>1, <2>2, EarlyHandled DEF Bound, IsLeader, Leading
  <2> QED
    BY <1>3, <1>7, <2>1, <2>2 DEF OnPeerRelationChanged
<1>8. CASE OnRestart
  <2>1. Handling = "restart"
    BY <1>1, <1>8 DEF OnRestart
  <2>2. CASE Raise /\ SetStatus("maintenance")
    BY <1>1, <2>2, RaiseHandled
  <2>3. CASE Return(hook) /\ SetStatus("active") /\ UNCHANGED plan
    <3>1. \A u \in Units : u # hook.unit => status'[u] = status[u]
      BY <1>1, <2>3, StatusFacts
    <3>2. Aside(hook)
      BY <2>1, <2>3 DEF Aside
    <3> QED
      BY <1>1, <1>2, <2>1, <2>3, <3>1, <3>2, AsideHandled
  <2> QED
    BY <1>8, <2>2, <2>3 DEF OnRestart
<1> QED
  BY <1>4, <1>5, <1>6, <1>7, <1>8, UpdateStatusHandled DEF LifecycleStep

\* Whichever handler runs, this is what it does.
LEMMA HandleHandled ==
    ASSUME TypeOK, Handle
    PROVE  /\ Handled
           /\ hook \in HookType /\ hook.todo # << >>
           /\ UNCHANGED outside
<1>1. \E n : Current(n)
  BY DEF Handle, RelationStep, OnDatabaseChanged, OnDatabaseBroken,
     OnAdminJoinedOrDatabaseChanged, OnAdminChanged, OnSchemaChanged,
     OnUiJoined, OnOpenfgaStoreCreated, OnOpenfgaBroken,
     OnCreateAuthorizationModel, OnS3CredentialsChanged, OnS3CredentialsGone,
     LifecycleStep, OnInstall, OnPebbleReady, OnConfigChanged,
     OnPeerRelationChanged, OnRestart, OnUpdateStatus
<1> QED
  BY <1>1, CurrentType, RelationHandled, AdminChangedHandled, LifecycleHandled DEF Handle

(***************************************************************************)
(* What happens outside, while no dispatch is in progress: what may have   *)
(* become wrong is announced by an event still to be dispatched.  m, p and *)
(* q are what remote, pub and pending become.                              *)
(***************************************************************************)
ToAll(e, q) == \A u \in Units : e \in q[u]
Kept(E, q)  == \A u \in Units : \A e \in E : e \in pending[u] => e \in q[u]

\* The events nothing outside takes back.
Steady == {"config_changed", "peer_changed"} \cup {DbBroken[r] : r \in DBs}

\* A database is gone, or a move of its address is announced.
DbNews(r, m, q) ==
    \/ /\ ~m.db[r].alive
       /\ \A u \in Units : DbChanged[r] \in pending[u] =>
                               DbChanged[r] \in q[u] \/ DbBroken[r] \in q[u]
    \/ ToAll(DbChanged[r], q)
    \/ /\ remote.db[r].alive
       /\ m.db[r].conn.port = remote.db[r].conn.port
       /\ Kept({DbChanged[r]}, q)

\* The admin charm is gone, or new, or has what it had.
AdminNews(m, p, q) ==
    \/ ~m.admin.alive
    \/ ToAll("admin_joined", q)
    \/ /\ remote.admin.alive
       /\ p.admin = pub.admin
       /\ Kept({"admin_joined"}, q)

\* A container is as it was, is gone with its plan, or is announced.
ContainerNews(u) ==
    \/ up'[u] = up[u] /\ plan'[u] = plan[u]
    \/ ~up'[u] /\ plan'[u] = None
    \/ up'[u] /\ plan'[u] = plan[u] /\ "pebble_ready" \in pending'[u]

Announced ==
    /\ hook = None
    /\ UNCHANGED <<leader, bag, ports, deferred, failed, status, hook>>
    /\ peerReady => peerReady'
    /\ config' = config \/ ToAll("config_changed", pending')
    /\ Kept(Steady, pending')
    /\ \A u \in Units : /\ ContainerNews(u)
                        /\ "pebble_ready" \in pending[u] =>
                               "pebble_ready" \in pending'[u] \/ ~up'[u]
    /\ \A r \in DBs : DbNews(r, remote', pending')
    /\ AdminNews(remote', pub', pending')

\* Databases that publish what they did, with every event kept.
LEMMA NoDbNews ==
    ASSUME NEW m, NEW q, m.db = remote.db, Kept({DbChanged[r] : r \in DBs}, q)
    PROVE  \A r \in DBs : DbNews(r, m, q)
  BY DEF DbNews, Kept

\* Nothing new between the admin charm and the charm.
LEMMA NoAdminNews ==
    ASSUME NEW m, NEW p, NEW q, m.admin.alive = remote.admin.alive, p.admin = pub.admin,
           Kept({"admin_joined"}, q)
    PROVE  AdminNews(m, p, q)
  BY DEF AdminNews

\* Telling every unit of an event drops none.
LEMMA NotifyKeeps ==
    ASSUME NEW e, NEW E
    PROVE  Kept(E, Notify(e)) /\ ToAll(e, Notify(e))
  BY DEF Kept, ToAll, Notify

\* A broken relation drops its own.
LEMMA BrokenKeeps ==
    ASSUME NEW e, NEW E, NEW D, \A x \in E : x \notin D
    PROVE  Kept(E, NotifyBroken(D, e)) /\ ToAll(e, NotifyBroken(D, e))
  BY DEF Kept, ToAll, NotifyBroken

\* What a related application publishes.
LEMMA PublishAnnounced ==
    ASSUME TypeOK, NEW m, NEW p, NEW q, Publish(m, p, q),
           Kept(Steady \cup {"pebble_ready"}, q),
           \A r \in DBs : DbNews(r, m, q), AdminNews(m, p, q)
    PROVE  Announced
<1>1. Kept(Steady, q) /\ Kept({"pebble_ready"}, q)
  BY DEF Kept
<1>2. \A u \in Units : "pebble_ready" \in pending[u] => "pebble_ready" \in pending'[u]
  BY <1>1 DEF Kept, Publish
<1> QED
  BY <1>1, <1>2 DEF Publish, Announced, ContainerNews

\* The events of the databases and of the others.
LEMMA EventsApart ==
    /\ "pebble_ready" \notin {DbChanged[r] : r \in DBs}
    /\ \A r \in DBs : /\ DbChanged[r] \notin Steady \cup {"pebble_ready", "admin_joined"}
                      /\ DbBroken[r] \notin {"pebble_ready", "admin_joined"}
                      /\ \A s \in DBs : s # r => DbChanged[s] # DbChanged[r]
    /\ Steady = {"config_changed", "peer_changed", "db_broken", "visibility_broken"}
    /\ {DbChanged[r] : r \in DBs} = {"db_changed", "visibility_changed"}
<1>1. /\ DbChanged["db"] = "db_changed" /\ DbChanged["visibility"] = "visibility_changed"
      /\ DbBroken["db"] = "db_broken" /\ DbBroken["visibility"] = "visibility_broken"
  BY DEF DbChanged, DbBroken
<1>2. {DbBroken[r] : r \in DBs} = {"db_broken", "visibility_broken"}
  BY <1>1 DEF DBs
<1>3. {DbChanged[r] : r \in DBs} = {"db_changed", "visibility_changed"}
  BY <1>1 DEF DBs
<1> QED
  BY <1>1, <1>2, <1>3 DEF Steady, DBs

\* All the events an outside change may leave in place.
Watched == Steady \cup {"pebble_ready", "admin_joined"} \cup {DbChanged[r] : r \in DBs}

\* A change of another application that is not announced to the charm's
\* databases or admin handlers.
LEMMA ElsewhereAnnounced ==
    ASSUME TypeOK, NEW m, NEW p, NEW q, Publish(m, p, q), Kept(Watched, q),
           m.db = remote.db, m.admin.alive = remote.admin.alive, p.admin = pub.admin
    PROVE  Announced
<1>1. /\ Kept(Steady \cup {"pebble_ready"}, q) /\ Kept({"admin_joined"}, q)
      /\ Kept({DbChanged[r] : r \in DBs}, q)
  BY DEF Kept, Watched
<1> QED
  BY <1>1, NoDbNews, NoAdminNews, PublishAnnounced

\* Whatever the operator and the other applications do is announced.
LEMMA EnvironmentAnnounced ==
    ASSUME TypeOK, Environment
    PROVE  Announced
<1>0. Watched = {"config_changed", "peer_changed", "db_broken", "visibility_broken",
                 "pebble_ready", "admin_joined", "db_changed", "visibility_changed"}
  BY EventsApart DEF Watched
<1>1. ASSUME NEW c \in Configs, SetConfig(c)
      PROVE  Announced
  <2>1. /\ Kept(Watched, Notify("config_changed")) /\ ToAll("config_changed", Notify("config_changed"))
    BY NotifyKeeps
  <2>2. /\ Kept(Steady, pending') /\ Kept({"pebble_ready"}, pending')
        /\ Kept({"admin_joined"}, pending') /\ Kept({DbChanged[r] : r \in DBs}, pending')
        /\ ToAll("config_changed", pending')
    BY <1>1, <2>1 DEF SetConfig, Kept, Watched
  <2>3. /\ \A r \in DBs : DbNews(r, remote, pending')
        /\ AdminNews(remote, pub, pending')
    BY <2>2, NoDbNews, NoAdminNews
  <2>4. \A u \in Units : "pebble_ready" \in pending[u] => "pebble_ready" \in pending'[u]
    BY <2>2 DEF Kept, Watched
  <2>5. remote' = remote /\ pub' = pub
    BY <1>1 DEF SetConfig
  <2> QED
    BY <1>1, <2>2, <2>3, <2>4, <2>5 DEF SetConfig, Announced, ContainerNews
<1>2. ASSUME NEW r \in DBs, NEW c \in DbOffers, OfferDb(r, c)
      PROVE  Announced
  <2> DEFINE n == [alive |-> TRUE, conn |-> c]
             m == [remote EXCEPT !.db[r] = n]
             q == IF /\ remote.db[r].alive
                     /\ remote.db[r].conn.host = c.host
                     /\ remote.db[r].conn.port = c.port
                  THEN pending ELSE Notify(DbChanged[r])
  <2>1. Publish(m, pub, q)
    BY <1>2 DEF OfferDb
  <2>2. Kept(Watched, q)
    <3>1. Kept(Watched, pending) /\ Kept(Watched, Notify(DbChanged[r]))
      BY NotifyKeeps DEF Kept
    <3> QED
      BY <3>1
  <2>3. /\ Kept(Steady \cup {"pebble_ready"}, q) /\ Kept({"admin_joined"}, q)
        /\ \A s \in DBs : Kept({DbChanged[s]}, q)
    BY <2>2 DEF Kept, Watched
  <2>4. /\ m.admin = remote.admin
        /\ m.db = [remote.db EXCEPT ![r] = n]
    BY DEF TypeOK, RemoteType
  <2>5. /\ \A s \in DBs : s # r => m.db[s] = remote.db[s]
        /\ m.db[r].conn = c /\ m.db[r].alive
    <3> HIDE DEF m
    <3> QED
      BY <2>4 DEF TypeOK, RemoteType
  <2>6. ToAll(DbChanged[r], q) \/ (remote.db[r].alive /\ remote.db[r].conn.port = c.port)
    BY NotifyKeeps
  <2> HIDE DEF m, q, n
  <2>7. \A s \in DBs : DbNews(s, m, q)
    BY <2>3, <2>5, <2>6 DEF DbNews, Kept
  <2>8. AdminNews(m, pub, q)
    BY <2>3, <2>4, NoAdminNews
  <2> QED
    BY <2>1, <2>3, <2>7, <2>8, PublishAnnounced
<1>3. ASSUME NEW r \in DBs, RemoveDb(r)
      PROVE  Announced
  <2> DEFINE m == [remote EXCEPT !.db[r].alive = FALSE]
             q == NotifyBroken({DbChanged[r]}, DbBroken[r])
  <2>1. Publish(m, pub, q)
    BY <1>3 DEF RemoveDb
  <2>2. /\ Kept(Steady \cup {"pebble_ready"}, q) /\ Kept({"admin_joined"}, q)
        /\ \A s \in DBs : s # r => Kept({DbChanged[s]}, q)
        /\ ToAll(DbBroken[r], q)
    BY BrokenKeeps, EventsApart
  <2>3. m.admin = remote.admin
    BY DEF TypeOK, RemoteType
  <2>4. /\ \A s \in DBs : s # r => m.db[s] = remote.db[s]
        /\ ~m.db[r].alive
    <3>1. remote.db \in [DBs -> [alive : BOOLEAN, conn : Conn]]
      BY DEF TypeOK, RemoteType
    <3>2. m.db = [remote.db EXCEPT ![r].alive = FALSE]
      BY DEF TypeOK, RemoteType
    <3> HIDE DEF m
    <3>3. m.db[r] = [remote.db[r] EXCEPT !.alive = FALSE]
      BY <3>1, <3>2
    <3>4. ~m.db[r].alive
      BY <3>1, <3>3
    <3> QED
      BY <3>1, <3>2, <3>4
  <2> HIDE DEF m, q
  <2>5. \A s \in DBs : DbNews(s, m, q)
    BY <2>2, <2>4 DEF DbNews, Kept, ToAll
  <2>6. AdminNews(m, pub, q)
    BY <2>2, <2>3, NoAdminNews
  <2> QED
    BY <2>1, <2>2, <2>5, <2>6, PublishAnnounced
<1>4. CASE RelateAdmin
  <2> DEFINE m == [remote EXCEPT !.admin = [alive |-> TRUE, schema_status |-> "waiting"]]
             p == [pub EXCEPT !.admin = None]
             q == [u \in Units |-> pending[u] \cup {"admin_joined", "admin_changed"}]
  <2>1. Publish(m, p, q)
    BY <1>4 DEF RelateAdmin
  <2>2. Kept(Watched, q) /\ ToAll("admin_joined", q)
    BY DEF Kept, ToAll
  <2>3. m.db = remote.db
    BY DEF TypeOK, RemoteType
  <2> HIDE DEF m, p, q
  <2>4. /\ Kept(Steady \cup {"pebble_ready"}, q) /\ Kept({DbChanged[r] : r \in DBs}, q)
    BY <2>2 DEF Kept, Watched
  <2>5. \A s \in DBs : DbNews(s, m, q)
    BY <2>3, <2>4, NoDbNews
  <2> QED
    BY <2>1, <2>2, <2>4, <2>5, PublishAnnounced DEF AdminNews
<1>5. CASE AdminSetsUpSchema \/ AdminLosesSchema
  <2> DEFINE q == Notify("admin_changed")
  <2>1. PICK x \in {"ready", "waiting"} :
          Publish([remote EXCEPT !.admin.schema_status = x], pub, q)
    BY <1>5 DEF AdminSetsUpSchema, AdminLosesSchema
  <2>2. Kept(Watched, q)
    BY NotifyKeeps
  <2>3. /\ [remote EXCEPT !.admin.schema_status = x].db = remote.db
        /\ [remote EXCEPT !.admin.schema_status = x].admin.alive = remote.admin.alive
    BY DEF TypeOK, RemoteType
  <2> HIDE DEF q
  <2> QED
    BY <2>1, <2>2, <2>3, ElsewhereAnnounced
<1>6. CASE RemoveAdmin
  <2> DEFINE m == [remote EXCEPT !.admin = [alive |-> FALSE, schema_status |-> "waiting"]]
             q == NotifyBroken({"admin_joined", "admin_changed"}, "admin_broken")
  <2>1. Publish(m, pub, q)
    BY <1>6 DEF RemoveAdmin
  <2>2. /\ Kept(Steady \cup {"pebble_ready"}, q)
        /\ Kept({DbChanged[r] : r \in DBs}, q)
    BY BrokenKeeps, EventsApart
  <2>3. m.db = remote.db /\ ~m.admin.alive
    BY DEF TypeOK, RemoteType
  <2> HIDE DEF m, q
  <2>4. \A s \in DBs : DbNews(s, m, q)
    BY <2>2, <2>3, NoDbNews
  <2> QED
    BY <2>1, <2>2, <2>3, <2>4, PublishAnnounced DEF AdminNews
<1>7. CASE RelateUi \/ RemoveUi
  <2>1. PICK b \in BOOLEAN, p \in {pub, [pub EXCEPT !.ui = None]},
             q \in {Notify("ui_joined"), [u \in Units |-> pending[u] \ {"ui_joined"}]} :
          Publish([remote EXCEPT !.ui.alive = b], p, q)
    BY <1>7 DEF RelateUi, RemoveUi
  <2>2. Kept(Watched, q)
    <3>1. /\ Kept(Watched, Notify("ui_joined"))
          /\ Kept(Watched, [u \in Units |-> pending[u] \ {"ui_joined"}])
      BY <1>0, NotifyKeeps DEF Kept
    <3> QED
      BY <2>1, <3>1
  <2>3. /\ [remote EXCEPT !.ui.alive = b].db = remote.db
        /\ [remote EXCEPT !.ui.alive = b].admin = remote.admin
        /\ p.admin = pub.admin
    BY DEF TypeOK, RemoteType, PubType
  <2> QED
    BY <2>1, <2>2, <2>3, ElsewhereAnnounced
<1>8. ASSUME NEW s \in Stores, NEW c \in BOOLEAN, OfferStore(s, c)
      PROVE  Announced
  <2> DEFINE m == [remote EXCEPT !.openfga = [alive |-> TRUE, store |-> s, complete |-> c]]
             q == Notify("openfga_changed")
  <2>1. Publish(m, pub, q)
    BY <1>8 DEF OfferStore
  <2>2. Kept(Watched, q) /\ m.db = remote.db /\ m.admin = remote.admin
    BY NotifyKeeps DEF TypeOK, RemoteType
  <2> HIDE DEF m, q
  <2> QED
    BY <2>1, <2>2, ElsewhereAnnounced
<1>9. CASE RemoveStore
  <2> DEFINE m == [remote EXCEPT !.openfga.alive = FALSE]
             q == NotifyBroken({"openfga_changed"}, "openfga_broken")
  <2>1. Publish(m, pub, q)
    BY <1>9 DEF RemoveStore
  <2>2. Kept(Watched, q) /\ m.db = remote.db /\ m.admin = remote.admin
    BY <1>0, BrokenKeeps DEF TypeOK, RemoteType
  <2> HIDE DEF m, q
  <2> QED
    BY <2>1, <2>2, ElsewhereAnnounced
<1>10. ASSUME NEW c \in S3Creds, NEW b \in {"created", "refused", "missing"},
              OfferS3(c, b)
       PROVE  Announced
  <2> DEFINE m == [remote EXCEPT !.s3 = [alive |-> TRUE, cred |-> c, bucket |-> b]]
             q == Notify("s3_changed")
  <2>1. Publish(m, pub, q)
    BY <1>10 DEF OfferS3
  <2>2. Kept(Watched, q) /\ m.db = remote.db /\ m.admin = remote.admin
    BY NotifyKeeps DEF TypeOK, RemoteType
  <2> HIDE DEF m, q
  <2> QED
    BY <2>1, <2>2, ElsewhereAnnounced
<1>11. CASE RemoveS3
  <2> DEFINE m == [remote EXCEPT !.s3.alive = FALSE]
             q == NotifyBroken({"s3_changed"}, "s3_broken")
  <2>1. Publish(m, pub, q)
    BY <1>11 DEF RemoveS3
  <2>2. Kept(Watched, q) /\ m.db = remote.db /\ m.admin = remote.admin
    BY <1>0, BrokenKeeps DEF TypeOK, RemoteType
  <2> HIDE DEF m, q
  <2> QED
    BY <2>1, <2>2, ElsewhereAnnounced
<1> QED
  BY <1>1, <1>2, <1>3, <1>4, <1>5, <1>6, <1>7, <1>8, <1>9, <1>10, <1>11 DEF Environment

\* So is what happens to the peer relation and to containers.
LEMMA OutsideAnnounced ==
    ASSUME TypeOK, hook = None, Next, NEW u \in Units,
           \/ PeerRelationCreated \/ ContainerLost(u) \/ ContainerUp(u)
    PROVE  Announced
<1>1. remote' = remote /\ pub' = pub /\ config' = config
  BY DEF PeerRelationCreated, ContainerLost, ContainerUp
<1>2. /\ Kept(Steady, pending') /\ Kept({"admin_joined"}, pending')
      /\ Kept({DbChanged[r] : r \in DBs}, pending')
  <2>1. \A v \in Units : \A e \in pending[v] : e # "pebble_ready" => e \in pending'[v]
    <3>1. CASE PeerRelationCreated
      BY <3>1 DEF PeerRelationCreated, Notify
    <3>2. CASE ContainerLost(u)
      BY <3>2 DEF ContainerLost, TypeOK
    <3>3. CASE ContainerUp(u)
      BY <3>3 DEF ContainerUp, TypeOK
    <3> QED
      BY <3>1, <3>2, <3>3
  <2>2. "pebble_ready" \notin Steady
    BY EventsApart
  <2> QED
    BY <2>1, <2>2, EventsApart DEF Kept
<1>3. /\ \A r \in DBs : DbNews(r, remote', pending')
      /\ AdminNews(remote', pub', pending')
  BY <1>1, <1>2, NoDbNews, NoAdminNews
<1>4. \A v \in Units : /\ ContainerNews(v)
                       /\ "pebble_ready" \in pending[v] =>
                              "pebble_ready" \in pending'[v] \/ ~up'[v]
  BY DEF PeerRelationCreated, ContainerLost, ContainerUp, ContainerNews, Notify, TypeOK
<1> QED
  BY <1>1, <1>2, <1>3, <1>4
     DEF PeerRelationCreated, ContainerLost, ContainerUp, Announced

(***************************************************************************)
(* The steps of the specification, when the lease does not move.           *)
(***************************************************************************)
Started == \E u \in Units, e \in Events : Dispatch(u, e)

LeaderStays == "leader" \notin Disturbances
NoCrash     == "crash" \notin Disturbances /\ "endpoint" \notin Disturbances
NoRestarts  == "restart" \notin Disturbances

\* Every step starts a dispatch, goes on with one, ends one, or is outside.
LEMMA Steps ==
    ASSUME LeaderStays, TypeOK, Next
    PROVE  Started \/ Handle \/ SkipKept \/ Commit \/ Crash \/ Announced
<1>1. ASSUME NEW u \in Units,
             \/ DispatchPending(u) \/ DispatchRetry(u)
             \/ DispatchUpdateStatus(u) \/ Action(u)
      PROVE  Started
  <2>1. pending[u] \subseteq Events /\ (failed[u] # None => failed[u] \in Events)
    BY DEF TypeOK, Events
  <2> QED
    BY <1>1, <2>1 DEF DispatchPending, DispatchRetry, DispatchUpdateStatus,
       Action, DispatchAction, Events, ActionEvents, Started
<1>2. ASSUME NEW u \in Units, PeerRelationCreated \/ ContainerLost(u) \/ ContainerUp(u)
      PROVE  Announced
  <2>1. hook = None
    BY <1>2 DEF PeerRelationCreated, ContainerLost, ContainerUp
  <2> QED
    BY <1>2, <2>1, OutsideAnnounced
<1>3. PeerRelationCreated => Announced
  BY <1>2, UnitsAssumption
<1>4. \A u \in Units : ~ChangeLeader(u)
  BY DEF ChangeLeader, Disturb, LeaderStays
<1> QED
  BY <1>1, <1>2, <1>3, <1>4, EnvironmentAnnounced DEF Next

(***************************************************************************)
(* What is left to be handled in a dispatch.                               *)
(***************************************************************************)
\* The notice an event is handled by first.
First(e) == Observers(e)[1]

Told(s, e) == Contains(s, First(e))

\* The event will still be handled by the unit of the dispatch: in a later
\* dispatch, or in this one by a handler that has not deferred yet.
Left(e) ==
    \/ e \in pending[hook.unit] /\ hook.event # e
    \/ Told(hook.todo, e) /\ ~Told(hook.kept, e)

\* The first notice of an event is one of its observers.
LEMMA FirstFacts ==
    /\ \A e \in Watched : e \in Events /\ Contains(Observers(e), First(e))
    /\ \A e \in {"config_changed", "pebble_ready", "peer_changed", "admin_joined"} :
          First(e).handler = e
    /\ \A r \in DBs : /\ First(DbChanged[r]).handler = "database_changed"
                      /\ First(DbBroken[r]).handler = "database_broken"
    /\ "config_changed" \in Watched /\ "pebble_ready" \in Watched
    /\ "peer_changed" \in Watched /\ "admin_joined" \in Watched
    /\ \A r \in DBs : DbChanged[r] \in Watched /\ DbBroken[r] \in Watched
<1>1. /\ DbChanged["db"] = "db_changed" /\ DbChanged["visibility"] = "visibility_changed"
      /\ DbBroken["db"] = "db_broken" /\ DbBroken["visibility"] = "visibility_broken"
  BY DEF DbChanged, DbBroken
<1>2. Watched = {"config_changed", "peer_changed", "db_broken", "visibility_broken",
                 "pebble_ready", "admin_joined", "db_changed", "visibility_changed"}
  BY EventsApart DEF Watched
<1>3. ASSUME NEW e \in {"config_changed", "pebble_ready", "peer_changed", "admin_joined"}
      PROVE  Contains(Observers(e), First(e)) /\ First(e).handler = e
  <2> DEFINE n == Notice(e, "")
  <2>1. Observers(e) = <<n>> /\ n.handler = e
    BY DEF Observers, Notice
  <2> HIDE DEF n
  <2>2. First(e) = n
    BY <2>1 DEF First
  <2> QED
    BY <2>1, <2>2, OneFacts
<1>4. ASSUME NEW r \in DBs
      PROVE  /\ Contains(Observers(DbBroken[r]), First(DbBroken[r]))
             /\ First(DbBroken[r]).handler = "database_broken"
  <2> DEFINE n == Notice("database_broken", r)
  <2>1. Observers(DbBroken[r]) = <<n>> /\ n.handler = "database_broken"
    BY <1>1 DEF Observers, Notice, DBs
  <2> HIDE DEF n
  <2>2. First(DbBroken[r]) = n
    BY <2>1 DEF First
  <2> QED
    BY <2>1, <2>2, OneFacts
<1>5. ASSUME NEW r \in DBs
      PROVE  /\ Contains(Observers(DbChanged[r]), First(DbChanged[r]))
             /\ First(DbChanged[r]).handler = "database_changed"
  <2> DEFINE n == Notice("database_changed", r)
             m == Notice("admin_database_changed", r)
             s == <<n, m>>
  <2>1. Observers(DbChanged[r]) = s /\ n.handler = "database_changed"
    BY <1>1 DEF Observers, Notice, DBs
  <2> HIDE DEF n, m
  <2>2. s[1] = n /\ Len(s) = 2
    OBVIOUS
  <2>3. 1 \in 1..2
    OBVIOUS
  <2> HIDE DEF s
  <2>4. First(DbChanged[r]) = n
    BY <2>1, <2>2 DEF First
  <2>5. Contains(s, n)
    BY <2>2, <2>3 DEF Contains
  <2> QED
    BY <2>1, <2>4, <2>5
<1>6. Watched \subseteq Events
  BY <1>2 DEF Events, HookEvents
<1>7. ASSUME NEW e \in Watched
      PROVE  \/ e \in {"config_changed", "pebble_ready", "peer_changed", "admin_joined"}
             \/ \E r \in DBs : e = DbBroken[r] \/ e = DbChanged[r]
  BY <1>1, <1>2 DEF DBs
<1> QED
  BY <1>1, <1>2, <1>3, <1>4, <1>5, <1>6, <1>7 DEF DBs

\* A dispatch begins with the deferred notices and the event's own.
LEMMA StartFacts ==
    ASSUME TypeOK, NEW u \in Units, NEW e \in Events, Dispatch(u, e)
    PROVE  /\ hook = None /\ hook' \in HookType /\ hook' # None
           /\ hook'.unit = u /\ hook'.event = e
           /\ hook'.bag = bag /\ hook'.pub = pub /\ hook'.ports = ports[u]
           /\ hook'.kept = << >>
           /\ \A n : Contains(hook'.todo, n) <=>
                         Contains(deferred[u], n) \/ Contains(Observers(e), n)
           /\ UNCHANGED <<outside, failed, status, plan>>
<1>1. hook' \in HookType
  BY DispatchType
<1>2. deferred[u] \in Seq(NoticeType) /\ Observers(e) \in Seq(NoticeType)
  BY ObserversType DEF TypeOK
<1>3. hook'.todo = deferred[u] \o Observers(e)
  BY DEF Dispatch, NewHook
<1>4. \A n : Contains(hook'.todo, n) <=>
                 Contains(deferred[u], n) \/ Contains(Observers(e), n)
  BY <1>2, <1>3, ConcatFacts
<1> QED
  BY <1>1, <1>4, NoneAssumption DEF Dispatch, NewHook

\* What is pending on a unit is left when the unit starts a dispatch.
LEMMA StartLeaves ==
    ASSUME TypeOK, NEW u \in Units, NEW e \in Events, Dispatch(u, e),
           NEW x \in Watched, x \in pending[u]
    PROVE  Left(x)'
<1>1. /\ hook'.unit = u /\ hook'.event = e /\ hook'.kept = << >>
      /\ Contains(Observers(e), First(e)) /\ x = e => Contains(hook'.todo, First(x))
      /\ pending' = pending
  BY StartFacts DEF outside
<1>2. ~Contains(<< >>, First(x))
  BY OneFacts
<1> QED
  BY <1>1, <1>2, FirstFacts DEF Left, Told

\* It is left after any handler but its own.
LEMMA HandleLeaves ==
    ASSUME Passed, UNCHANGED outside, NEW x \in Watched, Left(x), Handling # First(x).handler
    PROVE  Left(x)'
  BY DEF Passed, outside, Left, Told, Handling

\* It is not passed over.
LEMMA SkipFacts ==
    ASSUME TypeOK, SkipKept
    PROVE  /\ hook # None /\ hook' \in HookType /\ hook' # None
           /\ hook'.unit = hook.unit /\ hook'.event = hook.event
           /\ hook'.bag = hook.bag /\ hook'.pub = hook.pub /\ hook'.ports = hook.ports
           /\ hook'.kept = hook.kept
           /\ \A n : Contains(hook.todo, n) => Contains(hook'.todo, n) \/ Contains(hook.kept, n)
           /\ \A n : Contains(hook'.todo, n) => Contains(hook.todo, n)
           /\ UNCHANGED <<outside, failed, status, plan>>
<1>1. hook \in HookType /\ hook.todo # << >> /\ Return(hook) /\ hook # None
      /\ Contains(hook.kept, Head(hook.todo))
  BY DEF SkipKept, TypeOK
<1>2. hook' \in HookType
  BY <1>1, ReturnType
<1>3. /\ hook'.unit = hook.unit /\ hook'.event = hook.event
      /\ hook'.bag = hook.bag /\ hook'.pub = hook.pub /\ hook'.ports = hook.ports
      /\ hook'.kept = hook.kept /\ hook'.todo = Tail(hook.todo)
  BY <1>1 DEF Return, HookType
<1>4. \A n : Contains(hook.todo, n) <=> n = Head(hook.todo) \/ Contains(Tail(hook.todo), n)
  BY <1>1, TailFacts DEF HookType
<1> QED
  BY <1>1, <1>2, <1>3, <1>4, NoneAssumption DEF SkipKept, Return

\* So what is left stays so when a notice already deferred is passed over.
LEMMA SkipLeaves ==
    ASSUME TypeOK, SkipKept, NEW x, Left(x)
    PROVE  Left(x)'
  BY SkipFacts DEF Left, Told, outside

\* When a dispatch ends, what is left is pending.
LEMMA CommitLeaves ==
    ASSUME TypeOK, Commit, NEW x, Left(x)
    PROVE  x \in pending'[hook.unit]
<1>1. hook \in HookType /\ hook.todo = << >>
  BY DEF Commit, TypeOK
<1>2. ~Told(hook.todo, x)
  BY <1>1, OneFacts DEF Told
<1> QED
  BY <1>1, <1>2 DEF Left, Commit, HookType

\* Nothing pending on a unit is lost but the event dispatched to it, and
\* every other unit hears of a change of the databag.
LEMMA CommitKeeps ==
    ASSUME TypeOK, Commit
    PROVE  /\ hook \in HookType
           /\ \A u \in Units \ {hook.unit} :
                 /\ pending[u] \subseteq pending'[u]
                 /\ hook.bag # bag => "peer_changed" \in pending'[u]
           /\ hook' = None
  BY DEF Commit, TypeOK

(***************************************************************************)
(* What every unit's dispatch respects.                                    *)
(***************************************************************************)
\* Only the leader's dispatch holds another state than the application's.
Following ==
    hook # None /\ ~Leading =>
        hook.bag = bag /\ hook.pub = pub /\ hook.ports = ports[hook.unit]

\* No connection is recorded before there is a peer relation to record it in.
NotConnected ==
    ~peerReady => /\ bag.conn = NoConns
                  /\ hook # None => hook.bag.conn = NoConns

\* A container that does not answer has no plan.
Bare == \A u \in Units : ~up[u] => plan[u] = None

Ground == Following /\ NotConnected /\ Bare

\* A handler that ends the dispatch leaves every plan.
LEMMA RaisedFacts ==
    ASSUME TypeOK, Handle, hook' = None
    PROVE  Raised /\ UNCHANGED plan
  BY HandleShards, NoneAssumption DEF HandledShards, WentOn, Raised

\* What a handler does to the plans.
LEMMA PlanFacts ==
    ASSUME TypeOK, Handle
    PROVE  /\ \A u \in Units : u # hook.unit => plan'[u] = plan[u]
           /\ plan'[hook.unit] # plan[hook.unit] =>
                  /\ hook' # None /\ up[hook.unit]
                  /\ Valid(hook'.bag)
                  /\ plan'[hook.unit] = PlanOf(hook'.bag)
                  /\ Leading => hook'.bag.shards # None
<1>1. Handled /\ hook \in HookType
  BY HandleHandled
<1>2. CASE UNCHANGED plan
  BY <1>2
<1>3. CASE ~UNCHANGED plan
  <2>1. hook' # None
    BY <1>3, RaisedFacts
  <2>2. /\ Valid(hook'.bag)
        /\ Leading => hook'.bag.shards # None
        /\ plan' = [plan EXCEPT ![hook.unit] = PlanOf(hook'.bag)]
    BY <1>1, <1>3, <2>1 DEF Handled, Goes, Updated, Aside
  <2>3. up[hook.unit]
    BY <1>3, HandleShards DEF HandledShards, Raised, WentOn
  <2> QED
    BY <1>1, <2>1, <2>2, <2>3 DEF TypeOK, HookType
<1> QED
  BY <1>2, <1>3

\* Every step respects it.
LEMMA GroundKept ==
    ASSUME LeaderStays, TypeOK, Ground, [Next]_vars
    PROVE  Ground'
<1> USE DEF Ground
<1>1. CASE Started
  <2>1. PICK u \in Units, e \in Events : Dispatch(u, e)
    BY <1>1 DEF Started
  <2>2. /\ hook'.bag = bag /\ hook'.pub = pub /\ hook'.ports = ports[hook'.unit]
        /\ UNCHANGED <<outside, plan>>
    BY <2>1, StartFacts
  <2> QED
    BY <2>2 DEF Following, NotConnected, Bare, outside
<1>2. CASE Handle
  <2>1. Handled /\ hook \in HookType /\ hook # None /\ UNCHANGED outside
    BY <1>2, HandleHandled, NoneAssumption
  <2>2. Following'
    <3>1. CASE hook' = None
      BY <3>1 DEF Following
    <3>2. CASE hook' # None
      <4>1. hook'.unit = hook.unit /\ Follows(hook')
        BY <2>1, <3>2 DEF Handled, Goes, Passed
      <4> QED
        BY <2>1, <4>1 DEF Following, Follows, Leading, outside
    <3> QED
      BY <3>1, <3>2
  <2>3. NotConnected'
    <3>1. hook' # None /\ ~peerReady => hook'.bag.conn = hook.bag.conn
      BY <2>1 DEF Handled, Goes, Recorded
    <3> QED
      BY <2>1, <3>1 DEF NotConnected, outside
  <2>4. Bare'
    BY <1>2, <2>1, PlanFacts DEF Bare, outside
  <2> QED
    BY <2>2, <2>3, <2>4
<1>3. CASE SkipKept
  <2>1. /\ hook # None /\ hook'.unit = hook.unit /\ hook'.bag = hook.bag
        /\ hook'.pub = hook.pub /\ hook'.ports = hook.ports
        /\ UNCHANGED <<outside, plan>>
    BY <1>3, SkipFacts
  <2> QED
    BY <2>1 DEF Following, NotConnected, Bare, Leading, outside
<1>4. CASE Commit
  BY <1>4 DEF Commit, Following, NotConnected, Bare
<1>5. CASE Crash
  BY <1>5 DEF Crash, Raise, Following, NotConnected, Bare
<1>6. CASE Announced
  <2>1. Bare'
    BY <1>6 DEF Announced, ContainerNews, Bare
  <2> QED
    BY <1>6, <2>1 DEF Announced, Following, NotConnected
<1>7. CASE UNCHANGED vars
  BY <1>7 DEF vars, Following, NotConnected, Bare, Leading
<1> QED
  BY <1>1, <1>2, <1>3, <1>4, <1>5, <1>6, <1>7, Steps

\* Accepted changes with configuration and peer relation only.
Accepted(b) == Valid(b) /\ "sans-dns" \notin config.bad

\* A state without peer relation is not accepted.
LEMMA NeedsPeer ==
    ASSUME NEW b
    PROVE  Valid(b) => peerReady /\ DatabasesConnected(b) /\ config.shards # None
  BY DEF Valid, PassesFirstChecks, ShardsAccepted

\* When nothing is announced to every unit, a databag is accepted as before.
LEMMA AcceptedKept ==
    ASSUME Announced, NotConnected, config' = config
    PROVE  Valid(bag)' => Valid(bag)
<1>1. bag' = bag
  BY DEF Announced
<1>2. CASE peerReady
  <2>1. peerReady'
    BY <1>2 DEF Announced
  <2> QED
    BY <1>1, <1>2, <2>1 DEF Valid, PassesFirstChecks, ShardsAccepted, AuthorizationReady
<1>3. CASE ~peerReady
  <2>1. bag.conn["db"] = None
    BY <1>3 DEF NotConnected, NoConns, DBs
  <2> QED
    BY <1>1, <2>1 DEF Valid, DatabasesConnected, DBs
<1> QED
  BY <1>2, <1>3

\* Configuration and peer relation decide with the databag.
LEMMA ValidStays ==
    ASSUME UNCHANGED <<config, peerReady>>
    PROVE  /\ Valid(hook.bag)' <=> Valid(hook'.bag)
           /\ Valid(bag)' <=> Valid(bag')
           /\ PlanOf(hook.bag)' = PlanOf(hook'.bag)
           /\ PlanOf(bag)' = PlanOf(bag')
  BY DEF Valid, PassesFirstChecks, ShardsAccepted, DatabasesConnected,
     AuthorizationReady, ArchivalReady, PlanOf

(***************************************************************************)
(* The leader's ports.  They may only be wrong while the leader still has  *)
(* to look at the configuration, whose handler opens them whenever the     *)
(* state is valid.                                                         *)
(***************************************************************************)
Right(b, p) == Accepted(b) => p = ServicePorts(config.services)

PortsInv ==
    /\ Right(bag, ports[leader]) \/ "config_changed" \in pending[leader]
    /\ hook # None /\ Leading =>
          Right(hook.bag, hook.ports) \/ Left("config_changed")

\* The leader's handler leaves them right, or leaves config-changed.
LEMMA HandlePorts ==
    ASSUME TypeOK, PortsInv, Handle, hook' # None, Leading
    PROVE  Right(hook'.bag, hook'.ports) \/ Left("config_changed")'
<1>1. /\ hook # None /\ UNCHANGED outside
      /\ Passed /\ (Updated(hook') \/ Aside(hook'))
  BY HandleHandled, NoneAssumption DEF Handled, Goes
<1>2. CASE Updated(hook')
  BY <1>2 DEF Updated, Right, Accepted
<1>3. CASE Aside(hook')
  <2>1. CASE Right(hook.bag, hook.ports)
    BY <1>3, <2>1 DEF Aside, PortRecorded, Right, Accepted
  <2>2. CASE Left("config_changed") /\ Handling = "config_changed"
    BY <1>3, <2>2 DEF Aside, Right, Accepted
  <2>3. CASE Left("config_changed") /\ Handling # "config_changed"
    BY <1>1, <2>3, HandleLeaves, FirstFacts
  <2> QED
    BY <1>1, <2>1, <2>2, <2>3 DEF PortsInv
<1> QED
  BY <1>1, <1>2, <1>3

\* Every step keeps the leader's ports so.
LEMMA PortsKept ==
    ASSUME LeaderStays, TypeOK, TypeOK', Ground, PortsInv, [Next]_vars
    PROVE  PortsInv'
<1>1. CASE Started
  <2>1. PICK u \in Units, e \in Events : Dispatch(u, e)
    BY <1>1 DEF Started
  <2>2. /\ hook' # None /\ hook'.unit = u
        /\ hook'.bag = bag /\ hook'.ports = ports[u] /\ UNCHANGED outside
    BY <2>1, StartFacts
  <2>3. Valid(hook.bag)' <=> Valid(bag)
    BY <2>2, ValidStays DEF outside
  <2>4. Right(bag, ports[leader])' <=> Right(bag, ports[leader])
    BY <2>2, ValidStays DEF outside, Right, Accepted
  <2>5. "config_changed" \in pending[u] => Left("config_changed")'
    BY <2>1, StartLeaves, FirstFacts
  <2> QED
    BY <2>2, <2>3, <2>4, <2>5 DEF PortsInv, Right, Accepted, Leading, outside
<1>2. CASE Handle
  <2>1. /\ hook # None /\ UNCHANGED outside
        /\ hook' # None => hook'.unit = hook.unit
    BY <1>2, HandleHandled, NoneAssumption DEF Handled, Goes, Passed
  <2>2. Right(bag, ports[leader])' <=> Right(bag, ports[leader])
    BY <2>1, ValidStays DEF outside, Right, Accepted
  <2>4. Right(hook.bag, hook.ports)' <=> Right(hook'.bag, hook'.ports)
    <3>1. Valid(hook.bag)' <=> Valid(hook'.bag)
      BY <2>1, ValidStays DEF outside
    <3>2. config' = config
      BY <2>1 DEF outside
    <3> QED
      BY <3>1, <3>2 DEF Right, Accepted
  <2>3. hook' # None /\ Leading =>
            Right(hook'.bag, hook'.ports) \/ Left("config_changed")'
    BY <1>2, HandlePorts
  <2> QED
    <3>1. UNCHANGED <<leader, ports, pending>>
      BY <2>1 DEF outside
    <3> QED
      BY <2>1, <2>2, <2>3, <2>4, <3>1 DEF PortsInv, Leading
<1>3. CASE SkipKept
  <2>1. /\ hook # None /\ hook'.unit = hook.unit
        /\ hook'.bag = hook.bag /\ hook'.ports = hook.ports /\ UNCHANGED outside
    BY <1>3, SkipFacts
  <2>2. /\ Right(bag, ports[leader])' <=> Right(bag, ports[leader])
        /\ Right(hook.bag, hook.ports)' <=> Right(hook.bag, hook.ports)
    BY <2>1, ValidStays DEF outside, Right, Accepted
  <2>3. Left("config_changed") => Left("config_changed")'
    BY <1>3, SkipLeaves
  <2> QED
    BY <2>1, <2>2, <2>3 DEF PortsInv, Leading, outside
<1>4. CASE Commit
  <2>1. /\ hook # None /\ hook' = None /\ hook \in HookType
        /\ UNCHANGED <<config, peerReady, leader>> /\ bag' = hook.bag
        /\ ports'[leader] = IF Leading THEN hook.ports ELSE ports[leader]
    BY <1>4, CommitKeeps DEF Commit, TypeOK, Leading
  <2>2. Right(bag, ports[leader])' <=> Right(hook.bag, ports'[leader])
    BY <2>1, ValidStays DEF Right, Accepted
  <2>3. CASE Leading
    BY <1>4, <2>1, <2>2, <2>3, CommitLeaves DEF PortsInv, Leading
  <2>4. CASE ~Leading
    <3>1. hook.bag = bag /\ pending[leader] \subseteq pending'[leader]
      BY <1>4, <2>1, <2>4, CommitKeeps DEF Ground, Following, Leading, TypeOK
    <3> QED
      BY <2>1, <2>2, <2>4, <3>1 DEF PortsInv
  <2> QED
    BY <2>3, <2>4
<1>5. CASE Crash
  <2>1. UNCHANGED <<config, peerReady, leader, bag, ports, pending>> /\ hook' = None
    BY <1>5 DEF Crash, Raise
  <2>2. Right(bag, ports[leader])' <=> Right(bag, ports[leader])
    BY <2>1, ValidStays DEF Right, Accepted
  <2> QED
    BY <2>1, <2>2 DEF PortsInv
<1>6. CASE Announced
  <2>1. leader \in Units /\ leader' = leader /\ ports' = ports /\ hook' = None
    BY <1>6 DEF TypeOK, Announced
  <2>2. CASE ToAll("config_changed", pending')
    BY <2>1, <2>2 DEF ToAll, PortsInv
  <2>3. CASE config' = config
    <3>1. Right(bag, ports[leader]) => Right(bag, ports[leader])'
      BY <1>6, <2>1, <2>3, AcceptedKept DEF Ground, Right, Accepted
    <3>2. "config_changed" \in pending[leader] => "config_changed" \in pending'[leader]
      BY <1>6, <2>1 DEF Announced, Kept, Steady
    <3> QED
      BY <2>1, <3>1, <3>2 DEF PortsInv
  <2> QED
    BY <1>6, <2>2, <2>3 DEF Announced
<1>7. CASE UNCHANGED vars
  <2>1. UNCHANGED <<outside, hook>>
    BY <1>7 DEF vars, outside
  <2>2. /\ Right(bag, ports[leader])' <=> Right(bag, ports[leader])
        /\ Right(hook.bag, hook.ports)' <=> Right(hook.bag, hook.ports)
    BY <2>1, ValidStays DEF outside, Right, Accepted
  <2> QED
    BY <2>1, <2>2 DEF PortsInv, Leading, outside, Left
<1> QED
  BY <1>1, <1>2, <1>3, <1>4, <1>5, <1>6, <1>7, Steps

\* Nothing of this is wrong before the first dispatch.
LEMMA GroundFirst == Init => Ground /\ PortsInv
<1> SUFFICES ASSUME Init PROVE Ground /\ PortsInv
  OBVIOUS
<1>1. Ground
  BY DEF Init, FreshState, Ground, Following, NotConnected, Bare
<1>2. PortsInv
  BY DEF Init, PortsInv
<1> QED
  BY <1>1, <1>2

\* Ground holds whenever the lease does not move.
LEMMA GroundHolds == LeaderStays /\ Spec => []Ground
<1>1. LeaderStays /\ TypeOK /\ Ground /\ [Next]_vars => Ground'
  BY GroundKept
<1>2. Init => Ground
  BY GroundFirst
<1>3. CASE LeaderStays
  BY <1>1, <1>2, <1>3, TypeCorrect, PTL DEF Spec
<1> QED
  BY <1>3

\* The leader of a valid deployment has opened the ports of the configured
\* services and no others once everything is delivered, crashes included, as
\* long as the lease does not move.
THEOREM LeaderOpensPorts ==
    ASSUME "leader" \notin Disturbances
    PROVE  Spec => []LeaderPortsOpen
<1>1. LeaderStays
  BY DEF LeaderStays
<1>2. TypeOK /\ TypeOK' /\ Ground /\ PortsInv /\ [Next]_vars => PortsInv'
  BY <1>1, PortsKept
<1>3. Init => PortsInv
  BY GroundFirst
<1>4. Spec => []Ground
  BY <1>1, GroundHolds
<1>5. TypeOK /\ PortsInv => LeaderPortsOpen
  BY DEF PortsInv, LeaderPortsOpen, Quiet, Right, Accepted, TypeOK
<1> QED
  BY <1>2, <1>3, <1>4, <1>5, TypeCorrect, PTL DEF Spec

(***************************************************************************)
(* What the admin charm knows.  It may only be behind while the leader     *)
(* still has a joined notice of it, pending or deferred.                   *)
(***************************************************************************)
Informed(b, p) == DatabasesConnected(b) /\ remote.admin.alive => p.admin = b.conn

\* In a dispatch, the notice may also have been deferred again.
Waits(e) ==
    \/ e \in pending[hook.unit] /\ hook.event # e
    \/ Told(hook.todo, e)
    \/ Told(hook.kept, e)

InfoInv ==
    /\ \/ Informed(bag, pub)
       \/ "admin_joined" \in pending[leader]
       \/ Told(deferred[leader], "admin_joined")
    /\ hook # None /\ Leading =>
          Informed(hook.bag, hook.pub) \/ Waits("admin_joined")

\* The relations the provers have to look through.
LEMMA InformedStays ==
    ASSUME UNCHANGED remote
    PROVE  /\ Informed(hook.bag, hook.pub)' <=> Informed(hook'.bag, hook'.pub)
           /\ Informed(bag, pub)' <=> Informed(bag', pub')
  BY DEF Informed, DatabasesConnected

\* The leader's handler tells the admin charm, leaves it as well informed as
\* it was, or leaves a notice.
LEMMA HandleInforms ==
    ASSUME TypeOK, InfoInv, Handle, hook' # None, Leading
    PROVE  Informed(hook'.bag, hook'.pub) \/ Waits("admin_joined")'
<1>1. /\ hook # None /\ UNCHANGED outside /\ Passed
      /\ \/ Informs(hook')
         \/ /\ Uninformed(hook')
            /\ Handling = "admin_joined" => Contains(hook'.kept, Head(hook.todo))
  BY HandleHandled, NoneAssumption DEF Handled, Goes
<1>2. CASE Informs(hook')
  BY <1>2 DEF Informs, Informed, Related
<1>3. CASE Uninformed(hook') /\ Informed(hook.bag, hook.pub)
  BY <1>3 DEF Uninformed, Informed, DatabasesConnected
<1>4. CASE /\ Waits("admin_joined")
           /\ Handling = "admin_joined" => Contains(hook'.kept, Head(hook.todo))
  <2>1. First("admin_joined").handler = "admin_joined"
    BY FirstFacts
  <2>2. /\ hook'.unit = hook.unit /\ hook'.event = hook.event /\ pending' = pending
        /\ Told(hook.kept, "admin_joined") => Told(hook'.kept, "admin_joined")
    BY <1>1 DEF Passed, outside, Told
  <2>3. Told(hook.todo, "admin_joined") =>
            Told(hook'.todo, "admin_joined") \/ Told(hook'.kept, "admin_joined")
    BY <1>1, <1>4, <2>1 DEF Passed, Told, Handling
  <2> QED
    BY <1>4, <2>2, <2>3 DEF Waits, Told
<1> QED
  BY <1>1, <1>2, <1>3, <1>4 DEF InfoInv

\* Every step keeps the admin charm so informed.
LEMMA InfoKept ==
    ASSUME LeaderStays, TypeOK, TypeOK', Ground, InfoInv, [Next]_vars
    PROVE  InfoInv'
<1>1. CASE Started
  <2>1. PICK u \in Units, e \in Events : Dispatch(u, e)
    BY <1>1 DEF Started
  <2>2. /\ hook' # None /\ hook'.unit = u /\ hook'.event = e
        /\ hook'.bag = bag /\ hook'.pub = pub
        /\ \A n : Contains(hook'.todo, n) <=>
                      Contains(deferred[u], n) \/ Contains(Observers(e), n)
        /\ UNCHANGED outside
    BY <2>1, StartFacts
  <2>3. /\ Informed(hook.bag, hook.pub)' <=> Informed(bag, pub)
        /\ Informed(bag, pub)' <=> Informed(bag, pub)
    BY <2>2, InformedStays DEF outside
  <2>4. "admin_joined" \in pending[u] => Waits("admin_joined")'
    <3>1. Contains(Observers("admin_joined"), First("admin_joined"))
      BY FirstFacts
    <3> QED
      BY <2>2, <3>1 DEF Waits, Told, outside
  <2>5. Told(deferred[u], "admin_joined") => Waits("admin_joined")'
    BY <2>2 DEF Waits, Told
  <2>6. UNCHANGED <<leader, pending, deferred>>
    BY <2>2 DEF outside
  <2> QED
    BY <2>2, <2>3, <2>4, <2>5, <2>6 DEF InfoInv, Leading
<1>2. CASE Handle
  <2>1. /\ hook # None /\ UNCHANGED outside
        /\ hook' # None => hook'.unit = hook.unit
    BY <1>2, HandleHandled, NoneAssumption DEF Handled, Goes, Passed
  <2>2. UNCHANGED <<leader, pending, deferred, remote, bag, pub>>
    BY <2>1 DEF outside
  <2>3. /\ Informed(bag, pub)' <=> Informed(bag, pub)
        /\ Informed(hook.bag, hook.pub)' <=> Informed(hook'.bag, hook'.pub)
    BY <2>2, InformedStays
  <2>4. hook' # None /\ Leading =>
            Informed(hook'.bag, hook'.pub) \/ Waits("admin_joined")'
    BY <1>2, HandleInforms
  <2> QED
    BY <2>1, <2>2, <2>3, <2>4 DEF InfoInv, Leading
<1>3. CASE SkipKept
  <2>1. /\ hook # None /\ hook'.unit = hook.unit /\ hook'.event = hook.event
        /\ hook'.bag = hook.bag /\ hook'.pub = hook.pub /\ UNCHANGED outside
        /\ hook'.kept = hook.kept
        /\ \A n : Contains(hook.todo, n) => Contains(hook'.todo, n) \/ Contains(hook.kept, n)
    BY <1>3, SkipFacts
  <2>2. UNCHANGED <<leader, pending, deferred, remote, bag, pub>>
    BY <2>1 DEF outside
  <2>3. /\ Informed(bag, pub)' <=> Informed(bag, pub)
        /\ Informed(hook.bag, hook.pub)' <=> Informed(hook.bag, hook.pub)
    BY <2>1, <2>2, InformedStays
  <2>4. Waits("admin_joined") => Waits("admin_joined")'
    BY <2>1, <2>2 DEF Waits, Told
  <2> QED
    BY <2>1, <2>2, <2>3, <2>4 DEF InfoInv, Leading
<1>4. CASE Commit
  <2>1. /\ hook # None /\ hook' = None /\ hook \in HookType /\ hook.todo = << >>
        /\ UNCHANGED <<remote, leader>> /\ bag' = hook.bag /\ pub' = hook.pub
        /\ deferred'[leader] = IF Leading THEN hook.kept ELSE deferred[leader]
    BY <1>4, CommitKeeps DEF Commit, TypeOK, Leading
  <2>2. Informed(bag, pub)' <=> Informed(hook.bag, hook.pub)
    BY <2>1, InformedStays
  <2>3. CASE Leading
    <3>1. ~Told(hook.todo, "admin_joined")
      BY <2>1, OneFacts DEF Told
    <3>2. "admin_joined" \in pending[hook.unit] /\ hook.event # "admin_joined" =>
              "admin_joined" \in pending'[hook.unit]
      BY <1>4, <2>1 DEF Commit, HookType
    <3>3. deferred'[leader] = hook.kept /\ leader = hook.unit
      BY <2>1, <2>3 DEF Leading
    <3> QED
      BY <2>1, <2>2, <2>3, <3>1, <3>2, <3>3 DEF InfoInv, Waits, Told
  <2>4. CASE ~Leading
    <3>1. hook.bag = bag /\ hook.pub = pub /\ pending[leader] \subseteq pending'[leader]
      BY <1>4, <2>1, <2>4, CommitKeeps DEF Ground, Following, Leading, TypeOK
    <3> QED
      BY <2>1, <2>2, <2>4, <3>1 DEF InfoInv, Told
  <2> QED
    BY <2>3, <2>4
<1>5. CASE Crash
  <2>1. UNCHANGED <<remote, leader, bag, pub, pending, deferred>> /\ hook' = None
    BY <1>5 DEF Crash, Raise
  <2>2. Informed(bag, pub)' <=> Informed(bag, pub)
    BY <2>1, InformedStays
  <2> QED
    BY <2>1, <2>2 DEF InfoInv
<1>6. CASE Announced
  <2>1. /\ leader \in Units /\ leader' = leader /\ hook' = None
        /\ deferred' = deferred /\ bag' = bag
        /\ AdminNews(remote', pub', pending')
    BY <1>6 DEF TypeOK, Announced
  <2>2. CASE ~remote'.admin.alive
    BY <2>1, <2>2 DEF InfoInv, Informed
  <2>3. CASE ToAll("admin_joined", pending')
    BY <2>1, <2>3 DEF ToAll, InfoInv
  <2>4. CASE /\ remote.admin.alive /\ pub'.admin = pub.admin
             /\ Kept({"admin_joined"}, pending')
    <3>1. Informed(bag, pub) => Informed(bag, pub)'
      BY <2>1, <2>4 DEF Informed, DatabasesConnected
    <3>2. "admin_joined" \in pending[leader] => "admin_joined" \in pending'[leader]
      BY <2>1, <2>4 DEF Kept
    <3> QED
      BY <2>1, <3>1, <3>2 DEF InfoInv
  <2> QED
    BY <2>1, <2>2, <2>3, <2>4 DEF AdminNews
<1>7. CASE UNCHANGED vars
  <2>1. UNCHANGED <<remote, hook, leader, pending, deferred, bag, pub>>
    BY <1>7 DEF vars
  <2>2. /\ Informed(bag, pub)' <=> Informed(bag, pub)
        /\ Informed(hook.bag, hook.pub)' <=> Informed(hook.bag, hook.pub)
    BY <2>1, InformedStays
  <2> QED
    BY <2>1, <2>2 DEF InfoInv, Leading, Waits
<1> QED
  BY <1>1, <1>2, <1>3, <1>4, <1>5, <1>6, <1>7, Steps

\* Once everything is delivered the admin charm has the connections the
\* server uses, crashes included, as long as the lease does not move.
THEOREM AdminAlwaysInformed ==
    ASSUME "leader" \notin Disturbances
    PROVE  Spec => []AdminInformed
<1>1. LeaderStays
  BY DEF LeaderStays
<1>2. TypeOK /\ TypeOK' /\ Ground /\ InfoInv /\ [Next]_vars => InfoInv'
  BY <1>1, InfoKept
<1>3. Init => InfoInv
  BY DEF Init, InfoInv, Informed, NoRemote
<1>4. Spec => []Ground
  BY <1>1, GroundHolds
<1>5. TypeOK /\ InfoInv => AdminInformed
  <2> SUFFICES ASSUME TypeOK, InfoInv, Quiet, DatabasesConnected(bag), remote.admin.alive
               PROVE  pub.admin = bag.conn
    BY DEF AdminInformed
  <2>1. /\ leader \in Units /\ pending[leader] = {} /\ deferred[leader] = << >>
    BY DEF Quiet, TypeOK
  <2>2. ~Told(deferred[leader], "admin_joined")
    BY <2>1, OneFacts DEF Told
  <2> QED
    BY <2>1, <2>2 DEF InfoInv, Informed
<1> QED
  BY <1>2, <1>3, <1>4, <1>5, TypeCorrect, PTL DEF Spec

(***************************************************************************)
(* Addresses.  A port that moved unseen is announced to the leader.        *)
(***************************************************************************)
Moved(b, r) ==
    /\ remote.db[r].alive
    /\ b.conn[r] # None
    /\ b.conn[r].port # remote.db[r].conn.port

AddrInv ==
    /\ \A r \in DBs : Moved(bag, r) => DbChanged[r] \in pending[leader]
    /\ hook # None /\ Leading =>
          \A r \in DBs : Moved(hook.bag, r) => Left(DbChanged[r])

\* The leader's handler records the address, or leaves the announcement.
LEMMA HandleAddress ==
    ASSUME TypeOK, Ground, AddrInv, Handle, hook' # None, Leading,
           NEW r \in DBs, Moved(hook'.bag, r)
    PROVE  Left(DbChanged[r])'
<1>1. /\ hook # None /\ UNCHANGED outside /\ Passed /\ Recorded(hook')
  BY HandleHandled, NoneAssumption DEF Handled, Goes
<1>2. Readable(r) /\ ConnOf(r).port = remote.db[r].conn.port
  <2>1. remote.db[r].alive /\ remote.db[r].conn \in Conn
    BY DEF Moved, TypeOK, RemoteType
  <2> DEFINE k == remote.db[r].conn
             x == k.tls \/ config.db_tls
  <2>2. ConnOf(r) = [k EXCEPT !.tls = x] /\ k \in Conn
    BY <2>1 DEF ConnOf
  <2> HIDE DEF k, x
  <2>3. ConnOf(r).port = k.port
    BY <2>2 DEF Conn
  <2> QED
    BY <2>1, <2>3 DEF Readable, Related, k
<1>3. /\ Moved(hook.bag, r)
      /\ peerReady => Handling # "database_changed"
  BY <1>1, <1>2 DEF Recorded, Moved
<1>4. peerReady
  BY <1>1, <1>3 DEF Ground, NotConnected, NoConns, Moved
<1>5. Left(DbChanged[r])
  BY <1>1, <1>3 DEF AddrInv
<1> QED
  BY <1>1, <1>3, <1>4, <1>5, HandleLeaves, FirstFacts

\* Every step keeps moves announced.
LEMMA AddrKept ==
    ASSUME LeaderStays, TypeOK, TypeOK', Ground, AddrInv, [Next]_vars
    PROVE  AddrInv'
<1>1. CASE Started
  <2>1. PICK u \in Units, e \in Events : Dispatch(u, e)
    BY <1>1 DEF Started
  <2>2. hook' # None /\ hook'.unit = u /\ hook'.bag = bag /\ UNCHANGED outside /\ hook = None
    BY <2>1, StartFacts
  <2>3. UNCHANGED <<leader, pending, remote, bag>>
    BY <2>2 DEF outside
  <2>4. ASSUME NEW r \in DBs, Moved(bag, r), leader = u
        PROVE  Left(DbChanged[r])'
    BY <2>1, <2>4, StartLeaves, FirstFacts DEF AddrInv
  <2> QED
    BY <2>2, <2>3, <2>4 DEF AddrInv, Leading, Moved
<1>2. CASE Handle
  <2>1. /\ hook # None /\ UNCHANGED outside
        /\ hook' # None => hook'.unit = hook.unit
    BY <1>2, HandleHandled, NoneAssumption DEF Handled, Goes, Passed
  <2>2. UNCHANGED <<leader, pending, remote, bag>>
    BY <2>1 DEF outside
  <2>3. hook' # None /\ Leading =>
            \A r \in DBs : Moved(hook'.bag, r) => Left(DbChanged[r])'
    BY <1>2, HandleAddress
  <2> QED
    BY <2>1, <2>2, <2>3 DEF AddrInv, Leading, Moved
<1>3. CASE SkipKept
  <2>1. /\ hook # None /\ hook'.unit = hook.unit /\ hook'.bag = hook.bag
        /\ UNCHANGED outside
    BY <1>3, SkipFacts
  <2>2. UNCHANGED <<leader, pending, remote, bag>>
    BY <2>1 DEF outside
  <2>3. \A r \in DBs : Left(DbChanged[r]) => Left(DbChanged[r])'
    BY <1>3, SkipLeaves
  <2> QED
    BY <2>1, <2>2, <2>3 DEF AddrInv, Leading, Moved
<1>4. CASE Commit
  <2>1. /\ hook # None /\ hook' = None /\ hook \in HookType
        /\ UNCHANGED <<remote, leader>> /\ bag' = hook.bag
    BY <1>4, CommitKeeps DEF Commit, TypeOK
  <2>2. CASE Leading
    <3>1. \A r \in DBs : Left(DbChanged[r]) => DbChanged[r] \in pending'[leader]
      BY <1>4, <2>2, CommitLeaves DEF Leading
    <3> QED
      BY <2>1, <2>2, <3>1 DEF AddrInv, Moved
  <2>3. CASE ~Leading
    <3>1. hook.bag = bag /\ pending[leader] \subseteq pending'[leader]
      BY <1>4, <2>1, <2>3, CommitKeeps DEF Ground, Following, Leading, TypeOK
    <3> QED
      BY <2>1, <3>1 DEF AddrInv, Moved
  <2> QED
    BY <2>2, <2>3
<1>5. CASE Crash
  BY <1>5 DEF Crash, Raise, AddrInv, Moved
<1>6. CASE Announced
  <2>1. leader \in Units /\ leader' = leader /\ hook' = None /\ bag' = bag
    BY <1>6 DEF TypeOK, Announced
  <2>2. ASSUME NEW r \in DBs, Moved(bag, r)'
        PROVE  DbChanged[r] \in pending'[leader]
    <3>1. remote'.db[r].alive /\ bag.conn[r] # None
          /\ bag.conn[r].port # remote'.db[r].conn.port
      BY <2>1, <2>2 DEF Moved
    <3>2. DbNews(r, remote', pending')
      BY <1>6 DEF Announced
    <3>3. CASE ToAll(DbChanged[r], pending')
      BY <2>1, <3>3 DEF ToAll
    <3>4. CASE /\ remote.db[r].alive
               /\ remote'.db[r].conn.port = remote.db[r].conn.port
               /\ Kept({DbChanged[r]}, pending')
      BY <2>1, <3>1, <3>4 DEF Moved, AddrInv, Kept
    <3> QED
      BY <3>1, <3>2, <3>3, <3>4 DEF DbNews
  <2> QED
    BY <2>1, <2>2 DEF AddrInv
<1>7. CASE UNCHANGED vars
  BY <1>7 DEF vars, AddrInv, Moved, Leading, Left
<1> QED
  BY <1>1, <1>2, <1>3, <1>4, <1>5, <1>6, <1>7, Steps

(***************************************************************************)
(* The leader's server has a shard count from the databag, or from the     *)
(* leader's own dispatch, which then cannot fail.                          *)
(***************************************************************************)
Pins == hook # None /\ Leading /\ config.shards # None /\ peerReady

CountInv ==
    plan[leader] # None =>
        /\ bag.shards # None \/ Pins
        /\ hook # None /\ Leading => hook.bag.shards # None

\* Without crashes every step keeps it so.
LEMMA CountKept ==
    ASSUME LeaderStays, NoCrash, TypeOK, Ground, CountInv, [Next]_vars
    PROVE  CountInv'
<1>1. CASE Started
  <2>1. PICK u \in Units, e \in Events : Dispatch(u, e)
    BY <1>1 DEF Started
  <2>2. /\ hook = None /\ hook'.bag = bag /\ UNCHANGED <<outside, plan>>
    BY <2>1, StartFacts
  <2> QED
    BY <2>2 DEF CountInv, Pins, outside
<1>2. CASE Handle
  <2>1. /\ hook # None /\ hook \in HookType
        /\ UNCHANGED <<config, leader, peerReady, bag>>
        /\ hook' # None => hook'.unit = hook.unit
    BY <1>2, HandleHandled, NoneAssumption DEF Handled, Goes, Passed, outside
  <2>2. CASE ~Leading
    <3>1. plan'[leader] = plan[leader]
      BY <1>2, <2>2, PlanFacts DEF Leading, TypeOK
    <3> QED
      BY <2>1, <2>2, <3>1 DEF CountInv, Pins, Leading
  <2>3. CASE Leading /\ hook' = None
    <3>1. Raised /\ plan' = plan
      BY <1>2, <2>3, RaisedFacts
    <3>2. plan[leader] # None => bag.shards # None
      BY <2>1, <2>3, <3>1
      DEF CountInv, Pins, Raised, NoCrash, Unreachable, Leading, Ground, Bare, TypeOK
    <3> QED
      BY <2>1, <2>3, <3>1, <3>2 DEF CountInv
  <2>4. CASE Leading /\ hook' # None /\ plan'[leader] # plan[leader]
    <3>1. Valid(hook'.bag) /\ hook'.bag.shards # None
      BY <1>2, <2>4, PlanFacts DEF Leading
    <3>2. config.shards # None /\ peerReady
      BY <3>1, NeedsPeer
    <3> QED
      BY <2>1, <2>4, <3>1, <3>2 DEF CountInv, Pins, Leading
  <2>5. CASE Leading /\ hook' # None /\ plan'[leader] = plan[leader]
    <3>1. KeptOrPinned(hook'.bag.shards)
      BY <1>2, <2>5, HandleShards DEF HandledShards, Raised, WentOn
    <3> QED
      BY <2>1, <2>5, <3>1 DEF CountInv, Pins, Leading, KeptOrPinned
  <2> QED
    BY <2>2, <2>3, <2>4, <2>5
<1>3. CASE SkipKept
  <2>1. /\ hook # None /\ hook' # None /\ hook'.unit = hook.unit /\ hook'.bag = hook.bag
        /\ UNCHANGED <<outside, plan>>
    BY <1>3, SkipFacts
  <2> QED
    BY <2>1 DEF CountInv, Pins, Leading, outside
<1>4. CASE Commit
  <2>1. /\ hook # None /\ hook' = None
        /\ UNCHANGED <<leader, plan>> /\ bag' = hook.bag
    BY <1>4 DEF Commit
  <2> QED
    BY <2>1 DEF CountInv, Pins, Ground, Following
<1>5. ~Crash
  BY DEF NoCrash, Crash, Disturb
<1>6. CASE Announced
  <2>1. /\ leader \in Units /\ leader' = leader /\ hook = None /\ hook' = None /\ bag' = bag
        /\ \A u \in Units : ContainerNews(u)
    BY <1>6 DEF TypeOK, Announced
  <2>2. plan'[leader] # None => plan[leader] # None
    BY <2>1 DEF ContainerNews
  <2> QED
    BY <2>1, <2>2 DEF CountInv, Pins
<1>7. CASE UNCHANGED vars
  BY <1>7 DEF vars, CountInv, Pins, Leading
<1> QED
  BY <1>1, <1>2, <1>3, <1>4, <1>5, <1>6, <1>7, Steps

(***************************************************************************)
(* Plans.  A unit's plan may only differ from what the databag calls for   *)
(* while one of the events is left whose handlers replan it.               *)
(***************************************************************************)
Own(u) ==
    {"config_changed", "pebble_ready"}
    \cup (IF u = leader
          THEN {DbChanged[r] : r \in DBs} \cup {DbBroken[r] : r \in DBs}
          ELSE {"peer_changed"})

Due(u) == \E e \in Own(u) : e \in pending[u]

Sound(u, b) == Accepted(b) /\ up[u] => plan[u] = PlanOf(b)

PlanInv ==
    /\ \A u \in Units :
          \/ hook # None /\ Leading /\ u = leader /\ plan[u] # None
          \/ Sound(u, bag)
          \/ Due(u)
    /\ hook # None =>
          Sound(hook.unit, hook.bag) \/ \E e \in Own(hook.unit) : Left(e)

\* Every event a unit acts upon is followed up.
LEMMA OwnFacts ==
    ASSUME NEW u
    PROVE  Own(u) \subseteq Watched
  BY FirstFacts DEF Own

\* How soundness is carried over a step.
LEMMA SoundStays ==
    ASSUME UNCHANGED <<config, peerReady, up>>
    PROVE  /\ Sound(hook.unit, hook.bag)' <=>
                 (Accepted(hook'.bag) /\ up[hook'.unit] => plan'[hook'.unit] = PlanOf(hook'.bag))
           /\ \A u \in Units :
                 Sound(u, bag)' <=> (Accepted(bag') /\ up[u] => plan'[u] = PlanOf(bag'))
  BY ValidStays DEF Sound, Accepted

\* The events a unit acts upon, after their own handler: the plan is right.
LEMMA OwnHandled ==
    ASSUME TypeOK, Handle, hook' # None, Aside(hook'),
           NEW e \in Own(hook.unit), Left(e), ~Left(e)'
    PROVE  ~Accepted(hook'.bag)
<1>1. /\ UNCHANGED outside /\ Passed /\ e \in Watched
  BY HandleHandled, OwnFacts DEF Handled, Goes
<1>2. Handling = First(e).handler
  BY <1>1, HandleLeaves
<1>3. CASE e = "config_changed"
  BY <1>2, <1>3, FirstFacts DEF Aside, Accepted
<1>4. CASE e = "pebble_ready"
  BY <1>2, <1>4, FirstFacts DEF Aside
<1>5. CASE e = "peer_changed" /\ ~Leading
  BY <1>2, <1>5, FirstFacts DEF Aside
<1>6. CASE Leading /\ \E r \in DBs : e = DbChanged[r] \/ e = DbBroken[r]
  <2>1. ~peerReady
    BY <1>2, <1>6, FirstFacts DEF Aside
  <2> QED
    BY <2>1, NeedsPeer DEF Accepted
<1>7. "peer_changed" \in Own(hook.unit) => ~Leading
  BY EventsApart DEF Own, Leading, DbChanged, DbBroken, DBs
<1> QED
  BY <1>3, <1>4, <1>5, <1>6, <1>7 DEF Own, Leading

\* Recording a port leaves an event behind.
LEMMA PortLeft ==
    ASSUME TypeOK, Ground, AddrInv, CountInv, Handle, hook' # None,
           PortRecorded(hook'), hook'.bag # hook.bag
    PROVE  \E e \in Own(hook.unit) : Left(e)
<1>1. hook # None /\ Leading
  BY HandleHandled, NoneAssumption DEF PortRecorded
<1>2. hook.bag.shards # None
  BY <1>1 DEF CountInv, PortRecorded, Leading
<1>3. PICK r \in DBs : /\ Readable(r)
                       /\ hook.bag.conn[r] # None
                       /\ hook.bag.conn[r].port # remote.db[r].conn.port
  BY <1>2 DEF PortRecorded
<1>4. DbChanged[r] \in Own(hook.unit) /\ DbBroken[r] \in Own(hook.unit)
  BY <1>1 DEF Own, Leading
<1>5. CASE remote.db[r].alive
  BY <1>1, <1>3, <1>4, <1>5 DEF AddrInv, Moved
<1>6. CASE ~remote.db[r].alive
  BY <1>3, <1>4, <1>6 DEF Readable, Related, Left
<1> QED
  BY <1>5, <1>6

\* A handler leaves its unit's plan right, or an event that puts it right.
LEMMA HandleSound ==
    ASSUME TypeOK, Ground, AddrInv, CountInv, PlanInv, Handle, hook' # None
    PROVE  \/ Accepted(hook'.bag) /\ up[hook.unit] => plan'[hook.unit] = PlanOf(hook'.bag)
           \/ \E e \in Own(hook.unit) : Left(e)'
<1>1. hook # None /\ hook \in HookType /\ (Updated(hook') \/ Aside(hook'))
  BY HandleHandled, NoneAssumption DEF Handled, Goes
<1>2. CASE Updated(hook')
  BY <1>1, <1>2 DEF Updated, Accepted, TypeOK, HookType
<1>3. CASE Aside(hook') /\ \E e \in Own(hook.unit) : Left(e)
  <2>1. PICK e \in Own(hook.unit) : Left(e)
    BY <1>3
  <2>2. Left(e)' \/ ~Accepted(hook'.bag)
    BY <1>3, <2>1, OwnHandled
  <2> QED
    BY <2>1, <2>2
<1>4. CASE Aside(hook') /\ Sound(hook.unit, hook.bag) /\ ~\E e \in Own(hook.unit) : Left(e)
  <2>1. CASE hook'.bag = hook.bag
    BY <1>4, <2>1 DEF Aside, Sound
  <2>2. CASE ~Valid(hook'.bag)
    BY <2>2 DEF Accepted
  <2>3. CASE PortRecorded(hook')
    BY <1>4, <2>1, <2>3, PortLeft
  <2> QED
    BY <1>4, <2>1, <2>2, <2>3 DEF Aside
<1> QED
  BY <1>1, <1>2, <1>3, <1>4 DEF PlanInv

(***************************************************************************)
(* What a unit acts upon, over the steps.                                  *)
(***************************************************************************)
\* Starting a dispatch leaves it.
LEMMA DueStarts ==
    ASSUME TypeOK, NEW u \in Units, NEW e \in Events, Dispatch(u, e), Due(u)
    PROVE  (\E x \in Own(hook.unit) : Left(x))'
<1>1. PICK x \in Own(u) : x \in pending[u]
  BY DEF Due
<1>2. Left(x)'
  BY <1>1, OwnFacts, StartLeaves
<1>3. hook'.unit = u /\ leader' = leader
  BY StartFacts DEF outside
<1> QED
  BY <1>1, <1>2, <1>3 DEF Own

\* So does passing over a deferred notice.
LEMMA DueSkips ==
    ASSUME TypeOK, SkipKept, \E x \in Own(hook.unit) : Left(x)
    PROVE  (\E x \in Own(hook.unit) : Left(x))'
<1>1. PICK x \in Own(hook.unit) : Left(x)
  OBVIOUS
<1>2. Left(x)' /\ hook'.unit = hook.unit /\ leader' = leader
  BY <1>1, SkipLeaves, SkipFacts DEF outside
<1> QED
  BY <1>1, <1>2 DEF Own

\* Ending one makes it pending, on the other units as well.
LEMMA DueCommits ==
    ASSUME TypeOK, Ground, Commit
    PROVE  /\ (\E e \in Own(hook.unit) : Left(e)) =>
                 \A u \in Units : u = hook.unit => Due(u)'
           /\ \A u \in Units \ {hook.unit} :
                 Due(u) \/ hook.bag # bag => Due(u)'
<1>1. leader' = leader /\ hook # None
  BY DEF Commit
<1>2. ASSUME NEW e \in Own(hook.unit), Left(e), NEW u \in Units, u = hook.unit
      PROVE  Due(u)'
  BY <1>1, <1>2, CommitLeaves DEF Due, Own
<1>3. ASSUME NEW u \in Units \ {hook.unit}, Due(u)
      PROVE  Due(u)'
  BY <1>1, <1>3, CommitKeeps DEF Due, Own
<1>4. ASSUME NEW u \in Units \ {hook.unit}, hook.bag # bag
      PROVE  Due(u)'
  <2>1. u # leader
    BY <1>1, <1>4 DEF Ground, Following, Leading
  <2> QED
    BY <1>1, <1>4, <2>1, CommitKeeps DEF Due, Own
<1> QED
  BY <1>2, <1>3, <1>4

\* What happens outside leaves it as well, unless the container is lost.
LEMMA DueKept ==
    ASSUME TypeOK, Announced, NEW u \in Units, Due(u), up'[u]
    PROVE  Due(u)'
<1>1. leader' = leader
  BY DEF Announced
<1>2. PICK e \in Own(u) : e \in pending[u]
  BY DEF Due
<1>3. CASE e \in Steady
  BY <1>1, <1>2, <1>3 DEF Announced, Kept, Due, Own
<1>4. CASE e = "pebble_ready"
  BY <1>1, <1>2, <1>4 DEF Announced, Due, Own
<1>5. CASE u = leader /\ \E r \in DBs : e = DbChanged[r]
  <2>1. PICK r \in DBs : e = DbChanged[r]
    BY <1>5
  <2>2. DbNews(r, remote', pending')
    BY DEF Announced
  <2>3. DbChanged[r] \in pending'[u] \/ DbBroken[r] \in pending'[u]
    BY <1>2, <2>1, <2>2 DEF DbNews, ToAll, Kept
  <2> QED
    BY <1>1, <1>5, <2>3 DEF Due, Own
<1> QED
  BY <1>2, <1>3, <1>4, <1>5 DEF Own, Steady

\* A changed configuration is everyone's business.
LEMMA DueConfig ==
    ASSUME Announced, config' # config, NEW u \in Units
    PROVE  Due(u)'
  BY DEF Announced, ToAll, Due, Own

\* Without crashes every step keeps plans so.
LEMMA PlanKept ==
    ASSUME LeaderStays, NoCrash, TypeOK, TypeOK', Ground, AddrInv, CountInv, PlanInv,
           [Next]_vars
    PROVE  PlanInv'
<1>1. CASE Started
  <2>1. PICK u \in Units, e \in Events : Dispatch(u, e)
    BY <1>1 DEF Started
  <2>2. /\ hook = None /\ hook' # None /\ hook'.unit = u /\ hook'.bag = bag
        /\ UNCHANGED <<outside, plan>>
    BY <2>1, StartFacts
  <2>3. UNCHANGED <<config, peerReady, up, leader, pending, bag>>
    BY <2>2 DEF outside
  <2>4. /\ Sound(hook.unit, hook.bag)' <=> Sound(u, bag)
        /\ \A v \in Units : Sound(v, bag)' <=> Sound(v, bag)
    BY <2>2, <2>3, SoundStays DEF Sound
  <2>5. Due(u) => (\E x \in Own(hook.unit) : Left(x))'
    BY <2>1, DueStarts
  <2>6. \A v \in Units : Due(v)' <=> Due(v)
    BY <2>3 DEF Due, Own
  <2>7. Sound(u, bag) \/ Due(u)
    BY <2>2 DEF PlanInv
  <2> QED
    BY <2>2, <2>4, <2>5, <2>6, <2>7 DEF PlanInv
<1>2. CASE Handle
  <2>1. /\ hook # None /\ hook \in HookType
        /\ UNCHANGED <<config, peerReady, up, leader, pending, bag>>
        /\ hook' # None => hook'.unit = hook.unit /\ Follows(hook')
    BY <1>2, HandleHandled, NoneAssumption DEF Handled, Goes, Passed, outside
  <2>2. \A v \in Units : /\ Sound(v, bag)' <=> (Accepted(bag) /\ up[v] => plan'[v] = PlanOf(bag))
                         /\ Due(v)' <=> Due(v)
    BY <2>1, SoundStays DEF Due, Own
  <2>3. ASSUME hook' # None
        PROVE  (Sound(hook.unit, hook.bag) \/ \E e \in Own(hook.unit) : Left(e))'
    <3>1. \/ Accepted(hook'.bag) /\ up[hook.unit] => plan'[hook.unit] = PlanOf(hook'.bag)
          \/ \E e \in Own(hook.unit) : Left(e)'
      BY <1>2, <2>3, HandleSound
    <3>2. Sound(hook.unit, hook.bag)' <=>
              (Accepted(hook'.bag) /\ up[hook.unit] => plan'[hook.unit] = PlanOf(hook'.bag))
      BY <2>1, <2>3, SoundStays
    <3>3. Own(hook.unit)' = Own(hook.unit)
      BY <2>1, <2>3 DEF Own
    <3> QED
      BY <3>1, <3>2, <3>3
  <2>4. ASSUME NEW v \in Units
        PROVE  (\/ hook # None /\ Leading /\ v = leader /\ plan[v] # None
                \/ Sound(v, bag)
                \/ Due(v))'
    <3>1. CASE v # hook.unit
      BY <1>2, <2>1, <2>2, <3>1, PlanFacts DEF PlanInv, Sound, Leading
    <3>2. CASE v = hook.unit /\ ~Leading
      <4>1. CASE plan'[v] = plan[v]
        BY <2>1, <2>2, <3>2, <4>1 DEF PlanInv, Sound
      <4>2. CASE plan'[v] # plan[v]
        <5>1. hook' # None /\ plan'[v] = PlanOf(hook'.bag)
          BY <1>2, <3>2, <4>2, PlanFacts
        <5>2. hook'.bag = bag
          BY <2>1, <3>2, <5>1 DEF Follows, Ground, Following
        <5> QED
          BY <2>2, <5>1, <5>2
      <4> QED
        BY <4>1, <4>2
    <3>3. CASE v = hook.unit /\ Leading /\ hook' = None
      <4>1. Raised /\ plan' = plan
        BY <1>2, <3>3, RaisedFacts
      <4>2. CASE plan[v] = None
        BY <2>1, <2>2, <3>3, <4>1, <4>2 DEF PlanInv, Sound
      <4>3. CASE plan[v] # None
        <5>1. ~peerReady \/ config.shards = None
          BY <3>3, <4>1, <4>3 DEF Raised, NoCrash, Unreachable, Leading, Ground, Bare
        <5>2. ~Accepted(bag)
          BY <5>1, NeedsPeer DEF Accepted
        <5> QED
          BY <2>2, <5>2
      <4> QED
        BY <4>2, <4>3
    <3>4. CASE v = hook.unit /\ Leading /\ hook' # None
      <4>1. CASE plan'[v] # None
        BY <2>1, <3>4, <4>1 DEF Leading
      <4>2. CASE plan'[v] = None
        <5>1. plan[v] = None
          <6>1. plan'[v] # plan[v] => plan'[v] = PlanOf(hook'.bag) /\ Valid(hook'.bag)
            BY <1>2, <3>4, PlanFacts
          <6>2. hook'.bag \in StateType
            BY <3>4 DEF TypeOK, HookType
          <6>3. PlanOf(hook'.bag) \in PlanType
            BY <6>2, PlanOfType DEF TypeOK
          <6> QED
            BY <4>2, <6>1, <6>3, NoneAssumption
        <5> QED
          BY <2>1, <2>2, <3>4, <4>2, <5>1 DEF PlanInv, Sound
      <4> QED
        BY <4>1, <4>2
    <3> QED
      BY <3>1, <3>2, <3>3, <3>4
  <2> QED
    BY <2>3, <2>4 DEF PlanInv
<1>3. CASE SkipKept
  <2>1. /\ hook # None /\ hook' # None /\ hook'.unit = hook.unit /\ hook'.bag = hook.bag
        /\ UNCHANGED <<outside, plan>>
    BY <1>3, SkipFacts
  <2>2. UNCHANGED <<config, peerReady, up, leader, pending, bag, plan>>
    BY <2>1 DEF outside
  <2>3. /\ Sound(hook.unit, hook.bag)' <=> Sound(hook.unit, hook.bag)
        /\ \A v \in Units : Sound(v, bag)' <=> Sound(v, bag)
    BY <2>1, <2>2, SoundStays DEF Sound
  <2>4. \A v \in Units : Due(v)' <=> Due(v)
    BY <2>2 DEF Due, Own
  <2> QED
    BY <1>3, <2>1, <2>2, <2>3, <2>4, DueSkips DEF PlanInv, Leading
<1>4. CASE Commit
  <2>1. /\ hook # None /\ hook' = None
        /\ UNCHANGED <<config, peerReady, up, leader, plan>> /\ bag' = hook.bag
    BY <1>4 DEF Commit
  <2>2. \A v \in Units : Sound(v, bag)' <=> Sound(v, hook.bag)
    BY <2>1, SoundStays DEF Sound
  <2>3. ASSUME NEW v \in Units
        PROVE  (Sound(v, bag) \/ Due(v))'
    <3>1. CASE v = hook.unit
      BY <1>4, <2>1, <2>2, <3>1, DueCommits DEF PlanInv
    <3>2. CASE v # hook.unit
      <4>1. Sound(v, bag) \/ Due(v)
        BY <3>2 DEF PlanInv, Leading
      <4>2. Due(v) \/ hook.bag # bag => Due(v)'
        BY <1>4, <3>2, DueCommits
      <4> QED
        BY <2>2, <4>1, <4>2
    <3> QED
      BY <3>1, <3>2
  <2> QED
    BY <2>1, <2>3 DEF PlanInv
<1>5. ~Crash
  BY DEF NoCrash, Crash, Disturb
<1>6. CASE Announced
  <2>1. hook = None /\ hook' = None /\ bag' = bag
    BY <1>6 DEF Announced
  <2>2. ASSUME NEW v \in Units
        PROVE  (Sound(v, bag) \/ Due(v))'
    <3>1. CASE config' # config
      BY <1>6, <3>1, DueConfig
    <3>2. CASE ~up'[v]
      BY <3>2 DEF Sound
    <3>3. CASE up'[v] /\ Due(v)
      BY <1>6, <3>3, DueKept
    <3>4. CASE config' = config /\ up'[v] /\ Sound(v, bag)
      <4>1. Accepted(bag)' => Accepted(bag)
        BY <1>6, <3>4, AcceptedKept DEF Ground, Accepted
      <4>2. PlanOf(bag)' = PlanOf(bag)
        BY <2>1, <3>4 DEF PlanOf
      <4>3. CASE up'[v] = up[v] /\ plan'[v] = plan[v]
        BY <3>4, <4>1, <4>2, <4>3 DEF Sound
      <4>4. CASE "pebble_ready" \in pending'[v]
        BY <4>4 DEF Due, Own
      <4> QED
        BY <1>6, <3>4, <4>3, <4>4 DEF Announced, ContainerNews
    <3> QED
      BY <2>1, <3>1, <3>2, <3>3, <3>4 DEF PlanInv
  <2> QED
    BY <2>1, <2>2 DEF PlanInv
<1>7. CASE UNCHANGED vars
  <2>1. UNCHANGED <<config, peerReady, up, leader, pending, bag, plan, hook>>
    BY <1>7 DEF vars
  <2>2. /\ Sound(hook.unit, hook.bag)' <=> Sound(hook.unit, hook.bag)
        /\ \A v \in Units : Sound(v, bag)' <=> Sound(v, bag)
    BY <2>1, SoundStays DEF Sound
  <2>3. \A v \in Units : Due(v)' <=> Due(v)
    BY <2>1 DEF Due, Own
  <2>4. (\E e \in Own(hook.unit) : Left(e))' <=> \E e \in Own(hook.unit) : Left(e)
    BY <2>1 DEF Own, Left
  <2> QED
    BY <2>1, <2>2, <2>3, <2>4 DEF PlanInv, Leading
<1> QED
  BY <1>1, <1>2, <1>3, <1>4, <1>5, <1>6, <1>7, Steps

\* Once everything is delivered every unit of a valid deployment runs the plan
\* that configuration and databag call for, as long as the lease does not move,
\* no dispatch crashes and S3 can be reached.
THEOREM PlansConverge ==
    ASSUME "leader" \notin Disturbances, "crash" \notin Disturbances,
           "endpoint" \notin Disturbances
    PROVE  Spec => []Converged
<1> DEFINE Inv == AddrInv /\ CountInv /\ PlanInv
<1>1. LeaderStays /\ NoCrash
  BY DEF LeaderStays, NoCrash
<1>2. TypeOK /\ TypeOK' /\ Ground /\ Inv /\ [Next]_vars => Inv'
  BY <1>1, AddrKept, CountKept, PlanKept
<1>3. Init => Inv
  <2> SUFFICES ASSUME Init PROVE Inv
    OBVIOUS
  <2>1. AddrInv
    BY DEF Init, AddrInv, Moved, FreshState, NoConns
  <2>2. CountInv
    BY DEF Init, CountInv
  <2>3. PlanInv
    BY DEF Init, PlanInv, Due, Own
  <2> QED
    BY <2>1, <2>2, <2>3
<1>4. Spec => []Ground
  BY <1>1, GroundHolds
<1>5. TypeOK /\ Inv => Converged
  BY DEF PlanInv, Converged, Quiet, Sound, Accepted, Due
<1> HIDE DEF Inv
<1> QED
  BY <1>2, <1>3, <1>4, <1>5, TypeCorrect, PTL DEF Spec

(***************************************************************************)
(* The restart action, which reports Active whatever the state: without it *)
(* no dispatch and no queue ever holds its notice.                         *)
(***************************************************************************)
NotRestart(s) == \A n : Contains(s, n) => n.handler # "restart"

Unrestarted ==
    /\ \A u \in Units : /\ failed[u] # None => failed[u] # "restart"
                        /\ NotRestart(deferred[u])
    /\ hook # None => /\ hook.event # "restart"
                      /\ NotRestart(hook.todo)
                      /\ NotRestart(hook.kept)

\* No other event has it among its observers.
LEMMA ObserversNotRestart ==
    ASSUME NEW e \in Events, e # "restart"
    PROVE  NotRestart(Observers(e))
<1>1. CASE e \in {"db_changed", "visibility_changed"}
  <2> DEFINE r == IF e = "db_changed" THEN "db" ELSE "visibility"
             n == Notice("database_changed", r)
             m == Notice("admin_database_changed", r)
  <2>1. /\ n \in NoticeType /\ n.handler # "restart"
        /\ m \in NoticeType /\ m.handler # "restart"
    BY NoticeInType DEF Handlers, DBs, Notice
  <2>2. Observers(e) = <<n, m>>
    BY <1>1 DEF Observers
  <2> HIDE DEF n, m
  <2> DEFINE s == <<n, m>>
  <2>3. Len(s) = 2 /\ s[1] = n /\ s[2] = m /\ 1..2 = {1, 2}
    OBVIOUS
  <2> HIDE DEF s
  <2>4. \A x : Contains(s, x) => x = n \/ x = m
    BY <2>3 DEF Contains
  <2> QED
    BY <2>1, <2>2, <2>4 DEF NotRestart, s
<1>2. CASE e \in {"db_broken", "visibility_broken"}
  <2> DEFINE n == Notice("database_broken", IF e = "db_broken" THEN "db" ELSE "visibility")
  <2>1. Observers(e) = <<n>> /\ n.handler # "restart"
    BY <1>2 DEF Observers, Notice
  <2> HIDE DEF n
  <2> QED
    BY <2>1, OneFacts DEF NotRestart
<1>3. CASE e = "admin_broken"
  BY <1>3, OneFacts DEF Observers, NotRestart
<1>4. CASE e \notin {"db_changed", "visibility_changed", "db_broken",
                     "visibility_broken", "admin_broken"}
  <2> DEFINE n == Notice(e, "")
  <2>1. Observers(e) = <<n>> /\ n.handler # "restart"
    BY <1>4 DEF Observers, Notice
  <2> HIDE DEF n
  <2> QED
    BY <2>1, OneFacts DEF NotRestart
<1> QED
  BY <1>1, <1>2, <1>3, <1>4

\* Which events start a dispatch.
LEMMA StartsUnrestarted ==
    ASSUME NoRestarts, TypeOK, Unrestarted, Next, Started
    PROVE  \E u \in Units, e \in Events \ {"restart"} : Dispatch(u, e)
<1>1. hook = None /\ hook' # None
  BY StartFacts DEF Started
<1>2. ASSUME NEW u \in Units,
             \/ DispatchPending(u) \/ DispatchRetry(u)
             \/ DispatchUpdateStatus(u) \/ Action(u)
      PROVE  \E e \in Events \ {"restart"} : Dispatch(u, e)
  <2>1. /\ pending[u] \subseteq Events \ {"restart"}
        /\ failed[u] # None => failed[u] \in Events \ {"restart"}
    BY DEF TypeOK, Events, HookEvents, Unrestarted
  <2>2. "update_status" \in Events \ {"restart"} /\ "create_model" \in Events \ {"restart"}
    BY DEF Events, ActionEvents
  <2> QED
    BY <1>2, <2>1, <2>2 DEF DispatchPending, DispatchRetry, DispatchUpdateStatus,
       Action, DispatchAction, NoRestarts
<1>3. ~(Handle \/ SkipKept \/ Commit \/ Crash)
  BY <1>1, HandleHandled, NoneAssumption DEF SkipKept, Commit, Crash
<1>4. ~(PeerRelationCreated \/ \E u \in Units : ChangeLeader(u) \/ ContainerLost(u) \/ ContainerUp(u))
  BY <1>1 DEF PeerRelationCreated, ChangeLeader, ContainerLost, ContainerUp
<1>5. ~Environment
  BY <1>1, EnvironmentAnnounced DEF Announced
<1> QED
  BY <1>2, <1>3, <1>4, <1>5 DEF Next

\* Every step keeps it so.
LEMMA UnrestartedKept ==
    ASSUME LeaderStays, NoRestarts, TypeOK, Unrestarted, [Next]_vars
    PROVE  Unrestarted'
<1>1. CASE Next /\ Started
  <2>1. PICK u \in Units, e \in Events \ {"restart"} : Dispatch(u, e)
    BY <1>1, StartsUnrestarted
  <2>2. /\ hook'.event = e /\ hook'.kept = << >>
        /\ \A n : Contains(hook'.todo, n) <=>
                      Contains(deferred[u], n) \/ Contains(Observers(e), n)
        /\ UNCHANGED <<deferred, failed>>
    BY <2>1, StartFacts DEF outside
  <2>3. NotRestart(Observers(e)) /\ NotRestart(<< >>)
    BY ObserversNotRestart, OneFacts DEF NotRestart
  <2> QED
    BY <2>2, <2>3 DEF Unrestarted, NotRestart
<1>2. CASE Handle
  <2>1. /\ hook # None /\ hook \in HookType /\ hook.todo # << >> /\ deferred' = deferred
        /\ Handled
    BY <1>2, HandleHandled, NoneAssumption DEF outside
  <2>2. CASE hook' = None
    <3>1. failed' = [failed EXCEPT ![hook.unit] =
                        IF hook.event \in ActionEvents THEN None ELSE hook.event]
      BY <2>1, <2>2 DEF Handled, Raise
    <3>2. \A u \in Units : failed'[u] \in {failed[u], None, hook.event}
      BY <3>1 DEF TypeOK
    <3> QED
      BY <2>1, <2>2, <3>2 DEF Unrestarted
  <2>3. CASE hook' # None
    <3>1. Passed /\ failed' = failed
      BY <2>1, <2>3 DEF Handled, Goes
    <3>2. Contains(hook.todo, Head(hook.todo))
      BY <2>1, TailFacts DEF HookType
    <3>3. NotRestart(hook'.todo) /\ NotRestart(hook'.kept)
      BY <2>1, <3>1, <3>2 DEF Passed, Unrestarted, NotRestart
    <3> QED
      BY <2>1, <2>3, <3>1, <3>3 DEF Unrestarted, Passed
  <2> QED
    BY <2>2, <2>3
<1>3. CASE SkipKept
  <2>1. /\ hook # None /\ hook'.event = hook.event /\ hook'.kept = hook.kept
        /\ \A n : Contains(hook'.todo, n) => Contains(hook.todo, n)
        /\ UNCHANGED <<deferred, failed>>
    BY <1>3, SkipFacts DEF outside
  <2> QED
    BY <2>1 DEF Unrestarted, NotRestart
<1>4. CASE Commit
  <2>1. /\ hook # None /\ hook' = None
        /\ \A u \in Units : /\ deferred'[u] \in {deferred[u], hook.kept}
                            /\ failed'[u] \in {failed[u], None}
    BY <1>4 DEF Commit, TypeOK
  <2> QED
    BY <2>1 DEF Unrestarted
<1>5. CASE Crash
  <2>1. /\ hook # None /\ hook' = None /\ deferred' = deferred
        /\ \A u \in Units : failed'[u] \in {failed[u], None, hook.event}
    BY <1>5 DEF Crash, Raise, TypeOK
  <2> QED
    BY <2>1 DEF Unrestarted
<1>6. CASE Announced
  BY <1>6 DEF Announced, Unrestarted
<1>7. CASE UNCHANGED vars
  BY <1>7 DEF vars, Unrestarted
<1> QED
  BY <1>1, <1>2, <1>3, <1>4, <1>5, <1>6, <1>7, Steps

(***************************************************************************)
(* Statuses.  A unit may only be wrongly active while an event is left     *)
(* whose handler looks at its state again.                                 *)
(***************************************************************************)
ActiveAt(u, b) ==
    status[u] = "active" => (plan[u] # None /\ Valid(b)) \/ ~up[u]

\* Without peer relation no unit is active.
Idle == ~peerReady => \A u \in Units : status[u] # "active"

StatusInv ==
    /\ \A u \in Units :
          \/ Pins /\ u = leader /\ plan[u] # None
          \/ ActiveAt(u, bag)
          \/ Due(u)
    /\ hook # None =>
          ActiveAt(hook.unit, hook.bag) \/ \E e \in Own(hook.unit) : Left(e)
    /\ Idle

\* How a status is carried over a step.
LEMMA ActiveStays ==
    ASSUME UNCHANGED <<config, peerReady, up>>
    PROVE  /\ ActiveAt(hook.unit, hook.bag)' <=>
                 (status'[hook'.unit] = "active" =>
                     (plan'[hook'.unit] # None /\ Valid(hook'.bag)) \/ ~up[hook'.unit])
           /\ \A u \in Units :
                 ActiveAt(u, bag)' <=>
                     (status'[u] = "active" =>
                         (plan'[u] # None /\ Valid(bag')) \/ ~up[u])
  BY ValidStays DEF ActiveAt

\* A databag accepted before is accepted after, unless a change is announced.
LEMMA ValidKept ==
    ASSUME Announced, config' = config, Valid(bag)
    PROVE  Valid(bag)'
<1>1. bag' = bag /\ peerReady /\ peerReady'
  BY NeedsPeer DEF Announced
<1> QED
  BY <1>1 DEF Valid, PassesFirstChecks, ShardsAccepted, AuthorizationReady

\* What a handler makes of its unit's status.
LEMMA StatusHandled ==
    ASSUME TypeOK, Unrestarted, Handle, hook' # None
    PROVE  \/ status'[hook.unit] # "active"
           \/ ~up[hook.unit] /\ plan' = plan /\ status'[hook.unit] = status[hook.unit]
           \/ Valid(hook'.bag) /\ plan[hook.unit] # None /\ plan' = plan
           \/ Aside(hook') /\ plan' = plan /\ status'[hook.unit] = status[hook.unit]
<1>1. /\ hook # None /\ hook \in HookType /\ hook.todo # << >>
      /\ Updated(hook') \/ Aside(hook')
  BY HandleHandled, NoneAssumption DEF Handled, Goes
<1>2. Handling # "restart"
  <2>1. Contains(hook.todo, Head(hook.todo))
    BY <1>1, TailFacts DEF HookType
  <2> QED
    BY <1>1, <2>1 DEF Unrestarted, NotRestart, Handling
<1>3. CASE Updated(hook')
  BY <1>3 DEF Updated
<1>4. CASE Aside(hook')
  BY <1>2, <1>4 DEF Aside
<1> QED
  BY <1>1, <1>3, <1>4

\* The events a unit acts upon, after their own handler: it is not active
\* unless its state is valid.
LEMMA OwnStatus ==
    ASSUME TypeOK, Idle, Handle, hook' # None, Aside(hook'),
           status'[hook.unit] = status[hook.unit],
           NEW e \in Own(hook.unit), Left(e), ~Left(e)'
    PROVE  status'[hook.unit] # "active"
<1>1. /\ UNCHANGED outside /\ Passed /\ e \in Watched /\ hook \in HookType
  BY HandleHandled, OwnFacts DEF Handled, Goes
<1>2. Handling = First(e).handler
  BY <1>1, HandleLeaves
<1>3. CASE e = "config_changed"
  BY <1>2, <1>3, FirstFacts DEF Aside
<1>4. CASE e = "pebble_ready"
  BY <1>2, <1>4, FirstFacts DEF Aside
<1>5. CASE e = "peer_changed" /\ ~Leading
  BY <1>2, <1>5, FirstFacts DEF Aside
<1>6. CASE Leading /\ \E r \in DBs : e = DbChanged[r] \/ e = DbBroken[r]
  <2>1. ~peerReady
    BY <1>2, <1>6, FirstFacts DEF Aside
  <2> QED
    BY <1>1, <2>1 DEF Idle, HookType
<1> QED
  BY <1>3, <1>4, <1>5, <1>6 DEF Own, Leading

\* A handler leaves its unit's status right, or an event that puts it right.
LEMMA HandleActive ==
    ASSUME TypeOK, Unrestarted, StatusInv, Handle, hook' # None
    PROVE  \/ status'[hook.unit] = "active" =>
                  (plan'[hook.unit] # None /\ Valid(hook'.bag)) \/ ~up[hook.unit]
           \/ \E e \in Own(hook.unit) : Left(e)'
<1>1. hook # None
  BY HandleHandled, NoneAssumption
<1>2. CASE Aside(hook') /\ plan' = plan /\ status'[hook.unit] = status[hook.unit]
  <2>1. CASE \E e \in Own(hook.unit) : Left(e)
    <3>1. PICK e \in Own(hook.unit) : Left(e)
      BY <2>1
    <3>2. Left(e)' \/ status'[hook.unit] # "active"
      BY <1>2, <3>1, OwnStatus DEF StatusInv
    <3> QED
      BY <3>1, <3>2
  <2>2. CASE ActiveAt(hook.unit, hook.bag)
    BY <1>2, <2>2 DEF ActiveAt, Aside, PortRecorded
  <2> QED
    BY <1>1, <2>1, <2>2 DEF StatusInv
<1> QED
  BY <1>2, StatusHandled

\* Without crashes and restart actions every step keeps statuses so.
LEMMA StatusKept ==
    ASSUME LeaderStays, NoCrash, TypeOK, Ground, Unrestarted, StatusInv, [Next]_vars
    PROVE  StatusInv'
<1>1. CASE Started
  <2>1. PICK u \in Units, e \in Events : Dispatch(u, e)
    BY <1>1 DEF Started
  <2>2. /\ hook = None /\ hook' # None /\ hook'.unit = u /\ hook'.bag = bag
        /\ UNCHANGED <<outside, plan, status>>
    BY <2>1, StartFacts
  <2>3. UNCHANGED <<config, peerReady, up, leader, pending, bag>>
    BY <2>2 DEF outside
  <2>4. /\ ActiveAt(hook.unit, hook.bag)' <=> ActiveAt(u, bag)
        /\ \A v \in Units : ActiveAt(v, bag)' <=> ActiveAt(v, bag)
    BY <2>2, <2>3, ActiveStays DEF ActiveAt
  <2>5. Due(u) => (\E x \in Own(hook.unit) : Left(x))'
    BY <2>1, DueStarts
  <2>6. \A v \in Units : Due(v)' <=> Due(v)
    BY <2>3 DEF Due, Own
  <2>7. \A v \in Units : ActiveAt(v, bag) \/ Due(v)
    BY <2>2 DEF StatusInv, Pins
  <2>8. Idle'
    BY <2>2, <2>3 DEF StatusInv, Idle
  <2> QED
    BY <2>2, <2>4, <2>5, <2>6, <2>7, <2>8 DEF StatusInv
<1>2. CASE Handle
  <2>1. /\ hook # None /\ hook \in HookType
        /\ UNCHANGED <<config, peerReady, up, leader, pending, bag>>
        /\ \A u \in Units : u # hook.unit => status'[u] = status[u]
        /\ hook' # None => hook'.unit = hook.unit /\ Follows(hook')
        /\ hook' = None => status'[hook.unit] \in {status[hook.unit], "waiting", "maintenance"}
    BY <1>2, HandleHandled, NoneAssumption DEF Handled, Goes, Passed, outside
  <2>2. \A v \in Units : /\ ActiveAt(v, bag)' <=>
                                (status'[v] = "active" => (plan'[v] # None /\ Valid(bag)) \/ ~up[v])
                         /\ Due(v)' <=> Due(v)
    BY <2>1, ActiveStays DEF Due, Own
  <2>3. ASSUME hook' # None
        PROVE  (ActiveAt(hook.unit, hook.bag) \/ \E e \in Own(hook.unit) : Left(e))'
    <3>1. \/ status'[hook.unit] = "active" =>
                  (plan'[hook.unit] # None /\ Valid(hook'.bag)) \/ ~up[hook.unit]
          \/ \E e \in Own(hook.unit) : Left(e)'
      BY <1>2, <2>3, HandleActive
    <3>2. ActiveAt(hook.unit, hook.bag)' <=>
              (status'[hook.unit] = "active" =>
                  (plan'[hook.unit] # None /\ Valid(hook'.bag)) \/ ~up[hook.unit])
      BY <2>1, <2>3, ActiveStays
    <3>3. Own(hook.unit)' = Own(hook.unit)
      BY <2>1, <2>3 DEF Own
    <3> QED
      BY <3>1, <3>2, <3>3
  <2>4. ASSUME NEW v \in Units
        PROVE  (\/ Pins /\ v = leader /\ plan[v] # None
                \/ ActiveAt(v, bag)
                \/ Due(v))'
    <3>1. CASE v # hook.unit
      BY <1>2, <2>1, <2>2, <3>1, PlanFacts DEF StatusInv, ActiveAt, Pins, Leading
    <3>2. CASE v = hook.unit /\ hook' = None
      <4>1. Raised /\ plan' = plan
        BY <1>2, <3>2, RaisedFacts
      <4>2. ~(Pins /\ plan[v] # None /\ v = leader)
        BY <3>2, <4>1 DEF Pins, Raised, NoCrash, Unreachable, Leading, Ground, Bare
      <4> QED
        BY <2>1, <2>2, <3>2, <4>1, <4>2 DEF StatusInv, ActiveAt
    <3>3. CASE v = hook.unit /\ hook' # None /\ status'[v] # "active"
      BY <2>2, <3>3
    <3>4. CASE v = hook.unit /\ hook' # None /\ ~up[v]
      BY <2>2, <3>4
    <3>5. CASE /\ v = hook.unit /\ hook' # None
               /\ Valid(hook'.bag) /\ plan[v] # None /\ plan' = plan
      <4>1. CASE Leading
        <5>1. config.shards # None /\ peerReady
          BY <3>5, NeedsPeer
        <5> QED
          BY <2>1, <3>5, <4>1, <5>1 DEF Pins, Leading
      <4>2. CASE ~Leading
        <5>1. hook'.bag = bag
          BY <2>1, <3>5, <4>2 DEF Follows, Ground, Following
        <5> QED
          BY <2>2, <3>5, <5>1
      <4> QED
        BY <4>1, <4>2
    <3>6. CASE v = hook.unit /\ hook' # None /\ plan' = plan /\ status'[v] = status[v]
      <4>1. Pins => Pins'
        BY <2>1, <3>6 DEF Pins, Leading
      <4>2. ActiveAt(v, bag) => ActiveAt(v, bag)'
        BY <2>2, <3>6 DEF ActiveAt
      <4> QED
        BY <2>1, <2>2, <3>6, <4>1, <4>2 DEF StatusInv
    <3> QED
      BY <1>2, <3>1, <3>2, <3>3, <3>4, <3>5, <3>6, StatusHandled
  <2>5. Idle'
    <3>1. ~peerReady => status'[hook.unit] # "active"
      <4>1. CASE hook' = None
        BY <2>1, <4>1 DEF StatusInv, Idle, HookType
      <4>2. CASE hook' # None /\ status'[hook.unit] = status[hook.unit]
        BY <2>1, <4>2 DEF StatusInv, Idle, HookType
      <4>3. CASE hook' # None /\ Valid(hook'.bag)
        BY <4>3, NeedsPeer
      <4> QED
        BY <1>2, <4>1, <4>2, <4>3, StatusHandled
    <3> QED
      BY <2>1, <3>1 DEF StatusInv, Idle
  <2> QED
    BY <2>3, <2>4, <2>5 DEF StatusInv
<1>3. CASE SkipKept
  <2>1. /\ hook # None /\ hook' # None /\ hook'.unit = hook.unit /\ hook'.bag = hook.bag
        /\ UNCHANGED <<outside, plan, status>>
    BY <1>3, SkipFacts
  <2>2. UNCHANGED <<config, peerReady, up, leader, pending, bag, plan, status>>
    BY <2>1 DEF outside
  <2>3. /\ ActiveAt(hook.unit, hook.bag)' <=> ActiveAt(hook.unit, hook.bag)
        /\ \A v \in Units : ActiveAt(v, bag)' <=> ActiveAt(v, bag)
    BY <2>1, <2>2, ActiveStays DEF ActiveAt
  <2>4. /\ \A v \in Units : Due(v)' <=> Due(v)
        /\ Pins' <=> Pins
        /\ Idle' <=> Idle
    BY <2>1, <2>2 DEF Due, Own, Pins, Leading, Idle
  <2> QED
    BY <1>3, <2>1, <2>2, <2>3, <2>4, DueSkips DEF StatusInv
<1>4. CASE Commit
  <2>1. /\ hook # None /\ hook' = None
        /\ UNCHANGED <<config, peerReady, up, leader, plan, status>> /\ bag' = hook.bag
    BY <1>4 DEF Commit
  <2>2. \A v \in Units : ActiveAt(v, bag)' <=> ActiveAt(v, hook.bag)
    BY <2>1, ActiveStays DEF ActiveAt
  <2>3. ASSUME NEW v \in Units
        PROVE  (ActiveAt(v, bag) \/ Due(v))'
    <3>1. CASE v = hook.unit
      BY <1>4, <2>1, <2>2, <3>1, DueCommits DEF StatusInv
    <3>2. CASE v # hook.unit
      <4>1. ActiveAt(v, bag) \/ Due(v)
        BY <3>2 DEF StatusInv, Pins, Leading
      <4>2. Due(v) \/ hook.bag # bag => Due(v)'
        BY <1>4, <3>2, DueCommits
      <4> QED
        BY <2>2, <4>1, <4>2
    <3> QED
      BY <3>1, <3>2
  <2>4. Idle'
    BY <2>1 DEF StatusInv, Idle
  <2> QED
    BY <2>1, <2>3, <2>4 DEF StatusInv
<1>5. ~Crash
  BY DEF NoCrash, Crash, Disturb
<1>6. CASE Announced
  <2>1. hook = None /\ hook' = None /\ bag' = bag /\ status' = status
    BY <1>6 DEF Announced
  <2>2. ASSUME NEW v \in Units
        PROVE  (ActiveAt(v, bag) \/ Due(v))'
    <3>1. CASE config' # config
      BY <1>6, <3>1, DueConfig
    <3>2. CASE ~up'[v]
      BY <3>2 DEF ActiveAt
    <3>3. CASE up'[v] /\ Due(v)
      BY <1>6, <3>3, DueKept
    <3>4. CASE config' = config /\ up'[v] /\ ActiveAt(v, bag)
      <4>1. Valid(bag) => Valid(bag)'
        BY <1>6, <3>4, ValidKept
      <4>2. CASE up'[v] = up[v] /\ plan'[v] = plan[v]
        BY <2>1, <3>4, <4>1, <4>2 DEF ActiveAt
      <4>3. CASE "pebble_ready" \in pending'[v]
        BY <4>3 DEF Due, Own
      <4> QED
        BY <1>6, <3>4, <4>2, <4>3 DEF Announced, ContainerNews
    <3> QED
      BY <2>1, <3>1, <3>2, <3>3, <3>4 DEF StatusInv, Pins
  <2>3. Idle'
    BY <1>6, <2>1 DEF Announced, StatusInv, Idle
  <2> QED
    BY <2>1, <2>2, <2>3 DEF StatusInv
<1>7. CASE UNCHANGED vars
  <2>1. UNCHANGED <<config, peerReady, up, leader, pending, bag, plan, status, hook>>
    BY <1>7 DEF vars
  <2>2. /\ ActiveAt(hook.unit, hook.bag)' <=> ActiveAt(hook.unit, hook.bag)
        /\ \A v \in Units : ActiveAt(v, bag)' <=> ActiveAt(v, bag)
    BY <2>1, ActiveStays DEF ActiveAt
  <2>3. /\ \A v \in Units : Due(v)' <=> Due(v)
        /\ Pins' <=> Pins
        /\ Idle' <=> Idle
    BY <2>1 DEF Due, Own, Pins, Leading, Idle
  <2>4. (\E e \in Own(hook.unit) : Left(e))' <=> \E e \in Own(hook.unit) : Left(e)
    BY <2>1 DEF Own, Left
  <2> QED
    BY <2>1, <2>2, <2>3, <2>4 DEF StatusInv
<1> QED
  BY <1>1, <1>2, <1>3, <1>4, <1>5, <1>6, <1>7, Steps

\* Once everything is delivered a unit that reports Active has a workload and
\* a state _validate accepts, as long as the lease does not move, no dispatch
\* crashes, S3 can be reached and nobody runs the restart action.
THEOREM ActiveUnitsValid ==
    ASSUME "leader" \notin Disturbances, "crash" \notin Disturbances,
           "endpoint" \notin Disturbances, "restart" \notin Disturbances
    PROVE  Spec => []ActiveMeansValid
<1> DEFINE Inv == Unrestarted /\ StatusInv
<1>1. LeaderStays /\ NoCrash /\ NoRestarts
  BY DEF LeaderStays, NoCrash, NoRestarts
<1>2. TypeOK /\ Ground /\ Inv /\ [Next]_vars => Inv'
  BY <1>1, UnrestartedKept, StatusKept
<1>3. Init => Inv
  <2> SUFFICES ASSUME Init PROVE Inv
    OBVIOUS
  <2>1. Unrestarted
    BY OneFacts DEF Init, Unrestarted, NotRestart
  <2>2. StatusInv
    BY DEF Init, StatusInv, ActiveAt, Idle
  <2> QED
    BY <2>1, <2>2
<1>4. Spec => []Ground
  BY <1>1, GroundHolds
<1>5. TypeOK /\ Inv => ActiveMeansValid
  BY DEF StatusInv, ActiveMeansValid, Quiet, ActiveAt, Due, Pins
<1> HIDE DEF Inv
<1> QED
  BY <1>2, <1>3, <1>4, <1>5, TypeCorrect, PTL DEF Spec
================================================================================
