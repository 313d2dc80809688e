--------------------------- MODULE FrontendTlsProofs ---------------------------
(***************************************************************************)
(* Theorems about FrontendTls, for any kinds and number of outside changes. *)
(***************************************************************************)
EXTENDS FrontendTls, TLAPS

(***************************************************************************)
(* The inductive invariant: the certificates relation.                     *)
(***************************************************************************)
\* Whether the relation waits for a certificate.
Awaited == IF relation.alive /\ relation.cert = 0 THEN 1 ELSE 0

\* Every certificate costs an outside change.
CertificatesCounted ==
    /\ relation.cert <= relation.issued
    /\ relation.issued + Awaited + budget <= MaxDisturbances

\* The broken hook is pending until it has been run to the end, and the
\* relation is not made again before.
BrokenPending ==
    /\ relation.alive => "cert_broken" \notin pending
    /\ failed = "cert_broken" => "cert_broken" \in pending
    /\ hook # None /\ hook.event = "cert_broken" => "cert_broken" \in pending

(***************************************************************************)
(* The dispatch in progress.                                               *)
(***************************************************************************)
\* What it has still to handle was deferred, or is its own event at the end.
HookShape ==
    hook # None =>
        /\ hook.todo # << >> => hook.todo[Len(hook.todo)] = hook.event
        /\ \A e \in Events : Contains(hook.todo, e) => e = hook.event \/ Contains(deferred, e)
        /\ hook.at # "handler" =>
              hook.todo # << >> /\ Event \in HookEvents /\ config.valid /\ up
        /\ failed \in {None, hook.event}
        /\ up => hook.kept = << >>

\* Events are deferred only while the container is lost; it announces itself
\* when it is back.
DeferredWhileLost == deferred # << >> /\ up => "pebble_ready" \in pending

\* The unit is to have its certificate, and has it.
Wants   == config.frontend /\ Visible /\ relation.cert # 0
Current == files = [cert |-> relation.cert, key |-> TRUE]

\* How far _update has got.
UpdateInv ==
    hook # None =>
        /\ hook.extra => Wants
        /\ hook.at = "key" => Wants /\ hook.extra /\ files.cert = relation.cert
        /\ hook.at = "remove" /\ Wants => Current
        /\ hook.at \in {"config", "layer", "replan"} /\ Event # "cert_broken" /\ Wants => Current
        /\ hook.at \in {"layer", "replan"} => conf = Environment
        /\ hook.at = "replan" => plan = Environment

(***************************************************************************)
(* What is yet to come.                                                    *)
(***************************************************************************)
\* An event of F will be handled, even if the dispatch in progress dies: W are
\* those that stay pending until they are.
Due(F, W) ==
    \/ pending \cap W # {}
    \/ \E e \in F : Contains(deferred, e)
    \/ failed \in F
    \/ hook # None /\ hook.event \in F

\* An event of F will be handled, in this dispatch or after it has ended.
Left(F, W) ==
    \/ (pending \ {hook.event}) \cap W # {}
    \/ \E e \in F : Contains(hook.todo, e) \/ Contains(hook.kept, e)

\* The events that make _update plan the server, those that make it store
\* the certificate, and which of them are not taken back.
Plans        == {"config_changed", "pebble_ready", "cert_joined", "cert_available", "cert_broken"}
PlansPending == {"config_changed", "pebble_ready", "cert_broken"}
Stores        == {"config_changed", "pebble_ready", "cert_joined", "cert_available"}
StoresPending == {"config_changed", "pebble_ready", "cert_available"}

\* The server runs with the plan if that has connection c, and without the
\* relation neither has TLS.
Runs(c) ==
    /\ plan # None
    /\ server # None
    /\ plan.conn = c => server.env = plan
    /\ relation.alive \/ (~plan.tls /\ ~server.env.tls)

\* A dispatch in progress may see a connection the databag has not got yet.
SeenInv ==
    /\ hook = None => database.seen = database.saved
    /\ database.seen \in {database.saved, database.offered}

\* If the server does not run with the plan, there is an event that will see
\* to it: after the dispatch in progress has died, and after it has ended.
\* The _update of an update-status that has found another connection comes
\* without such an event, and plans what dies with it.
RunsInv ==
    Valid /\ up =>
        /\ Runs(database.saved) \/ Due(Plans, PlansPending)
        /\ hook # None /\ hook.at = "handler" => Runs(database.seen) \/ Left(Plans, PlansPending)
        /\ hook # None /\ hook.at # "handler" =>
              Due(Plans, PlansPending) \/ database.seen # database.saved

\* The same of the certificate.
StoredInv ==
    Serving /\ up =>
        /\ Current \/ Due(Stores, StoresPending)
        /\ hook # None => Current \/ Left(Stores, StoresPending)

\* A plan is never without its charm.yaml.
Configured == plan # None => conf # None

UnitTlsInv ==
    /\ TypeOK
    /\ Configured
    /\ CertificatesCounted
    /\ BrokenPending
    /\ HookShape
    /\ DeferredWhileLost
    /\ UpdateInv
    /\ SeenInv
    /\ RunsInv
    /\ StoredInv

(***************************************************************************)
(* Sequences of events.                                                    *)
(***************************************************************************)
\* What is in a sequence is its head or in its tail, which ends alike.
LEMMA TailFacts ==
    ASSUME NEW S, NEW s \in Seq(S), s # << >>
    PROVE  /\ Head(s) \in S
           /\ Tail(s) \in Seq(S)
           /\ \A e : Contains(s, e) <=> e = Head(s) \/ Contains(Tail(s), e)
           /\ Tail(s) # << >> => Tail(s)[Len(Tail(s))] = s[Len(s)]
<1>1. Len(s) \in Nat /\ Len(s) # 0 /\ Head(s) = s[1] /\ \A i \in 1..Len(s) : s[i] \in S
  OBVIOUS
<1>2. /\ Tail(s) \in Seq(S) /\ Len(Tail(s)) = Len(s) - 1
      /\ \A i \in 1..Len(Tail(s)) : Tail(s)[i] = s[i + 1]
  OBVIOUS
<1>3. ASSUME NEW e
      PROVE  Contains(s, e) <=> e = Head(s) \/ Contains(Tail(s), e)
  <2>1. ASSUME Contains(s, e), e # Head(s)
        PROVE  Contains(Tail(s), e)
    <3>1. PICK i \in 1..Len(s) : s[i] = e
      BY <2>1 DEF Contains
    <3>2. i # 1 /\ i - 1 \in 1..Len(Tail(s)) /\ (i - 1) + 1 = i
      BY <1>1, <1>2, <2>1, <3>1
    <3>3. Tail(s)[i - 1] = e
      BY <1>2, <3>1, <3>2
    <3> QED
      BY <3>2, <3>3 DEF Contains
  <2>2. e = Head(s) => Contains(s, e)
    <3>1. 1 \in 1..Len(s)
      BY <1>1
    <3> QED
      BY <1>1, <3>1 DEF Contains
  <2>3. ASSUME Contains(Tail(s), e)
        PROVE  Contains(s, e)
    <3>1. PICK i \in 1..Len(Tail(s)) : Tail(s)[i] = e
      BY <2>3 DEF Contains
    <3>2. i + 1 \in 1..Len(s) /\ s[i + 1] = e
      BY <1>1, <1>2, <3>1
    <3> QED
      BY <3>2 DEF Contains
  <2> QED
    BY <2>1, <2>2, <2>3
<1>4. ASSUME Tail(s) # << >>
      PROVE  Tail(s)[Len(Tail(s))] = s[Len(s)]
  <2>1. Len(Tail(s)) \in 1..Len(Tail(s)) /\ Len(Tail(s)) + 1 = Len(s)
    BY <1>1, <1>2, <1>4
  <2> QED
    BY <1>2, <2>1
<1> QED
  BY <1>1, <1>2, <1>3, <1>4

\* Appending adds one event, at the end.
LEMMA AppendFacts ==
    ASSUME NEW S, NEW s \in Seq(S), NEW x \in S
    PROVE  /\ Append(s, x) \in Seq(S)
           /\ Append(s, x) # << >>
           /\ Append(s, x)[Len(Append(s, x))] = x
           /\ \A e : Contains(Append(s, x), e) <=> e = x \/ Contains(s, e)
<1> DEFINE t == Append(s, x)
<1>1. /\ Len(s) \in Nat /\ t \in Seq(S) /\ Len(t) = Len(s) + 1
      /\ \A i \in 1..Len(s) : t[i] = s[i]
      /\ t[Len(s) + 1] = x
  OBVIOUS
<1> HIDE DEF t
<1>2. Len(t) \in 1..Len(t)
  BY <1>1
<1>3. ASSUME NEW e
      PROVE  Contains(t, e) <=> e = x \/ Contains(s, e)
  <2>1. ASSUME Contains(t, e), e # x
        PROVE  Contains(s, e)
    <3>1. PICK i \in 1..Len(t) : t[i] = e
      BY <2>1 DEF Contains
    <3>2. i \in 1..Len(s)
      BY <1>1, <2>1, <3>1
    <3> QED
      BY <1>1, <3>1, <3>2 DEF Contains
  <2>2. e = x => Contains(t, e)
    BY <1>1, <1>2 DEF Contains
  <2>3. ASSUME Contains(s, e)
        PROVE  Contains(t, e)
    <3>1. PICK i \in 1..Len(s) : s[i] = e
      BY <2>3 DEF Contains
    <3>2. i \in 1..Len(t) /\ t[i] = e
      BY <1>1, <3>1
    <3> QED
      BY <3>2 DEF Contains
  <2> QED
    BY <2>1, <2>2, <2>3
<1>4. t # << >>
  BY <1>1
<1> QED
  BY <1>1, <1>3, <1>4 DEF t

\* The last event is in the sequence, and nothing is in an empty one.
LEMMA SeqFacts ==
    ASSUME NEW S, NEW s \in Seq(S)
    PROVE  /\ s # << >> => Contains(s, s[Len(s)])
           /\ (\E e : Contains(s, e)) => s # << >>
           /\ \A e : Contains(s, e) => e \in S
<1>1. Len(s) \in Nat /\ \A i \in 1..Len(s) : s[i] \in S
  OBVIOUS
<1>2. s # << >> => Len(s) \in 1..Len(s)
  OBVIOUS
<1>3. s = << >> => 1..Len(s) = {}
  OBVIOUS
<1> QED
  BY <1>1, <1>2, <1>3 DEF Contains

(***************************************************************************)
(* Steps within a dispatch.                                                *)
(***************************************************************************)
\* The dispatch in progress has its fields.
LEMMA HookFields ==
    ASSUME TypeOK, hook # None
    PROVE  /\ hook \in HookType
           /\ hook.event \in Events /\ hook.todo \in Seq(Events) /\ hook.kept \in Seq(HookEvents)
           /\ hook.extra \in BOOLEAN /\ hook.at \in Steps
           /\ hook.todo # << >> => Event \in Events /\ Tail(hook.todo) \in Seq(Events)
<1>1. hook \in HookType
  BY DEF TypeOK
<1>2. /\ hook.event \in Events /\ hook.todo \in Seq(Events) /\ hook.kept \in Seq(HookEvents)
      /\ hook.extra \in BOOLEAN /\ hook.at \in Steps
  BY <1>1 DEF HookType
<1>3. hook.todo # << >> => Event \in Events /\ Tail(hook.todo) \in Seq(Events)
  BY <1>2, TailFacts DEF Event
<1> QED
  BY <1>1, <1>2, <1>3

\* A step of _update moves on in the dispatch and leaves the rest of it.
Moves(step, extra) ==
    /\ hook' \in HookType /\ hook' # None
    /\ hook'.event = hook.event /\ hook'.todo = hook.todo /\ hook'.kept = hook.kept
    /\ hook'.at = step /\ hook'.extra = extra

\* GoTo does so.
LEMMA GoToFacts ==
    ASSUME TypeOK, hook # None, NEW step \in Steps, GoTo(step)
    PROVE  Moves(step, hook.extra)
<1>1. hook \in HookType
  BY HookFields
<1>2. hook' = [event |-> hook.event, todo |-> hook.todo, kept |-> hook.kept,
               extra |-> hook.extra, at |-> step]
  BY <1>1 DEF GoTo, HookType
<1>3. hook' \in HookType
  BY <1>1, <1>2 DEF HookType
<1> QED
  BY <1>2, <1>3, TlsNoneAssumption DEF Moves, TlsNoneAssumption

\* Returning from a handler takes its event off the list; deferring keeps it.
HandlerDone(kept) ==
    /\ hook' \in HookType /\ hook' # None
    /\ hook'.event = hook.event /\ hook'.todo = Tail(hook.todo) /\ hook'.kept = kept
    /\ hook'.at = "handler" /\ hook'.extra = hook.extra

\* Return does so.
LEMMA ReturnFacts ==
    ASSUME TypeOK, hook # None, hook.todo # << >>, Return
    PROVE  HandlerDone(hook.kept)
<1>1. hook \in HookType /\ Tail(hook.todo) \in Seq(Events)
  BY HookFields
<1>2. hook' = [event |-> hook.event, todo |-> Tail(hook.todo), kept |-> hook.kept,
               extra |-> hook.extra, at |-> "handler"]
  BY <1>1 DEF Return, HookType
<1>3. hook' \in HookType
  BY <1>1, <1>2 DEF HookType, Steps
<1> QED
  BY <1>2, <1>3, TlsNoneAssumption DEF HandlerDone, TlsNoneAssumption

\* Defer does so.
LEMMA DeferFacts ==
    ASSUME TypeOK, hook # None, hook.todo # << >>, hook.at = "handler", Event \in HookEvents, Defer
    PROVE  HandlerDone(Append(hook.kept, Event))
<1>1. hook \in HookType /\ Tail(hook.todo) \in Seq(Events) /\ hook.kept \in Seq(HookEvents)
  BY HookFields
<1>2. hook' = [event |-> hook.event, todo |-> Tail(hook.todo), kept |-> Append(hook.kept, Event),
               extra |-> hook.extra, at |-> "handler"]
  BY <1>1 DEF Defer, HookType
<1>3. Append(hook.kept, Event) \in Seq(HookEvents)
  BY <1>1, AppendFacts
<1>4. hook' \in HookType
  BY <1>1, <1>2, <1>3 DEF HookType, Steps
<1> QED
  BY <1>2, <1>4, TlsNoneAssumption DEF HandlerDone, TlsNoneAssumption

\* What a step of a dispatch leaves alone, and what follows from that.
Within ==
    /\ hook # None /\ hook' # None /\ hook'.event = hook.event
    /\ UNCHANGED <<outside, delivery>>

\* Relation, pending events and what will come of them are as before.
LEMMA WithinFacts ==
    ASSUME UnitTlsInv, Within
    PROVE  /\ Wants' <=> Wants
           /\ Serving' <=> Serving
           /\ CertificatesCounted' /\ BrokenPending' /\ DeferredWhileLost'
           /\ \A F, W : Due(F, W)' <=> Due(F, W)
<1>1. /\ config' = config /\ relation' = relation /\ up' = up /\ budget' = budget
      /\ pending' = pending /\ deferred' = deferred /\ failed' = failed
      /\ hook'.event = hook.event /\ hook # None /\ hook' # None
  BY DEF Within, outside, delivery
<1> QED
  BY <1>1 DEF UnitTlsInv, Wants, Visible, Serving, Valid, CertificatesCounted, Awaited,
     BrokenPending, DeferredWhileLost, Due

\* A step that moves on leaves the list of events alone.
LEMMA MovesFacts ==
    ASSUME UnitTlsInv, Within, NEW step, NEW extra, Moves(step, extra),
           hook.todo # << >>, Event \in HookEvents, config.valid, up
    PROVE  /\ HookShape'
           /\ Event' = Event
           /\ \A F, W : Left(F, W)' <=> Left(F, W)
<1>1. /\ config' = config /\ up' = up /\ pending' = pending /\ deferred' = deferred
      /\ failed' = failed /\ hook # None /\ hook' # None
      /\ hook'.event = hook.event /\ hook'.todo = hook.todo /\ hook'.kept = hook.kept
  BY DEF Within, Moves, outside, delivery
<1>2. HookShape'
  BY <1>1 DEF UnitTlsInv, HookShape, Event
<1>3. Event' = Event
  BY <1>1 DEF Event
<1>4. \A F, W : Left(F, W)' <=> Left(F, W)
  BY <1>1 DEF Left
<1> QED
  BY <1>2, <1>3, <1>4

\* A handler that is done leaves what the others will see to.
LEMMA DoneFacts ==
    ASSUME UnitTlsInv, Within, NEW kept, HandlerDone(kept), hook.todo # << >>,
           kept = hook.kept \/ ~up
    PROVE  /\ HookShape'
           /\ UpdateInv'
           /\ \A F, W : kept = hook.kept /\ Left(F, W) /\ Event \notin F => Left(F, W)'
<1>1. /\ config' = config /\ up' = up /\ pending' = pending /\ deferred' = deferred
      /\ failed' = failed /\ hook # None /\ hook' # None
      /\ hook'.event = hook.event /\ hook'.todo = Tail(hook.todo) /\ hook'.kept = kept
      /\ hook'.at = "handler" /\ hook'.extra = hook.extra
  BY DEF Within, HandlerDone, outside, delivery
<1>2. hook.todo \in Seq(Events)
  BY <1>1, HookFields DEF UnitTlsInv
<1>3. /\ \A e : Contains(hook.todo, e) <=> e = Event \/ Contains(Tail(hook.todo), e)
      /\ Tail(hook.todo) # << >> => Tail(hook.todo)[Len(Tail(hook.todo))] = hook.todo[Len(hook.todo)]
  BY <1>2, TailFacts DEF Event
<1>4. HookShape'
  BY <1>1, <1>3 DEF UnitTlsInv, HookShape
<1>5. UpdateInv'
  <2>1. Wants' <=> Wants
    BY WithinFacts
  <2> QED
    BY <1>1, <2>1 DEF UnitTlsInv, UpdateInv
<1>6. \A F, W : kept = hook.kept /\ Left(F, W) /\ Event \notin F => Left(F, W)'
  BY <1>1, <1>3 DEF Left
<1> QED
  BY <1>4, <1>5, <1>6

\* A handler that does not plan keeps the invariant.
LEMMA DoneInv ==
    ASSUME UnitTlsInv, TypeOK', Within, NEW kept, HandlerDone(kept), hook.todo # << >>,
           hook.at = "handler", kept = hook.kept \/ ~up,
           files' = files, conf' = conf, plan' = plan, SeenInv',
           Valid /\ up =>
              /\ database' = database
              /\ \A c : Runs(c) => Runs(c)'
              /\ Event \notin Plans
    PROVE  UnitTlsInv'
<1>1. /\ config' = config /\ up' = up /\ relation' = relation /\ hook' # None /\ hook # None
      /\ hook'.at = "handler"
  BY DEF Within, HandlerDone, outside
<1>2. /\ CertificatesCounted' /\ BrokenPending' /\ DeferredWhileLost'
      /\ Serving' <=> Serving
      /\ \A F, W : Due(F, W)' <=> Due(F, W)
  BY WithinFacts
<1>3. /\ HookShape' /\ UpdateInv'
      /\ \A F, W : kept = hook.kept /\ Left(F, W) /\ Event \notin F => Left(F, W)'
  BY DoneFacts
<1>4. RunsInv'
  <2>1. ASSUME Valid, up
        PROVE  /\ Runs(database.saved)' \/ Due(Plans, PlansPending)
               /\ Runs(database.seen)' \/ Left(Plans, PlansPending)'
    <3>1. /\ Runs(database.saved) \/ Due(Plans, PlansPending)
          /\ hook.at = "handler" => Runs(database.seen) \/ Left(Plans, PlansPending)
      BY <1>1, <2>1 DEF UnitTlsInv, RunsInv
    <3>2. \A c : Runs(c) => Runs(c)'
      BY <2>1
    <3>3. database'.saved = database.saved /\ database'.seen = database.seen
      BY <2>1
    <3>4. Runs(database.saved) => Runs(database.saved)'
      BY <3>2, <3>3 DEF Runs
    <3>5. Runs(database.seen) => Runs(database.seen)'
      BY <3>2, <3>3 DEF Runs
    <3> QED
      BY <1>3, <2>1, <3>1, <3>4, <3>5
  <2> QED
    BY <1>1, <1>2, <2>1 DEF RunsInv, Valid
<1>5. Stores \subseteq Plans
  BY DEF Stores, Plans
<1>6. StoredInv'
  BY <1>1, <1>2, <1>3, <1>5 DEF UnitTlsInv, StoredInv, Serving, Valid, Current
<1>7. Configured'
  BY DEF UnitTlsInv, Configured
<1> QED
  BY <1>2, <1>3, <1>4, <1>6, <1>7 DEF UnitTlsInv

\* _update, as far as its first effect on the workload.
LEMMA UpdateKeeps ==
    ASSUME UnitTlsInv, NEW e \in HookEvents, Handler(e), SeenInv',
           database' \in [offered : {0, 1}, saved : {0, 1}, seen : {0, 1}],
           database'.saved = database.saved,
           \/ (e \in Plans \/ plan = None) /\ database' = database
           \/ config.valid /\ e \notin Plans /\ database'.seen # database'.saved,
           NEW s \in {"waiting", "blocked", "maintenance", "active"}, Update(s),
           UNCHANGED <<outside, delivery, workload>>
    PROVE  UnitTlsInv'
<1> USE DEF UnitTlsInv
<1>1. hook # None /\ hook.at = "handler" /\ hook.todo # << >> /\ Event = e
  BY DEF Handler, At, Running, Event
<1>2. /\ config' = config /\ relation' = relation /\ up' = up /\ budget' = budget
      /\ pending' = pending /\ deferred' = deferred /\ failed' = failed
      /\ files' = files /\ conf' = conf /\ plan' = plan /\ server' = server
  BY DEF outside, delivery, workload
<1>3. status' \in {"waiting", "blocked", "maintenance", "active"}
  BY DEF Update
<1>4. ASSUME hook' \in HookType
      PROVE  TypeOK'
  BY <1>2, <1>3, <1>4 DEF TypeOK
<1>5. CASE ~config.valid /\ Return
  <2>1. HandlerDone(hook.kept)
    BY <1>1, <1>5, ReturnFacts
  <2>2. Within /\ TypeOK'
    BY <1>1, <1>4, <2>1 DEF HandlerDone, Within
  <2> QED
    BY <1>1, <1>2, <1>5, <2>1, <2>2, DoneInv DEF Valid
<1>6. CASE ~up /\ Defer
  <2>1. HandlerDone(Append(hook.kept, Event))
    BY <1>1, <1>6, DeferFacts
  <2>2. Within /\ TypeOK'
    BY <1>1, <1>4, <2>1 DEF HandlerDone, Within
  <2> QED
    BY <1>1, <1>2, <1>6, <2>1, <2>2, DoneInv
<1>7. CASE config.valid /\ up /\ GoTo("tls")
  <2>1. Moves("tls", hook.extra)
    BY <1>1, <1>7, GoToFacts DEF Steps
  <2>2. /\ Within /\ TypeOK' /\ hook' # None /\ hook'.at = "tls" /\ hook'.extra = hook.extra
    BY <1>1, <1>4, <2>1 DEF Moves, Within
  <2>3. /\ CertificatesCounted' /\ BrokenPending' /\ DeferredWhileLost'
        /\ Wants' <=> Wants
        /\ Serving' <=> Serving
        /\ \A F, W : Due(F, W)' <=> Due(F, W)
    BY <2>2, WithinFacts
  <2>4. HookShape' /\ \A F, W : Left(F, W)' <=> Left(F, W)
    BY <1>1, <1>7, <2>1, <2>2, MovesFacts
  <2>5. UpdateInv'
    BY <1>1, <2>2, <2>3 DEF UpdateInv
  <2>6. Valid => Due(Plans, PlansPending) \/ database'.seen # database'.saved
    <3>1. CASE e \in Plans
      <4>1. Contains(hook.todo, e)
        BY <1>1, HookFields, TailFacts DEF Event
      <4>2. e = hook.event \/ Contains(deferred, e)
        BY <1>1, <4>1 DEF HookShape, Events
      <4> QED
        BY <1>1, <3>1, <4>2 DEF Due
    <3>2. CASE plan = None
      BY <1>1, <1>7, <3>2 DEF RunsInv, Runs
    <3> QED
      BY <3>1, <3>2
  <2>7. RunsInv'
    <3>1. Valid => Runs(database.saved)' \/ Due(Plans, PlansPending)
      BY <1>1, <1>2, <1>7 DEF RunsInv, Runs
    <3> QED
      BY <1>2, <2>2, <2>3, <2>6, <3>1 DEF RunsInv, Valid
  <2>8. StoredInv'
    BY <1>1, <1>2, <2>3, <2>4 DEF StoredInv, Current
  <2>9. Configured'
    BY <1>2 DEF Configured
  <2> QED
    BY <2>2, <2>3, <2>4, <2>5, <2>7, <2>8, <2>9
<1> QED
  BY <1>5, <1>6, <1>7 DEF Update

\* The dispatch goes on after a handler's part of _update.
LEMMA UpdateGoesOn ==
    ASSUME TypeOK, hook # None, hook.todo # << >>, hook.at = "handler", Event \in HookEvents,
           NEW s, Update(s)
    PROVE  hook' # None
<1>1. CASE Return
  BY <1>1, ReturnFacts DEF HandlerDone
<1>2. CASE Defer
  BY <1>2, DeferFacts DEF HandlerDone
<1>3. CASE GoTo("tls")
  BY <1>3, GoToFacts DEF Moves, Steps
<1> QED
  BY <1>1, <1>2, <1>3 DEF Update

\* And with it what it sees of the databag.
LEMMA UnchangedDatabase ==
    ASSUME UnitTlsInv, NEW e \in HookEvents, Handler(e), NEW s, Update(s), UNCHANGED database
    PROVE  /\ SeenInv'
           /\ database' \in [offered : {0, 1}, saved : {0, 1}, seen : {0, 1}]
           /\ database'.saved = database.saved
<1>1. hook' # None
  BY UpdateGoesOn DEF UnitTlsInv, Handler, At, Running, Event
<1> QED
  BY <1>1 DEF UnitTlsInv, TypeOK, SeenInv

\* The handlers that call _update.
LEMMA HandlersInv ==
    ASSUME UnitTlsInv, OnUpdate \/ OnConfigChanged \/ OnUpdateStatus
    PROVE  UnitTlsInv'
<1>1. status \in {"waiting", "blocked", "maintenance", "active"}
  BY DEF UnitTlsInv, TypeOK
<1>2. CASE OnUpdate
  <2>1. PICK e \in {"pebble_ready", "cert_joined", "cert_available", "cert_broken"} : Handler(e)
    BY <1>2 DEF OnUpdate
  <2>2. e \in HookEvents /\ e \in Plans
    BY DEF HookEvents, Plans
  <2> QED
    BY <1>1, <1>2, <2>1, <2>2, UpdateKeeps, UnchangedDatabase DEF OnUpdate, model, outside
<1>3. CASE OnConfigChanged
  <2>1. "config_changed" \in HookEvents /\ "config_changed" \in Plans
    BY DEF HookEvents, Plans
  <2>2. UNCHANGED <<outside, database, delivery, workload>>
    BY <1>3 DEF OnConfigChanged, model, outside
  <2>3. CASE Update("waiting")
    BY <1>3, <2>1, <2>2, <2>3, UpdateKeeps, UnchangedDatabase DEF OnConfigChanged
  <2>4. CASE ~config.dns /\ Return /\ status' = "blocked"
    <3>1. hook # None /\ hook.at = "handler" /\ hook.todo # << >>
      BY <1>3 DEF OnConfigChanged, Handler, At, Running
    <3>2. HandlerDone(hook.kept)
      BY <2>4, <3>1, ReturnFacts DEF UnitTlsInv
    <3>3. Within
      BY <2>2, <3>1, <3>2 DEF HandlerDone, Within
    <3>4. TypeOK' /\ SeenInv'
      BY <2>2, <2>4, <3>1, <3>2
         DEF UnitTlsInv, TypeOK, SeenInv, HandlerDone, outside, delivery, workload
    <3>5. files' = files /\ conf' = conf /\ plan' = plan
      BY <2>2 DEF workload
    <3> QED
      BY <2>4, <3>1, <3>2, <3>3, <3>4, <3>5, DoneInv DEF Valid
  <2> QED
    BY <1>3, <2>3, <2>4 DEF OnConfigChanged
<1>4. CASE OnUpdateStatus
  <2>1. "update_status" \in HookEvents /\ "update_status" \notin Plans
    BY DEF HookEvents, Plans
  <2>2. /\ Handler("update_status")
        /\ hook # None /\ hook.at = "handler" /\ hook.todo # << >> /\ Event = "update_status"
        /\ UNCHANGED <<outside, delivery, workload>>
    BY <1>4 DEF OnUpdateStatus, Handler, At, Running, Event
  <2>3. CASE plan = None /\ Update(status) /\ UNCHANGED database
    BY <1>1, <2>1, <2>2, <2>3, UpdateKeeps, UnchangedDatabase
  <2>4. CASE /\ config.valid /\ ShouldUpdate /\ Update(status)
             /\ database' = [database EXCEPT !.seen = database.offered]
    <3>1. /\ database \in [offered : {0, 1}, saved : {0, 1}, seen : {0, 1}]
          /\ database.seen \in {database.saved, database.offered}
      BY DEF UnitTlsInv, TypeOK, SeenInv
    <3>2. database' = [offered |-> database.offered, saved |-> database.saved,
                       seen |-> database.offered]
      BY <2>4, <3>1
    <3>3. /\ database' \in [offered : {0, 1}, saved : {0, 1}, seen : {0, 1}]
          /\ database'.saved = database.saved /\ database'.seen # database'.saved
      BY <2>4, <3>1, <3>2 DEF ShouldUpdate
    <3>4. hook' # None
      BY <2>2, <2>4, UpdateGoesOn DEF UnitTlsInv, HookEvents
    <3>5. SeenInv'
      BY <3>2, <3>4 DEF SeenInv
    <3> QED
      BY <1>1, <2>1, <2>2, <2>4, <3>3, <3>5, UpdateKeeps
  <2>5. CASE Return /\ status' \in {status, "active", "maintenance"} /\ UNCHANGED database
    <3>1. HandlerDone(hook.kept)
      BY <2>2, <2>5, ReturnFacts DEF UnitTlsInv
    <3>2. Within
      BY <2>2, <3>1 DEF HandlerDone, Within
    <3>3. TypeOK' /\ SeenInv'
      BY <1>1, <2>2, <2>5, <3>1
         DEF UnitTlsInv, TypeOK, SeenInv, HandlerDone, outside, delivery, workload
    <3>4. files' = files /\ conf' = conf /\ plan' = plan /\ \A c : Runs(c) => Runs(c)'
      BY <2>2 DEF Runs, workload, outside
    <3> QED
      BY <2>1, <2>2, <2>5, <3>1, <3>2, <3>3, <3>4, DoneInv
  <2> QED
    BY <1>4, <2>3, <2>4, <2>5 DEF OnUpdateStatus
<1> QED
  BY <1>2, <1>3, <1>4

\* A dispatch that dies is retried, unless it was the action.
LEMMA RaiseInv ==
    ASSUME UnitTlsInv, hook # None, Raise, TypeOK', CertificatesCounted',
           UNCHANGED <<config, relation, up, pending, deferred, workload>>
    PROVE  UnitTlsInv'
<1> USE DEF UnitTlsInv
<1>0. /\ database'.saved = database.saved /\ SeenInv'
  <2>1. database \in [offered : {0, 1}, saved : {0, 1}, seen : {0, 1}]
    BY DEF TypeOK
  <2>2. database' = [offered |-> database.offered, saved |-> database.saved,
                     seen |-> database.saved]
    BY <2>1 DEF Raise
  <2> QED
    BY <2>2 DEF SeenInv
<1>1. /\ config' = config /\ relation' = relation /\ up' = up
      /\ pending' = pending /\ deferred' = deferred
      /\ files' = files /\ plan' = plan /\ server' = server
      /\ hook' = None /\ failed' = IF hook.event = "restart" THEN None ELSE hook.event
  BY DEF Raise, workload
<1>2. HookShape' /\ UpdateInv' /\ DeferredWhileLost' /\ Configured'
  <2>1. conf' = conf
    BY DEF workload
  <2> QED
    BY <1>1, <2>1 DEF DeferredWhileLost, HookShape, UpdateInv, Configured
<1>6. BrokenPending'
  <2>1. None # "cert_broken"
    BY TlsNoneAssumption DEF TlsNoneAssumption, Events, HookEvents
  <2> QED
    BY <1>1, <2>1 DEF BrokenPending
<1>3. None \notin Plans /\ None \notin Stores /\ "restart" \notin Plans /\ "restart" \notin Stores
  BY TlsNoneAssumption DEF TlsNoneAssumption, Events, HookEvents, Plans, Stores
<1>4. /\ Due(Plans, PlansPending) => Due(Plans, PlansPending)'
      /\ Due(Stores, StoresPending) => Due(Stores, StoresPending)'
  BY <1>1, <1>3 DEF Due, HookShape
<1>5. RunsInv' /\ StoredInv'
  BY <1>0, <1>1, <1>4 DEF RunsInv, Runs, StoredInv, Serving, Valid, Current
<1> QED
  BY <1>0, <1>2, <1>5, <1>6

\* The restart action starts the plan there is, or fails.
LEMMA RestartInv == ASSUME UnitTlsInv, OnRestart PROVE UnitTlsInv'
<1>1. /\ hook # None /\ hook.at = "handler" /\ hook.todo # << >> /\ Event = "restart"
      /\ UNCHANGED <<outside, files, conf, plan>>
  BY DEF OnRestart, Handler, At, Running, Event
<1>2. CASE plan = None /\ Raise /\ status' = "maintenance" /\ UNCHANGED <<pending, deferred, server>>
  <2>1. TypeOK' /\ CertificatesCounted'
    <3>1. hook' = None /\ failed' \in HookEvents \cup {None}
      BY <1>1, <1>2, HookFields DEF Raise, Events, UnitTlsInv
    <3>2. database' \in [offered : {0, 1}, saved : {0, 1}, seen : {0, 1}]
      BY <1>2 DEF Raise, UnitTlsInv, TypeOK
    <3> QED
      BY <1>1, <1>2, <3>1, <3>2 DEF UnitTlsInv, TypeOK, CertificatesCounted, Awaited, outside
  <2> QED
    BY <1>1, <1>2, <2>1, RaiseInv DEF outside, workload
<1>3. CASE /\ plan # None /\ Return /\ status' = "active" /\ UNCHANGED <<database, delivery>>
           /\ server' = [env |-> plan, conf |-> conf, files |-> files]
  <2>1. HandlerDone(hook.kept)
    BY <1>1, <1>3, ReturnFacts DEF UnitTlsInv
  <2>2. Within
    BY <1>1, <1>3, <2>1 DEF HandlerDone, Within
  <2>3. "restart" \notin Plans
    BY DEF Plans
  <2>4. server' \in ServerType
    BY <1>3 DEF UnitTlsInv, TypeOK, Configured, ServerType
  <2>5. TypeOK' /\ SeenInv'
    BY <1>1, <1>3, <2>1, <2>4 DEF UnitTlsInv, TypeOK, SeenInv, HandlerDone, outside, delivery
  <2>6. \A c : Runs(c) => Runs(c)'
    BY <1>1, <1>3, <2>4, TlsNoneAssumption DEF Runs, TlsNoneAssumption, outside
  <2> QED
    BY <1>1, <1>3, <2>1, <2>2, <2>3, <2>5, <2>6, DoneInv
<1> QED
  BY <1>2, <1>3 DEF OnRestart

(***************************************************************************)
(* _update with a container that answers.                                  *)
(***************************************************************************)
\* What the steps of _update have in common.
LEMMA StageFacts ==
    ASSUME UnitTlsInv, NEW step, NEW extra, Moves(step, extra), hook # None, hook.at # "handler",
           UNCHANGED <<model, delivery>>, step # "handler",
           Valid =>
              \/ plan' = plan /\ server' = server
              \/ Due(Plans, PlansPending)
              \/ Runs(database.saved)'
    PROVE  /\ CertificatesCounted' /\ BrokenPending' /\ DeferredWhileLost' /\ HookShape'
           /\ SeenInv' /\ RunsInv'
           /\ Event' = Event
           /\ Wants' <=> Wants
           /\ Serving' <=> Serving
           /\ Due(Stores, StoresPending)' <=> Due(Stores, StoresPending)
           /\ Left(Stores, StoresPending)' <=> Left(Stores, StoresPending)
<1>1. Within /\ hook' # None
  BY DEF Within, Moves, model, outside
<1>2. hook.todo # << >> /\ Event \in HookEvents /\ config.valid /\ up
  BY DEF UnitTlsInv, HookShape
<1>3. /\ CertificatesCounted' /\ BrokenPending' /\ DeferredWhileLost'
      /\ Wants' <=> Wants
      /\ Serving' <=> Serving
      /\ \A F, W : Due(F, W)' <=> Due(F, W)
  BY <1>1, WithinFacts
<1>4. /\ HookShape' /\ Event' = Event
      /\ \A F, W : Left(F, W)' <=> Left(F, W)
  BY <1>1, <1>2, MovesFacts
<1>5. SeenInv'
  BY <1>1 DEF UnitTlsInv, SeenInv, model, outside
<1>6. RunsInv'
  <2>1. /\ config' = config /\ relation' = relation /\ up' = up /\ database' = database
        /\ hook'.at = step
    BY DEF model, outside, Moves
  <2>2. ASSUME Valid
        PROVE  /\ Runs(database.saved)' \/ Due(Plans, PlansPending)
               /\ Due(Plans, PlansPending) \/ database.seen # database.saved
    BY <1>2, <2>1, <2>2 DEF UnitTlsInv, RunsInv, Runs
  <2> QED
    BY <1>3, <2>1, <2>2 DEF RunsInv, Valid
<1> QED
  BY <1>3, <1>4, <1>5, <1>6

\* Who is served wants its certificate.
LEMMA ServingWants == ASSUME Serving PROVE Wants
  BY DEF Serving, Wants, Visible

\* The certificate is stored.
LEMMA HandleFrontendTlsInv == ASSUME UnitTlsInv, HandleFrontendTls PROVE UnitTlsInv'
<1>1. /\ hook # None /\ hook.at = "tls"
      /\ UNCHANGED <<model, delivery, conf, plan, server>>
  BY DEF HandleFrontendTls, At
<1>2. CASE GoTo("remove") /\ files' = files /\ (Wants => Current) /\ status' \in {status, "blocked", "waiting"}
  <2>1. Moves("remove", hook.extra)
    BY <1>1, <1>2, GoToFacts DEF UnitTlsInv, Steps
  <2>2. TypeOK' /\ Configured'
    BY <1>1, <1>2, <2>1 DEF UnitTlsInv, TypeOK, Configured, Moves, model, outside, delivery
  <2>3. UpdateInv'
    BY <1>1, <1>2, <2>1, StageFacts DEF UnitTlsInv, UpdateInv, Moves, Current, model, outside
  <2>4. StoredInv'
    BY <1>1, <1>2, <2>1, StageFacts DEF UnitTlsInv, StoredInv, Current, model, outside
  <2> QED
    BY <1>1, <2>1, <2>2, <2>3, <2>4, StageFacts DEF UnitTlsInv
<1>3. CASE /\ Wants /\ UpdateRequired
           /\ hook' = [hook EXCEPT !.extra = TRUE, !.at = "key"]
           /\ files' = [files EXCEPT !.cert = relation.cert]
           /\ status' = status
  <2>1. Moves("key", TRUE)
    <3>1. hook \in HookType
      BY <1>1, HookFields DEF UnitTlsInv
    <3>2. hook' = [event |-> hook.event, todo |-> hook.todo, kept |-> hook.kept,
                   extra |-> TRUE, at |-> "key"]
      BY <1>3, <3>1 DEF HookType
    <3>3. hook' \in HookType
      BY <3>1, <3>2 DEF HookType, Steps
    <3> QED
      BY <3>2, <3>3, TlsNoneAssumption DEF Moves, TlsNoneAssumption
  <2>2. files' \in FilesType /\ files'.cert = relation.cert
    BY <1>3 DEF UnitTlsInv, TypeOK, FilesType
  <2>3. TypeOK' /\ Configured'
    BY <1>1, <1>3, <2>1, <2>2 DEF UnitTlsInv, TypeOK, Configured, Moves, model, outside, delivery
  <2>4. UpdateInv'
    BY <1>1, <1>3, <2>1, <2>2, StageFacts DEF UnitTlsInv, UpdateInv, Moves, model, outside
  <2>5. ~Current
    BY <1>3 DEF UpdateRequired, Current
  <2>6. StoredInv'
    BY <1>1, <2>1, <2>5, StageFacts DEF UnitTlsInv, StoredInv, model, outside
  <2> QED
    BY <1>1, <2>1, <2>3, <2>4, <2>6, StageFacts DEF UnitTlsInv
<1>4. Wants /\ ~UpdateRequired => Current
  BY DEF UnitTlsInv, TypeOK, UpdateRequired, Current, FilesType
<1>5. CASE ~config.frontend /\ Visible
  BY <1>2, <1>5 DEF HandleFrontendTls, Wants
<1>6. CASE ~Visible
  BY <1>2, <1>6 DEF HandleFrontendTls, Wants
<1>7. CASE config.frontend /\ Visible /\ relation.cert = 0
  BY <1>2, <1>7 DEF HandleFrontendTls, Wants
<1>8. CASE config.frontend /\ Visible /\ relation.cert # 0 /\ ~UpdateRequired
  BY <1>2, <1>4, <1>8 DEF HandleFrontendTls, Wants
<1>9. CASE config.frontend /\ Visible /\ relation.cert # 0 /\ UpdateRequired
  BY <1>3, <1>9 DEF HandleFrontendTls, Wants
<1> QED
  BY <1>5, <1>6, <1>7, <1>8, <1>9 DEF HandleFrontendTls

\* And its key.
LEMMA StorePrivateKeyInv == ASSUME UnitTlsInv, StorePrivateKey PROVE UnitTlsInv'
<1>1. /\ hook # None /\ hook.at = "key"
      /\ GoTo("remove") /\ files' = [files EXCEPT !.key = TRUE]
      /\ UNCHANGED <<model, delivery, conf, plan, server, status>>
  BY DEF StorePrivateKey, At
<1>2. Moves("remove", hook.extra)
  BY <1>1, GoToFacts DEF UnitTlsInv, Steps
<1>3. files.cert = relation.cert
  BY <1>1 DEF UnitTlsInv, UpdateInv
<1>4. files' = [cert |-> relation.cert, key |-> TRUE] /\ files' \in FilesType
  BY <1>1, <1>3 DEF UnitTlsInv, TypeOK, FilesType
<1>5. relation' = relation
  BY <1>1 DEF model, outside
<1>6. Current'
  BY <1>4, <1>5 DEF Current
<1>7. TypeOK' /\ Configured'
  BY <1>1, <1>2, <1>4 DEF UnitTlsInv, TypeOK, Configured, Moves, model, outside, delivery
<1>8. UpdateInv'
  BY <1>1, <1>2, <1>6, StageFacts DEF UnitTlsInv, UpdateInv, Moves
<1>9. StoredInv'
  BY <1>6, <1>1, <1>2, StageFacts DEF StoredInv
<1> QED
  BY <1>1, <1>2, <1>7, <1>8, <1>9, StageFacts DEF UnitTlsInv

\* The handler of a broken relation that was deferred may find that the
\* relation has been made again, and removes the files all the same: the
\* container that made it be deferred is back, and its hook is still to come.
LEMMA RemoveCertificatesInv == ASSUME UnitTlsInv, RemoveCertificates PROVE UnitTlsInv'
<1> USE DEF UnitTlsInv
<1>1. /\ hook # None /\ hook.at = "remove"
      /\ GoTo("config") /\ files' = IF Event = "cert_broken" THEN NoFiles ELSE files
      /\ UNCHANGED <<model, delivery, conf, plan, server, status>>
  BY DEF RemoveCertificates, At
<1>2. Moves("config", hook.extra)
  BY <1>1, GoToFacts DEF Steps
<1>3. files' \in FilesType
  BY <1>1, TlsBoundAssumption DEF TypeOK, FilesType, NoFiles, TlsBoundAssumption
<1>4. TypeOK' /\ Configured'
  BY <1>1, <1>2, <1>3 DEF TypeOK, Configured, Moves, model, outside, delivery
<1>5. UpdateInv'
  BY <1>1, <1>2, StageFacts DEF UpdateInv, Moves, Current, model, outside
<1>6. StoredInv'
  <2>1. CASE Event # "cert_broken"
    BY <1>1, <1>2, <2>1, StageFacts DEF StoredInv, Current, model, outside
  <2>2. ASSUME Event = "cert_broken", Serving
        PROVE  Due(Stores, StoresPending) /\ Left(Stores, StoresPending)
    <3>1. hook.todo # << >> /\ up
      BY <1>1 DEF HookShape
    <3>2. Contains(hook.todo, "cert_broken") /\ hook.todo \in Seq(Events)
      BY <1>1, <2>2, <3>1, HookFields, TailFacts DEF Event
    <3>3. hook.event # "cert_broken"
      BY <1>1, <2>2 DEF BrokenPending, Serving
    <3>4. Contains(deferred, "cert_broken")
      BY <1>1, <3>2, <3>3 DEF HookShape, Events, HookEvents
    <3>5. deferred # << >>
      BY <3>4, SeqFacts DEF TypeOK
    <3>6. "pebble_ready" \in pending
      BY <3>1, <3>5 DEF DeferredWhileLost
    <3>7. hook.event = "pebble_ready" => Contains(hook.todo, "pebble_ready")
      BY <1>1, <3>1, <3>2, SeqFacts DEF HookShape
    <3> QED
      BY <3>6, <3>7 DEF Due, Left, Stores, StoresPending
  <2> QED
    BY <1>1, <1>2, <2>1, <2>2, StageFacts DEF StoredInv
<1> QED
  BY <1>1, <1>2, <1>4, <1>5, <1>6, StageFacts

\* charm.yaml and the layer are made of the same environment.
LEMMA PushInv == ASSUME UnitTlsInv, PushConfig \/ AddLayer PROVE UnitTlsInv'
<1> USE DEF UnitTlsInv
<1>1. Environment \in Environments
  <2>1. hook # None
    BY DEF PushConfig, AddLayer, At
  <2> QED
    BY <2>1, HookFields DEF Environment, Environments, TypeOK, Configs
<1>2. Environment # None
  BY <1>1, TlsNoneAssumption DEF TlsNoneAssumption
<1>3. CASE PushConfig
  <2>1. /\ hook # None /\ hook.at = "config" /\ GoTo("layer") /\ conf' = Environment
        /\ UNCHANGED <<model, delivery, files, plan, server, status>>
    BY <1>3 DEF PushConfig, At
  <2>2. Moves("layer", hook.extra)
    BY <2>1, GoToFacts DEF Steps
  <2>3. Environment' = Environment
    BY <2>1, <2>2 DEF Environment, Moves, model, outside
  <2>4. TypeOK' /\ Configured'
    BY <1>1, <1>2, <2>1, <2>2 DEF TypeOK, Configured, Moves, model, outside, delivery
  <2>5. UpdateInv'
    BY <2>1, <2>2, <2>3, StageFacts DEF UpdateInv, Moves, Current, model, outside
  <2>6. StoredInv'
    BY <2>1, <2>2, StageFacts DEF StoredInv, Current, model, outside
  <2> QED
    BY <2>1, <2>2, <2>4, <2>5, <2>6, StageFacts
<1>4. CASE AddLayer
  <2>1. /\ hook # None /\ hook.at = "layer" /\ GoTo("replan") /\ plan' = Environment
        /\ UNCHANGED <<model, delivery, files, conf, server, status>>
    BY <1>4 DEF AddLayer, At
  <2>2. Moves("replan", hook.extra)
    BY <2>1, GoToFacts DEF Steps
  <2>3. Environment' = Environment
    BY <2>1, <2>2 DEF Environment, Moves, model, outside
  <2>4. conf = Environment
    BY <2>1 DEF UpdateInv
  <2>5. TypeOK' /\ Configured'
    BY <1>1, <1>2, <2>1, <2>2, <2>4 DEF TypeOK, Configured, Moves, model, outside, delivery
  <2>6. Valid => Due(Plans, PlansPending) \/ Runs(database.saved)'
    <3>1. SUFFICES ASSUME Valid, ~Due(Plans, PlansPending)
                   PROVE  Runs(database.saved)'
      OBVIOUS
    <3>2. config.valid /\ up
      BY <2>1 DEF HookShape
    <3>3. Runs(database.saved) /\ database.seen # database.saved
      BY <2>1, <3>1, <3>2 DEF RunsInv
    <3>4. /\ plan' # None /\ plan'.conn = database.seen /\ plan'.tls = hook.extra
          /\ server' = server /\ relation' = relation /\ database' = database
      BY <1>2, <2>1 DEF Environment, model, outside
    <3>5. hook.extra => relation.alive
      <4>1. hook.extra => relation.alive \/ "cert_broken" \in pending
        BY <2>1 DEF UpdateInv, Wants, Visible
      <4> QED
        BY <3>1, <4>1 DEF Due, PlansPending
    <3> QED
      BY <3>3, <3>4, <3>5 DEF Runs
  <2>7. UpdateInv'
    BY <2>1, <2>2, <2>3, <2>6, StageFacts DEF UpdateInv, Moves, Current, model, outside
  <2>8. StoredInv'
    BY <2>1, <2>2, <2>6, StageFacts DEF StoredInv, Current, model, outside
  <2> QED
    BY <2>1, <2>2, <2>5, <2>6, <2>7, <2>8, StageFacts
<1> QED
  BY <1>3, <1>4

\* The server runs with the plan.
LEMMA ReplanInv == ASSUME UnitTlsInv, Replan PROVE UnitTlsInv'
<1> USE DEF UnitTlsInv
<1>1. /\ hook # None /\ hook.at = "replan" /\ Return /\ status' = "maintenance"
      /\ server' = IF server # None /\ server.env = plan THEN server
                   ELSE [env |-> plan, conf |-> conf, files |-> files]
      /\ UNCHANGED <<model, delivery, files, conf, plan>>
  BY DEF Replan, At
<1>2. hook.todo # << >> /\ config.valid /\ up
  BY <1>1 DEF HookShape
<1>3. HandlerDone(hook.kept)
  BY <1>1, <1>2, ReturnFacts
<1>4. Within /\ hook' # None /\ hook'.at = "handler"
  BY <1>1, <1>3 DEF HandlerDone, Within, model
<1>5. plan = Environment /\ conf = Environment
  BY <1>1 DEF UpdateInv
<1>6. plan # None /\ plan \in Environments /\ conf \in Environments
  <2>1. Environment \in Environments
    BY <1>1, HookFields DEF Environment, Environments, TypeOK, Configs
  <2> QED
    BY <1>5, <2>1, TlsNoneAssumption DEF TlsNoneAssumption
<1>7. /\ server' \in ServerType /\ server' # None /\ server'.env = plan
  <2>1. [env |-> plan, conf |-> conf, files |-> files] \in ServerType
    BY <1>6 DEF TypeOK, ServerType
  <2> QED
    BY <1>1, <2>1, TlsNoneAssumption DEF TypeOK, TlsNoneAssumption
<1>8. TypeOK' /\ Configured'
  BY <1>1, <1>3, <1>7 DEF TypeOK, Configured, HandlerDone, model, outside, delivery
<1>9. /\ CertificatesCounted' /\ BrokenPending' /\ DeferredWhileLost'
      /\ Serving' <=> Serving
      /\ \A F, W : Due(F, W)' <=> Due(F, W)
  BY <1>4, WithinFacts
<1>10. /\ HookShape' /\ UpdateInv'
       /\ \A F, W : Left(F, W) /\ Event \notin F => Left(F, W)'
  BY <1>2, <1>3, <1>4, DoneFacts
<1>11. ASSUME Valid
       PROVE  \/ \A c : Runs(c)'
              \/ Due(Plans, PlansPending)' /\ Left(Plans, PlansPending)'
  <2>1. CASE relation.alive \/ ~plan.tls
    <3>1. relation' = relation /\ plan' = plan
      BY <1>1 DEF model, outside
    <3> QED
      BY <1>6, <1>7, <2>1, <3>1 DEF Runs
  <2>2. CASE ~relation.alive /\ plan.tls
    <3>1. hook.extra
      BY <1>5, <2>2 DEF Environment
    <3>2. "cert_broken" \in pending /\ hook.event # "cert_broken"
      BY <1>1, <2>2, <3>1 DEF UpdateInv, Wants, Visible
    <3>3. Left(Plans, PlansPending)' /\ Due(Plans, PlansPending)'
      BY <1>1, <1>3, <3>2 DEF HandlerDone, Left, Due, PlansPending, delivery
    <3> QED
      BY <3>3
  <2> QED
    BY <2>1, <2>2
<1>12. RunsInv' /\ SeenInv'
  <2>1. config' = config /\ up' = up /\ database' = database
    BY <1>1 DEF model, outside
  <2>2. ASSUME Valid
        PROVE  /\ Runs(database.saved)' \/ Due(Plans, PlansPending)'
               /\ Runs(database.seen)' \/ Left(Plans, PlansPending)'
    BY <1>11, <2>1, <2>2 DEF Runs
  <2> QED
    BY <1>1, <1>4, <2>1, <2>2 DEF RunsInv, SeenInv, Valid
<1>13. StoredInv'
  <2>1. ASSUME Serving
        PROVE  /\ Current \/ Due(Stores, StoresPending)
               /\ Current \/ Left(Stores, StoresPending)'
    <3>1. CASE Event \in Stores
      <4>1. Event # "cert_broken"
        BY <3>1 DEF Stores
      <4> QED
        BY <1>1, <2>1, <4>1, ServingWants DEF UpdateInv
    <3>2. CASE Event \notin Stores
      BY <1>1, <1>2, <1>10, <2>1, <3>2 DEF StoredInv
    <3> QED
      BY <3>1, <3>2
  <2>2. Current' <=> Current
    BY <1>1 DEF Current, model, outside
  <2> QED
    BY <1>4, <1>9, <2>1, <2>2 DEF StoredInv
<1> QED
  BY <1>8, <1>9, <1>10, <1>12, <1>13

(***************************************************************************)
(* Dispatches.                                                             *)
(***************************************************************************)
\* A dispatch takes over all there is to be handled.
LEMMA DispatchKeeps ==
    ASSUME UnitTlsInv, NEW e \in Events, failed \in {None, e},
           e = "cert_broken" => e \in pending, Dispatch(e)
    PROVE  UnitTlsInv'
<1> USE DEF UnitTlsInv
<1>1. /\ hook = None
      /\ hook' = [event |-> e, todo |-> Append(deferred, e), kept |-> << >>,
                  extra |-> FALSE, at |-> "handler"]
      /\ config' = config /\ relation' = relation /\ up' = up /\ budget' = budget
      /\ pending' = pending /\ deferred' = deferred /\ failed' = failed
      /\ files' = files /\ conf' = conf /\ plan' = plan /\ server' = server /\ status' = status
      /\ database' = database
  BY DEF Dispatch, model, outside, delivery, workload
<1>2. deferred \in Seq(Events)
  BY DEF TypeOK, Events
<1>3. /\ Append(deferred, e) \in Seq(Events)
      /\ Append(deferred, e)[Len(Append(deferred, e))] = e
      /\ \A x : Contains(Append(deferred, e), x) <=> x = e \/ Contains(deferred, x)
  BY <1>2, AppendFacts
<1> DEFINE todo == Append(deferred, e)
<1> HIDE DEF todo
<1>4. /\ hook'.event = e /\ hook'.todo = todo /\ hook'.kept = << >>
      /\ hook'.extra = FALSE /\ hook'.at = "handler"
  BY <1>1 DEF todo
<1>5. hook' \in HookType
  BY <1>1, <1>3 DEF HookType, Steps
<1>6. hook' # None
  BY <1>5, TlsNoneAssumption DEF TlsNoneAssumption
<1>7. TypeOK' /\ CertificatesCounted' /\ Configured' /\ DeferredWhileLost'
  BY <1>1, <1>5 DEF TypeOK, CertificatesCounted, Awaited, Configured, DeferredWhileLost
<1>8. BrokenPending'
  BY <1>1, <1>4 DEF BrokenPending
<1>9. HookShape'
  BY <1>1, <1>3, <1>4 DEF HookShape, todo
<1>10. UpdateInv'
  BY <1>4 DEF UpdateInv
<1>11. ASSUME NEW F, NEW W, W \subseteq F, None \notin F, Due(F, W)
       PROVE  Due(F, W)' /\ Left(F, W)'
  <2>1. failed \in F => e \in F
    BY <1>11
  <2>2. \A x : Contains(todo, x) <=> x = e \/ Contains(deferred, x)
    BY <1>3 DEF todo
  <2>3. Due(F, W)'
    BY <1>1, <1>11 DEF Due
  <2>4. Left(F, W)'
    BY <1>1, <1>4, <1>11, <2>1, <2>2 DEF Due, Left
  <2> QED
    BY <2>3, <2>4
<1>12. /\ PlansPending \subseteq Plans /\ None \notin Plans
       /\ StoresPending \subseteq Stores /\ None \notin Stores
  BY TlsNoneAssumption
     DEF TlsNoneAssumption, Events, HookEvents, Plans, PlansPending, Stores, StoresPending
<1>13. /\ Due(Plans, PlansPending) => Due(Plans, PlansPending)' /\ Left(Plans, PlansPending)'
       /\ Due(Stores, StoresPending) => Due(Stores, StoresPending)' /\ Left(Stores, StoresPending)'
  BY <1>11, <1>12
<1>14. RunsInv'
  <2>1. database.seen = database.saved
    BY <1>1 DEF SeenInv
  <2>2. ASSUME Valid, up
        PROVE  /\ Runs(database.saved)' \/ Due(Plans, PlansPending)'
               /\ Runs(database.seen)' \/ Left(Plans, PlansPending)'
    BY <1>1, <1>13, <2>1, <2>2 DEF RunsInv, Runs
  <2> QED
    BY <1>1, <1>4, <2>2 DEF RunsInv, Valid
<1>15. StoredInv' /\ SeenInv'
  BY <1>1, <1>6, <1>13 DEF StoredInv, SeenInv, Serving, Valid, Current
<1> QED
  BY <1>7, <1>8, <1>9, <1>10, <1>14, <1>15

\* Hooks, retries, update-status and the action are dispatched.
LEMMA DispatchInv ==
    ASSUME UnitTlsInv,
           DispatchPending \/ DispatchRetry \/ DispatchUpdateStatus \/ DispatchRestart
    PROVE  UnitTlsInv'
<1>1. CASE DispatchPending
  <2>1. PICK e \in pending : failed = None /\ Dispatch(e)
    BY <1>1 DEF DispatchPending
  <2>2. e \in Events
    BY DEF UnitTlsInv, TypeOK, Events
  <2> QED
    BY <2>1, <2>2, DispatchKeeps
<1>2. CASE DispatchRetry
  <2>1. failed \in Events /\ (failed = "cert_broken" => failed \in pending)
    BY <1>2 DEF DispatchRetry, UnitTlsInv, TypeOK, Events, BrokenPending
  <2> QED
    BY <1>2, <2>1, DispatchKeeps DEF DispatchRetry
<1>3. CASE DispatchUpdateStatus
  BY <1>3, DispatchKeeps DEF DispatchUpdateStatus, Events, HookEvents
<1>4. CASE DispatchRestart
  BY <1>4, DispatchKeeps DEF DispatchRestart, Events
<1> QED
  BY <1>1, <1>2, <1>3, <1>4

\* A dispatch that ends leaves what it has deferred; an event that was deferred
\* in it is not handled again; one that dies is retried.
LEMMA EndInv == ASSUME UnitTlsInv, SkipKept \/ Commit \/ Crash PROVE UnitTlsInv'
<1> USE DEF UnitTlsInv
<1>1. CASE SkipKept
  <2>1. /\ hook # None /\ hook.at = "handler" /\ hook.todo # << >>
        /\ Contains(hook.kept, Event) /\ Return
        /\ UNCHANGED <<model, delivery, workload, status>>
    BY <1>1 DEF SkipKept, At
  <2>2. HandlerDone(hook.kept)
    BY <2>1, ReturnFacts
  <2>3. Within
    BY <2>1, <2>2 DEF HandlerDone, Within, model
  <2>4. TypeOK' /\ SeenInv'
    BY <2>1, <2>2 DEF TypeOK, SeenInv, HandlerDone, model, outside, delivery, workload
  <2>5. ~up
    BY <2>1, HookFields, SeqFacts DEF HookShape
  <2> QED
    BY <2>1, <2>2, <2>3, <2>4, <2>5, DoneInv DEF workload
<1>2. CASE Commit
  <2>1. /\ hook # None /\ hook.todo = << >> /\ hook' = None
        /\ pending' = pending \ {hook.event} /\ deferred' = hook.kept /\ failed' = None
        /\ config' = config /\ relation' = relation /\ up' = up /\ budget' = budget
        /\ files' = files /\ conf' = conf /\ plan' = plan /\ server' = server /\ status' = status
        /\ database' = [database EXCEPT !.saved = database.seen]
    BY <1>2 DEF Commit, outside, workload
  <2>0. /\ database' \in [offered : {0, 1}, saved : {0, 1}, seen : {0, 1}]
        /\ database'.saved = database.seen /\ database'.seen = database.seen
    BY <2>1 DEF TypeOK
  <2>2. TypeOK' /\ CertificatesCounted' /\ Configured'
    BY <2>0, <2>1, HookFields DEF TypeOK, CertificatesCounted, Awaited, Configured
  <2>3. None # "cert_broken"
    BY TlsNoneAssumption DEF TlsNoneAssumption, Events, HookEvents
  <2>4. BrokenPending' /\ DeferredWhileLost' /\ HookShape' /\ UpdateInv'
    BY <2>1, <2>3 DEF BrokenPending, DeferredWhileLost, HookShape, UpdateInv
  <2>5. ~\E e : Contains(hook.todo, e)
    BY <2>1, HookFields, SeqFacts
  <2>6. \A F, W : Left(F, W) => Due(F, W)'
    BY <2>1, <2>5 DEF Left, Due
  <2>7. RunsInv'
    <3>1. hook.at = "handler"
      BY <2>1 DEF HookShape
    <3>2. ASSUME Valid, up
          PROVE  Runs(database.saved)' \/ Due(Plans, PlansPending)'
      BY <2>0, <2>1, <2>6, <3>1, <3>2 DEF RunsInv, Runs
    <3> QED
      BY <2>1, <3>2 DEF RunsInv, Valid
  <2>8. StoredInv' /\ SeenInv'
    BY <2>0, <2>1, <2>6 DEF StoredInv, SeenInv, Serving, Valid, Current
  <2> QED
    BY <2>2, <2>4, <2>7, <2>8
<1>3. CASE Crash
  <2>1. /\ hook # None /\ Raise /\ budget > 0 /\ budget' = budget - 1
        /\ UNCHANGED <<config, relation, up, pending, deferred, workload, status>>
    BY <1>3 DEF Crash, Disturb
  <2>2. budget' \in 0..MaxDisturbances
    BY <2>1, TlsBoundAssumption DEF TypeOK, TlsBoundAssumption
  <2>3. hook' = None /\ failed' \in HookEvents \cup {None}
    BY <2>1, HookFields DEF Raise, Events
  <2>4. TypeOK'
    <3>1. database' \in [offered : {0, 1}, saved : {0, 1}, seen : {0, 1}]
      BY <2>1 DEF Raise, TypeOK
    <3> QED
      BY <2>1, <2>2, <2>3, <3>1 DEF TypeOK, workload
  <2>5. CertificatesCounted'
    BY <2>1, TlsBoundAssumption DEF TypeOK, CertificatesCounted, Awaited, TlsBoundAssumption
  <2> QED
    BY <2>1, <2>4, <2>5, RaiseInv
<1> QED
  BY <1>1, <1>2, <1>3

(***************************************************************************)
(* Outside changes.                                                        *)
(***************************************************************************)
\* Between dispatches there is nothing to say of one.
LEMMA NoDispatch == ASSUME hook' = None PROVE HookShape' /\ UpdateInv'
  BY DEF HookShape, UpdateInv

\* The bound goes down.
LEMMA DisturbFacts ==
    ASSUME TypeOK, NEW d, Disturb(d)
    PROVE  /\ budget \in Nat /\ budget' = budget - 1
           /\ budget' \in 0..MaxDisturbances
  BY TlsBoundAssumption DEF TypeOK, Disturb, TlsBoundAssumption

\* The relation with another certificate.
LEMMA ProviderRecord ==
    ASSUME NEW A, NEW C, NEW x \in [alive : A, cert : C, issued : C], NEW v
    PROVE  [x EXCEPT !.cert = v] = [alive |-> x.alive, cert |-> v, issued |-> x.issued]
  OBVIOUS

\* Options, connections and containers change with a hook, without one, or are lost.
LEMMA UnitChangedInv ==
    ASSUME UnitTlsInv,
           (\E c \in Configs : SetConfig(c)) \/ Rotate \/ ContainerLost \/ ContainerUp
    PROVE  UnitTlsInv'
<1> USE DEF UnitTlsInv
<1>1. ASSUME NEW c \in Configs, SetConfig(c)
      PROVE  UnitTlsInv'
  <2>0. PICK cert \in Assigned(c) : relation' = [relation EXCEPT !.cert = cert]
    BY <1>1 DEF SetConfig
  <2>1. /\ Disturb("config") /\ hook = None /\ hook' = None
        /\ config' = c /\ "config_changed" \in pending' /\ pending' \in SUBSET HookEvents
        /\ pending' \ {"config_changed"} \subseteq pending
        /\ pending \ {"cert_available"} \subseteq pending'
        /\ database' = database /\ up' = up /\ deferred' = deferred /\ failed' = failed
        /\ files' = files /\ conf' = conf /\ plan' = plan /\ server' = server /\ status' = status
    BY <1>1 DEF SetConfig, workload, TypeOK, HookEvents
  <2>2. budget \in Nat /\ budget' = budget - 1 /\ budget' \in 0..MaxDisturbances
    BY <2>1, DisturbFacts
  <2>3. cert \in {0, relation.cert, relation.issued}
    BY DEF Assigned
  <2>4. /\ relation \in [alive : BOOLEAN, cert : 0..MaxDisturbances, issued : 0..MaxDisturbances]
        /\ relation.cert \in Nat /\ relation.issued \in Nat
        /\ 0 \in 0..MaxDisturbances /\ MaxDisturbances \in Nat
    BY TlsBoundAssumption DEF TypeOK, TlsBoundAssumption
  <2>5. relation' = [alive |-> relation.alive, cert |-> cert, issued |-> relation.issued]
    BY <2>0, <2>4, ProviderRecord
  <2>6. TypeOK'
    <3>1. relation' \in [alive : BOOLEAN, cert : 0..MaxDisturbances, issued : 0..MaxDisturbances]
      BY <2>3, <2>4, <2>5
    <3> QED
      BY <2>1, <2>2, <3>1 DEF TypeOK
  <2>7. CertificatesCounted'
    <3>1. cert <= relation.issued /\ cert \in Nat
      BY <2>3, <2>4 DEF CertificatesCounted
    <3>2. Awaited' <= Awaited + 1 /\ Awaited \in Nat /\ Awaited' \in Nat
      BY DEF Awaited
    <3> QED
      BY <2>2, <2>4, <2>5, <3>1, <3>2 DEF CertificatesCounted
  <2>8. BrokenPending' /\ DeferredWhileLost' /\ Configured' /\ SeenInv'
    BY <2>1, <2>5 DEF BrokenPending, DeferredWhileLost, Configured, SeenInv
  <2>9. RunsInv' /\ StoredInv'
    BY <2>1 DEF RunsInv, StoredInv, Due, PlansPending, StoresPending
  <2> QED
    BY <2>1, <2>6, <2>7, <2>8, <2>9, NoDispatch
<1>2. CASE ContainerLost
  <2>1. /\ Disturb("container") /\ hook = None /\ hook' = None /\ up' = FALSE
        /\ files' = NoFiles /\ conf' = None /\ plan' = None /\ server' = None
        /\ pending' = pending \ {"pebble_ready"}
        /\ config' = config /\ relation' = relation /\ deferred' = deferred /\ failed' = failed
        /\ database' = database /\ status' = status
    BY <1>2 DEF ContainerLost
  <2>2. budget \in Nat /\ budget' = budget - 1 /\ budget' \in 0..MaxDisturbances
    BY <2>1, DisturbFacts
  <2>3. NoFiles \in FilesType
    BY TlsBoundAssumption DEF NoFiles, FilesType, TlsBoundAssumption
  <2>4. TypeOK'
    BY <2>1, <2>2, <2>3 DEF TypeOK
  <2>5. CertificatesCounted'
    BY <2>1, <2>2, TlsBoundAssumption DEF TypeOK, CertificatesCounted, Awaited, TlsBoundAssumption
  <2>6. BrokenPending' /\ DeferredWhileLost' /\ Configured' /\ SeenInv' /\ RunsInv' /\ StoredInv'
    BY <2>1 DEF BrokenPending, DeferredWhileLost, Configured, SeenInv, RunsInv, StoredInv
  <2> QED
    BY <2>1, <2>4, <2>5, <2>6, NoDispatch
<1>3. CASE ContainerUp
  <2>1. /\ hook = None /\ hook' = None /\ up' = TRUE
        /\ pending' = pending \cup {"pebble_ready"}
        /\ config' = config /\ relation' = relation /\ deferred' = deferred /\ failed' = failed
        /\ files' = files /\ conf' = conf /\ plan' = plan /\ server' = server
        /\ database' = database /\ status' = status /\ budget' = budget
    BY <1>3 DEF ContainerUp, workload
  <2>2. TypeOK' /\ CertificatesCounted'
    BY <2>1 DEF TypeOK, HookEvents, CertificatesCounted, Awaited
  <2>3. BrokenPending' /\ DeferredWhileLost' /\ Configured' /\ SeenInv'
    BY <2>1 DEF BrokenPending, DeferredWhileLost, Configured, SeenInv
  <2>4. RunsInv' /\ StoredInv'
    BY <2>1 DEF RunsInv, StoredInv, Due, PlansPending, StoresPending
  <2> QED
    BY <2>1, <2>2, <2>3, <2>4, NoDispatch
<1>4. CASE Rotate
  <2>1. /\ Disturb("database") /\ hook = None /\ hook' = None
        /\ database' = [database EXCEPT !.offered = 1 - database.offered]
        /\ config' = config /\ relation' = relation /\ up' = up
        /\ pending' = pending /\ deferred' = deferred /\ failed' = failed
        /\ files' = files /\ conf' = conf /\ plan' = plan /\ server' = server /\ status' = status
    BY <1>4 DEF Rotate, delivery, workload
  <2>2. budget \in Nat /\ budget' = budget - 1 /\ budget' \in 0..MaxDisturbances
    BY <2>1, DisturbFacts
  <2>3. /\ database' \in [offered : {0, 1}, saved : {0, 1}, seen : {0, 1}]
        /\ database'.saved = database.saved /\ database'.seen = database.seen
    <3>1. /\ database \in [offered : {0, 1}, saved : {0, 1}, seen : {0, 1}]
          /\ 1 - database.offered \in {0, 1}
      BY DEF TypeOK
    <3> QED
      BY <2>1, <3>1
  <2>4. TypeOK'
    BY <2>1, <2>2, <2>3 DEF TypeOK
  <2>5. CertificatesCounted'
    BY <2>1, <2>2, TlsBoundAssumption DEF TypeOK, CertificatesCounted, Awaited, TlsBoundAssumption
  <2>6. BrokenPending' /\ DeferredWhileLost' /\ Configured' /\ SeenInv'
    BY <2>1, <2>3 DEF BrokenPending, DeferredWhileLost, Configured, SeenInv
  <2>7. RunsInv' /\ StoredInv'
    BY <2>1, <2>3 DEF RunsInv, Runs, StoredInv, Serving, Valid, Current, Due
  <2> QED
    BY <2>1, <2>4, <2>5, <2>6, <2>7, NoDispatch
<1> QED
  BY <1>1, <1>2, <1>3, <1>4

\* What the provider does keeps the invariant if it leaves a hook wherever
\* the unit is left without its certificate.
LEMMA ProviderKeeps ==
    ASSUME UnitTlsInv,
           NEW r \in [alive : BOOLEAN, cert : 0..MaxDisturbances, issued : 0..MaxDisturbances],
           NEW q \in SUBSET HookEvents, Provider(r, q),
           CertificatesCounted', budget' \in 0..MaxDisturbances,
           r.alive => "cert_broken" \notin q,
           pending \cap PlansPending \subseteq q,
           relation.alive /\ ~r.alive => "cert_broken" \in q,
           r.alive /\ r.cert # 0 => "cert_available" \in q
    PROVE  UnitTlsInv'
<1> USE DEF UnitTlsInv
<1>1. /\ hook = None /\ hook' = None /\ relation' = r /\ pending' = q
      /\ config' = config /\ database' = database /\ up' = up /\ deferred' = deferred /\ failed' = failed
      /\ files' = files /\ conf' = conf /\ plan' = plan /\ server' = server /\ status' = status
  BY DEF Provider, workload
<1>2. TypeOK' /\ Configured'
  BY <1>1 DEF TypeOK, Configured
<1>3. BrokenPending' /\ DeferredWhileLost'
  BY <1>1 DEF BrokenPending, DeferredWhileLost, PlansPending
<1>4. Due(Plans, PlansPending) => Due(Plans, PlansPending)'
  BY <1>1 DEF Due
<1>5. Runs(database.saved) => Runs(database.saved)' \/ Due(Plans, PlansPending)'
  BY <1>1 DEF Runs, Due, PlansPending
<1>6. RunsInv'
  BY <1>1, <1>4, <1>5 DEF RunsInv, Valid
<1>7. StoredInv' /\ SeenInv'
  BY <1>1 DEF StoredInv, SeenInv, Serving, Due, StoresPending
<1> QED
  BY <1>1, <1>2, <1>3, <1>6, <1>7, NoDispatch

\* The provider's steps.
LEMMA ProviderStepsInv ==
    ASSUME UnitTlsInv, Relate \/ Issue \/ Renew \/ Withdraw \/ RemoveRelation
    PROVE  UnitTlsInv'
<1> USE DEF UnitTlsInv
<1> DEFINE R == [alive : BOOLEAN, cert : 0..MaxDisturbances, issued : 0..MaxDisturbances]
<1>1. /\ relation \in R /\ relation.alive \in BOOLEAN
      /\ relation.cert \in Nat /\ relation.issued \in Nat /\ budget \in 0..MaxDisturbances
      /\ relation.cert \in 0..MaxDisturbances /\ relation.issued \in 0..MaxDisturbances
      /\ budget \in Nat /\ MaxDisturbances \in Nat
  BY TlsBoundAssumption DEF TypeOK, TlsBoundAssumption
<1>2. relation = [alive |-> relation.alive, cert |-> relation.cert, issued |-> relation.issued]
  BY <1>1
<1>3. CASE Relate
  <2> DEFINE r == [alive |-> TRUE, cert |-> 0, issued |-> relation.issued]
             q == pending \cup {"cert_joined"}
  <2>1. /\ Disturb("certificates") /\ ~relation.alive /\ "cert_broken" \notin pending
        /\ Provider(r, q)
    BY <1>3 DEF Relate, Provider
  <2>2. budget' = budget - 1 /\ budget' \in 0..MaxDisturbances
    BY <2>1, DisturbFacts
  <2>3. relation' = r
    BY <2>1 DEF Provider
  <2>4. CertificatesCounted'
    BY <1>1, <2>1, <2>2, <2>3 DEF CertificatesCounted, Awaited
  <2>5. r \in R /\ q \in SUBSET HookEvents
    BY <1>1 DEF TypeOK, HookEvents
  <2> QED
    BY <2>1, <2>2, <2>4, <2>5, ProviderKeeps
<1>4. CASE Issue \/ Renew
  <2> DEFINE r == [alive |-> TRUE, cert |-> relation.issued + 1, issued |-> relation.issued + 1]
             q == pending \cup {"cert_available"}
  <2>1. /\ relation.alive /\ Provider(r, q)
        /\ \/ relation.cert = 0 /\ budget' = budget
           \/ relation.cert # 0 /\ Disturb("certificates")
    BY <1>4 DEF Issue, Renew, Provider
  <2>2. budget' \in 0..MaxDisturbances /\ (relation.cert # 0 => budget' = budget - 1)
    BY <1>1, <2>1, DisturbFacts
  <2>3. relation' = r
    BY <2>1 DEF Provider
  <2>4. CertificatesCounted' /\ relation.issued + 1 \in 0..MaxDisturbances
    <3>1. relation.issued + 1 + budget' <= MaxDisturbances
      BY <1>1, <2>1, <2>2 DEF CertificatesCounted, Awaited
    <3> QED
      BY <1>1, <2>2, <2>3, <3>1 DEF CertificatesCounted, Awaited
  <2>5. r \in R /\ q \in SUBSET HookEvents
    BY <1>1, <2>4 DEF TypeOK, HookEvents
  <2>6. "cert_broken" \notin pending
    BY <2>1 DEF BrokenPending
  <2> QED
    BY <2>1, <2>2, <2>4, <2>5, <2>6, ProviderKeeps
<1>5. CASE Withdraw
  <2> DEFINE r == [alive |-> TRUE, cert |-> 0, issued |-> relation.issued]
             q == pending \ {"cert_available"}
  <2>0. relation.alive => [relation EXCEPT !.cert = 0] = r
    <3>1. relation.alive => relation.alive = TRUE
      BY <1>1
    <3>2. [relation EXCEPT !.cert = 0]
            = [alive |-> relation.alive, cert |-> 0, issued |-> relation.issued]
      BY <1>1, ProviderRecord
    <3> QED
      BY <3>1, <3>2, Zenon
  <2>1. /\ Disturb("certificates") /\ relation.alive /\ relation.cert # 0 /\ Provider(r, q)
    BY <2>0, <1>5 DEF Withdraw, Provider
  <2>2. budget' = budget - 1 /\ budget' \in 0..MaxDisturbances
    BY <2>1, DisturbFacts
  <2>3. relation' = r
    BY <2>1 DEF Provider
  <2>4. CertificatesCounted'
    BY <1>1, <2>1, <2>2, <2>3 DEF CertificatesCounted, Awaited
  <2>5. r \in R /\ q \in SUBSET HookEvents
    BY <1>1 DEF TypeOK
  <2>6. "cert_broken" \notin pending
    BY <2>1 DEF BrokenPending
  <2> QED
    BY <2>1, <2>2, <2>4, <2>5, <2>6, ProviderKeeps DEF PlansPending
<1>6. CASE RemoveRelation
  <2> DEFINE r == [alive |-> FALSE, cert |-> relation.cert, issued |-> relation.issued]
             q == (pending \ {"cert_joined", "cert_available"}) \cup {"cert_broken"}
  <2>1. /\ Disturb("certificates") /\ relation.alive /\ Provider(r, q)
    BY <1>6 DEF RemoveRelation, Provider
  <2>2. budget' = budget - 1 /\ budget' \in 0..MaxDisturbances
    BY <2>1, DisturbFacts
  <2>3. relation' = r
    BY <2>1 DEF Provider
  <2>4. CertificatesCounted'
    BY <1>1, <2>1, <2>2, <2>3 DEF CertificatesCounted, Awaited
  <2>5. r \in R /\ q \in SUBSET HookEvents
    BY <1>1 DEF TypeOK, HookEvents
  <2> QED
    BY <2>1, <2>2, <2>4, <2>5, ProviderKeeps DEF PlansPending
<1> QED
  BY <1>3, <1>4, <1>5, <1>6

(***************************************************************************)
(* Theorems.                                                               *)
(***************************************************************************)
\* The invariant is one of the specification.
LEMMA UnitTlsAlwaysInv == Spec => []UnitTlsInv
<1>1. ASSUME Init PROVE UnitTlsInv
  <2>1. PlainEnvironment \in Environments /\ NoFiles \in FilesType
    BY TlsBoundAssumption
       DEF PlainEnvironment, Environments, NoFiles, FilesType, TlsBoundAssumption
  <2>2. /\ config = [frontend |-> TRUE, valid |-> TRUE, dns |-> TRUE, rev |-> 0]
        /\ relation = [alive |-> FALSE, cert |-> 0, issued |-> 0]
        /\ database = [offered |-> 0, saved |-> 0, seen |-> 0]
        /\ files = NoFiles /\ conf = PlainEnvironment /\ plan = PlainEnvironment
        /\ server = [env |-> PlainEnvironment, conf |-> PlainEnvironment, files |-> NoFiles]
        /\ up = TRUE /\ pending = {} /\ deferred = << >> /\ failed = None /\ status = "active"
        /\ hook = None /\ budget = MaxDisturbances
    BY <1>1 DEF Init
  <2>3. server \in ServerType
    BY <2>1, <2>2 DEF ServerType
  <2>4. config \in Configs
    BY <2>2 DEF Configs
  <2>5. TypeOK
    BY <2>1, <2>2, <2>3, <2>4, TlsBoundAssumption DEF TypeOK, TlsBoundAssumption
  <2>6. CertificatesCounted
    BY <2>2, TlsBoundAssumption DEF CertificatesCounted, Awaited, TlsBoundAssumption
  <2>7. plan # None /\ server # None /\ conf # None /\ None # "cert_broken"
    BY <2>1, <2>2, <2>3, TlsNoneAssumption DEF TlsNoneAssumption, Events, HookEvents
  <2>8. server.env = plan /\ ~plan.tls
    BY <2>2 DEF PlainEnvironment
  <2>9. Configured /\ BrokenPending /\ HookShape /\ DeferredWhileLost /\ UpdateInv
    BY <2>2, <2>7 DEF Configured, BrokenPending, HookShape, DeferredWhileLost, UpdateInv
  <2>10. RunsInv /\ StoredInv /\ SeenInv
    BY <2>2, <2>7, <2>8 DEF RunsInv, Runs, StoredInv, SeenInv, Serving
  <2> QED
    BY <2>5, <2>6, <2>9, <2>10 DEF UnitTlsInv
<1>2. ASSUME UnitTlsInv, [Next]_vars PROVE UnitTlsInv'
  <2>1. CASE Next
    BY <1>2, <2>1, DispatchInv, HandlersInv, RestartInv, HandleFrontendTlsInv, StorePrivateKeyInv,
       RemoveCertificatesInv, PushInv, ReplanInv, EndInv, UnitChangedInv, ProviderStepsInv
       DEF Next, HandlerStep
  <2>2. CASE UNCHANGED vars
    BY <1>2, <2>2 DEF vars, UnitTlsInv, TypeOK, Configured, CertificatesCounted, Awaited,
       BrokenPending, HookShape, Event, DeferredWhileLost, UpdateInv, Wants, Visible, Current,
       Environment, SeenInv, RunsInv, Runs, StoredInv, Serving, Valid, Due, Left
  <2> QED
    BY <1>2, <2>1, <2>2
<1> QED
  BY <1>1, <1>2, PTL DEF Spec

\* Every variable holds a value the charm, the provider or Pebble can give it.
THEOREM UnitTypeCorrect == Spec => []TypeOK
<1>1. UnitTlsInv => TypeOK
  BY DEF UnitTlsInv
<1> QED
  BY <1>1, UnitTlsAlwaysInv, PTL

\* With nothing left to be delivered nothing is due.
LEMMA QuietNothingDue ==
    ASSUME TypeOK, Quiet
    PROVE  ~Due(Plans, PlansPending) /\ ~Due(Stores, StoresPending)
<1>1. None \notin Plans /\ None \notin Stores
  BY TlsNoneAssumption DEF TlsNoneAssumption, Events, HookEvents, Plans, Stores
<1>2. ~\E e : Contains(deferred, e)
  BY SeqFacts DEF TypeOK, Quiet
<1> QED
  BY <1>1, <1>2 DEF Quiet, Due

\* When everything has been delivered, the files of a frontend whose
\* configuration is valid, sans-dns entries included, are those of its
\* certificate, whatever was wrong when the certificate arrived.
THEOREM FreshCertificateAlwaysStored == Spec => []FreshCertificateStored
<1>1. UnitTlsInv => FreshCertificateStored
  BY QuietNothingDue DEF UnitTlsInv, FreshCertificateStored, StoredInv, Current, Quiet
<1> QED
  BY <1>1, UnitTlsAlwaysInv, PTL

\* When everything has been delivered, the server of a unit whose configuration
\* is valid, sans-dns entries included, runs the plan, unless that is the plan
\* of an update-status that died with a connection it had not saved.
THEOREM ServerAlwaysRunsPlan == Spec => []ServerRunsPlan
<1>1. UnitTlsInv => ServerRunsPlan
  BY QuietNothingDue DEF UnitTlsInv, ServerRunsPlan, RunsInv, Runs, Quiet
<1> QED
  BY <1>1, UnitTlsAlwaysInv, PTL

\* And without the relation a valid unit runs a server that has no TLS.
THEOREM AlwaysPlainWithoutRelation == Spec => []PlainWithoutRelation
<1>1. UnitTlsInv => PlainWithoutRelation
  BY QuietNothingDue DEF UnitTlsInv, PlainWithoutRelation, RunsInv, Runs, Quiet
<1> QED
  BY <1>1, UnitTlsAlwaysInv, PTL

\* A dispatch starts a server that is to terminate TLS only with certificate
\* and key in place.
THEOREM AlwaysStartsWithCertificate == Spec => StartsWithCertificate
<1>1. UnitTlsInv =>
        (hook # None /\ hook.at = "replan" /\ Event # "cert_broken" /\ conf.tls =>
            files.cert # 0 /\ files.key)
  BY DEF UnitTlsInv, UpdateInv, Environment, Wants, Current
<1>2. UnitTlsInv => [server' # server /\ hook # None /\ hook.at = "replan" /\ Event # "cert_broken"
                       /\ conf.tls => files.cert # 0 /\ files.key]_vars
  BY <1>1
<1> QED
  BY <1>2, UnitTlsAlwaysInv, PTL DEF StartsWithCertificate
=============================================================================
