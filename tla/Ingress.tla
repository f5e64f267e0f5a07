------------------------------- MODULE Ingress -------------------------------
(***************************************************************************)
(* POST /webhooks/telegram: handleTelegramWebhook and the transaction of   *)
(* EnqueueTelegramUpdate, for several requests at a time, against the      *)
(* directory an operator is changing meanwhile.  Telegram sends an update  *)
(* again until it gets a 200, be the first request still running or not.   *)
(*                                                                         *)
(* PostgreSQL runs the transaction under READ COMMITTED: each statement    *)
(* sees what is committed when it starts, an INSERT of a dedupe key waits  *)
(* for a transaction that has inserted the same key and is still open, and *)
(* a row referenced by an open transaction cannot be deleted.              *)
(***************************************************************************)
EXTENDS Directory, Integers, FiniteSets

CONSTANTS Updates,        \* Telegram updates with a message in a group chat
          MessageOf,      \* their messages: chat, and what the filters look at
          FilterOf,       \* routes.filter_mode
          IgnoreBots,     \* routes with ignore_bot_messages
          Requests,       \* requests the bridge can be serving at the same time
          NoUpdate

Filters == {"all", "text_only", "mentions_only"}

ASSUME UpdatesAreMessages ==
    /\ MessageOf \in [Updates -> [chat : Chats, bot : BOOLEAN, text : BOOLEAN, mention : BOOLEAN]]
    /\ FilterOf \in [RouteIds -> Filters]
    /\ IgnoreBots \in SUBSET RouteIds

VARIABLES inbox,      \* what Telegram knows of the update
          pc,         \* per request: the next thing the handler does
          serving,    \* per request: the update
          cand,       \* per request: candidates of the SELECT not yet gone through
          mine,       \* per request: routes it has inserted key and job for, uncommitted
          dedupe      \* dedupe_records, as pairs of route and update

requestVars == <<pc, serving, cand, mine>>

(* History. *)
VARIABLES queued,     \* how many jobs were ever queued per route and update: 0, 1 or 2 (more)
          pruned,     \* pairs whose dedupe record retention has deleted
          owed,       \* per update: the routes that wanted it all along since it was sent
          chance      \* per update: the routes that wanted it at any time since it was sent

historyVars == <<queued, pruned, owed, chance>>

vars == <<directoryVars, inbox, requestVars, dedupe, historyVars>>

Pairs == RouteIds \X Updates

TypeOK ==
    /\ DirectoryTypeOK
    /\ inbox \in [Updates -> {"unsent", "open", "acked"}]
    /\ pc \in [Requests -> {"idle", "register", "select", "insert", "reply"}]
    /\ serving \in [Requests -> Updates \cup {NoUpdate}]
    /\ \A h \in Requests : pc[h] # "idle" => serving[h] \in Updates
    /\ cand \in [Requests -> SUBSET RouteIds]
    /\ mine \in [Requests -> SUBSET RouteIds]
    /\ dedupe \in SUBSET Pairs
    /\ queued \in [Pairs -> 0 .. 2]
    /\ pruned \in SUBSET Pairs
    /\ owed \in [Updates -> SUBSET RouteIds]
    /\ chance \in [Updates -> SUBSET RouteIds]

BridgeInit ==
    /\ inbox = [u \in Updates |-> "unsent"]
    /\ pc = [h \in Requests |-> "idle"]
    /\ serving = [h \in Requests |-> NoUpdate]
    /\ cand = [h \in Requests |-> {}]
    /\ mine = [h \in Requests |-> {}]
    /\ dedupe = {}
    /\ queued = [p \in Pairs |-> 0]
    /\ pruned = {}
    /\ owed = [u \in Updates |-> {}]
    /\ chance = [u \in Updates |-> {}]

Init == DirectoryInit /\ BridgeInit

(* routePassesFilter *)
PassesFilter(filter, ignoreBots, msg) ==
    /\ ~(ignoreBots /\ msg.bot)
    /\ filter = "text_only" => msg.text
    /\ filter = "mentions_only" => msg.mention

Wanted(u) ==
    {r \in RouteIds : /\ Routable(r)
                      /\ ChatOf[r] = MessageOf[u].chat
                      /\ PassesFilter(FilterOf[r], r \in IgnoreBots, MessageOf[u])}

-----------------------------------------------------------------------------
(* One request. *)

Arrive(h, u) ==
    /\ pc[h] = "idle" /\ inbox[u] # "acked"
    /\ pc' = [pc EXCEPT ![h] = "register"]
    /\ serving' = [serving EXCEPT ![h] = u]
    /\ inbox' = [inbox EXCEPT ![u] = "open"]
    /\ IF inbox[u] = "unsent"
       THEN /\ owed' = [owed EXCEPT ![u] = Wanted(u)]
            /\ chance' = [chance EXCEPT ![u] = Wanted(u)]
       ELSE UNCHANGED <<owed, chance>>
    /\ UNCHANGED <<directoryVars, cand, mine, dedupe, queued, pruned>>

(* An error of this statement is logged and passed over. *)
Register(h) ==
    /\ pc[h] = "register"
    /\ pc' = [pc EXCEPT ![h] = "select"]
    /\ AddTelegramGroup(MessageOf[serving[h]].chat) \/ UNCHANGED directoryVars
    /\ UNCHANGED <<inbox, serving, cand, mine, dedupe, historyVars>>

SelectPausedToo_M(h) ==
    LET u == serving[h] IN
    /\ pc[h] = "select"
    /\ pc' = [pc EXCEPT ![h] = "insert"]
    /\ cand' = [cand EXCEPT ![h] = Wanted(u) \cup {r \in RouteIds : routeState[r] = "paused"}]
    /\ UNCHANGED <<directoryVars, inbox, serving, mine, dedupe, historyVars>>

SelectRoutes(h) ==
    /\ pc[h] = "select"
    /\ pc' = [pc EXCEPT ![h] = "insert"]
    /\ cand' = [cand EXCEPT ![h] = Wanted(serving[h])]
    /\ UNCHANGED <<directoryVars, inbox, serving, mine, dedupe, historyVars>>

(* The key of this route and message, inserted by a request still open. *)
HeldBy(g, r, u) == r \in mine[g] /\ serving[g] = u

InsertKeyAtOnce_M(h, r) ==
    /\ pc[h] = "insert" /\ r \in cand[h]
    /\ Live(r)
    /\ <<r, serving[h]>> \notin dedupe
    /\ dedupe' = dedupe \cup {<<r, serving[h]>>}
    /\ cand' = [cand EXCEPT ![h] = @ \ {r}]
    /\ mine' = [mine EXCEPT ![h] = @ \cup {r}]
    /\ UNCHANGED <<directoryVars, inbox, pc, serving, historyVars>>

(* The order of the candidates is the database's; there is no ORDER BY. *)
InsertKeyAndJob(h, r) ==
    /\ pc[h] = "insert" /\ r \in cand[h]
    /\ Live(r)
    /\ <<r, serving[h]>> \notin dedupe
    /\ \A g \in Requests \ {h} : ~HeldBy(g, r, serving[h])
    /\ cand' = [cand EXCEPT ![h] = @ \ {r}]
    /\ mine' = [mine EXCEPT ![h] = @ \cup {r}]
    /\ UNCHANGED <<directoryVars, inbox, pc, serving, dedupe, historyVars>>

Leave(h) ==
    /\ pc' = [pc EXCEPT ![h] = "idle"]
    /\ serving' = [serving EXCEPT ![h] = NoUpdate]
    /\ cand' = [cand EXCEPT ![h] = {}]
    /\ mine' = [mine EXCEPT ![h] = {}]

(* Rollback and a 500. *)
Abort(h) ==
    /\ Leave(h)
    /\ UNCHANGED <<directoryVars, inbox, dedupe, historyVars>>

SkipDuplicate(h, r) ==
    /\ pc[h] = "insert" /\ r \in cand[h]
    /\ <<r, serving[h]>> \in dedupe
    /\ cand' = [cand EXCEPT ![h] = @ \ {r}]
    /\ UNCHANGED <<directoryVars, inbox, pc, serving, mine, dedupe, historyVars>>

RouteGonePassedOver_M(h) ==
    /\ pc[h] = "insert"
    /\ \E r \in cand[h] : ~Live(r)
    /\ cand' = [cand EXCEPT ![h] = {}]
    /\ UNCHANGED <<directoryVars, inbox, pc, serving, mine, dedupe, historyVars>>

(* The route has been deleted since the SELECT: the foreign key of         *)
(* dedupe_records fails, and with it the jobs of all the other routes.     *)
RouteGone(h) ==
    /\ pc[h] = "insert"
    /\ \E r \in cand[h] : ~Live(r)
    /\ Abort(h)

CommitUnkeyed_M(h) ==
    LET new == {<<r, serving[h]>> : r \in mine[h]} IN
    /\ queued' = [p \in Pairs |-> IF p \in new /\ queued[p] < 2 THEN queued[p] + 1 ELSE queued[p]]
    /\ UNCHANGED dedupe

CommitWrites(h) ==
    LET new == {<<r, serving[h]>> : r \in mine[h]} IN
    /\ dedupe' = dedupe \cup new
    /\ queued' = [p \in Pairs |-> IF p \in new /\ queued[p] < 2 THEN queued[p] + 1 ELSE queued[p]]

Commit(h) ==
    /\ pc[h] = "insert" /\ cand[h] = {}
    /\ CommitWrites(h)
    /\ pc' = [pc EXCEPT ![h] = "reply"]
    /\ mine' = [mine EXCEPT ![h] = {}]
    /\ UNCHANGED <<directoryVars, inbox, serving, cand, pruned, owed, chance>>

Reply(h) ==
    /\ pc[h] = "reply"
    /\ inbox' = [inbox EXCEPT ![serving[h]] = "acked"]
    /\ Leave(h)
    /\ UNCHANGED <<directoryVars, dedupe, historyVars>>

RequestStep(h) ==
    \/ Register(h) \/ SelectRoutes(h) \/ Commit(h) \/ Reply(h) \/ RouteGone(h)
    \/ \E r \in RouteIds : InsertKeyAndJob(h, r) \/ SkipDuplicate(h, r)

WaitsFor(h, g) ==
    /\ pc[h] = "insert" /\ g # h
    /\ \E r \in cand[h] : HeldBy(g, r, serving[h])

(* Requests for one update that meet the routes in different orders wait   *)
(* for each other in a circle; PostgreSQL ends one of them.                *)
InDeadlock(h) ==
    \E S \in SUBSET Requests :
        /\ h \in S
        /\ \A k \in S : (\E g \in S : WaitsFor(k, g)) /\ (\E g \in S : WaitsFor(g, k))

DeadlockVictim(h) ==
    /\ InDeadlock(h)
    /\ Abort(h)

-----------------------------------------------------------------------------
(* What may go wrong. *)

DatabaseFails(h) ==
    /\ pc[h] \in {"select", "insert"}
    /\ Abort(h)

CommitAnswerLost(h) ==
    /\ pc[h] = "insert" /\ cand[h] = {}
    /\ CommitWrites(h)
    /\ Leave(h)
    /\ UNCHANGED <<directoryVars, inbox, pruned, owed, chance>>

ReplyLost(h) ==
    /\ pc[h] = "reply"
    /\ Abort(h)

Crash ==
    /\ \E h \in Requests : pc[h] # "idle"
    /\ pc' = [h \in Requests |-> "idle"]
    /\ serving' = [h \in Requests |-> NoUpdate]
    /\ cand' = [h \in Requests |-> {}]
    /\ mine' = [h \in Requests |-> {}]
    /\ UNCHANGED <<directoryVars, inbox, dedupe, historyVars>>

-----------------------------------------------------------------------------
(* The others.  Whatever they change, `owed' and `chance' follow. *)

FollowRoutes ==
    LET sent == {u \in Updates : inbox[u] # "unsent"} IN
    /\ owed' = [u \in Updates |-> IF inbox[u] = "open" THEN owed[u] \cap Wanted(u)' ELSE owed[u]]
    /\ chance' = [u \in Updates |-> IF u \in sent THEN chance[u] \cup Wanted(u)' ELSE chance[u]]

(* Somebody links, the operator adds a route, resumes one, or unblocks. *)
Connect ==
    /\ \/ \E u \in Users : UpsertLinkedUser(u) \/ SetUserBlocked(u, FALSE)
       \/ \E c \in Chats, u \in Users : CreateRoute(c, u)
       \/ \E r \in RouteIds : UpdateRouteState(r, "enabled")
    /\ FollowRoutes
    /\ UNCHANGED <<inbox, requestVars, dedupe, queued, pruned>>

Disconnect ==
    /\ \/ \E u \in Users : RemoveUser(u) \/ SetUserBlocked(u, TRUE)
       \/ \E r \in RouteIds : UpdateRouteState(r, "paused")
    /\ FollowRoutes
    /\ UNCHANGED <<inbox, requestVars, dedupe, queued, pruned>>

(* The row lock waits for requests that have inserted for this route; the  *)
(* dedupe records go with the route.                                       *)
OperatorDeletesRoute(r) ==
    /\ \A h \in Requests : r \notin mine[h]
    /\ DeleteRoute(r)
    /\ dedupe' = {p \in dedupe : p[1] # r}
    /\ FollowRoutes
    /\ UNCHANGED <<inbox, requestVars, queued, pruned>>

OperatorDisablesGroup(c) ==
    /\ c \notin offGroups /\ RemoveGroup(c)
    /\ UNCHANGED <<inbox, requestVars, dedupe, historyVars>>

(* CleanupRetention, on the records that are old enough. *)
PruneDedupe(S) ==
    /\ S # {} /\ S \subseteq dedupe
    /\ dedupe' = dedupe \ S
    /\ pruned' = pruned \cup S
    /\ UNCHANGED <<directoryVars, inbox, requestVars, queued, owed, chance>>

-----------------------------------------------------------------------------
Deliveries == \E h \in Requests, u \in Updates : Arrive(h, u)

Progress ==
    \/ Deliveries
    \/ \E h \in Requests : RequestStep(h) \/ DeadlockVictim(h)

Fault == \E h \in Requests : DatabaseFails(h) \/ CommitAnswerLost(h) \/ ReplyLost(h)

Admin ==
    \/ Disconnect
    \/ \E r \in RouteIds : OperatorDeletesRoute(r)
    \/ \E c \in Chats : OperatorDisablesGroup(c)

Next == Progress \/ Fault \/ Crash \/ Connect \/ Admin \/ \E S \in SUBSET Pairs : PruneDedupe(S)

Spec == Init /\ [][Next]_vars

(* Telegram redelivers what was not acknowledged, a request goes on, and   *)
(* a deadlock is resolved.  PostgreSQL wakes the requests that wait for a  *)
(* lock when it is released, so those for u that have got as far as n rows *)
(* are not, again and again, all overtaken by some that only arrive then.  *)
FurtherThan(u, n) ==
    \E h \in Requests, r \in RouteIds :
        serving[h] = u /\ Cardinality(mine[h]) = n /\ InsertKeyAndJob(h, r)

Fairness ==
    /\ \A u \in Updates :
          /\ SF_vars(inbox[u] = "open" /\ \E h \in Requests : Arrive(h, u))
          /\ \A n \in 1 .. Cardinality(RouteIds) - 1 : SF_vars(FurtherThan(u, n))
    /\ \A h \in Requests : WF_vars(RequestStep(h))
    /\ WF_vars(\E h \in Requests : DeadlockVictim(h))

-----------------------------------------------------------------------------
(* Properties. *)

(* A route gets a message once, however often Telegram sends it and        *)
(* however the requests overlap, as long as its dedupe record is there     *)
(* (docs/adr/0001-architecture.md:39).                                     *)
OneJobPerRoute == \A p \in Pairs : queued[p] > 1 => p \in pruned

(* A dedupe record stands for a job that was queued.  Were it ever to be   *)
(* without one, the redelivery meant to repair the loss would be skipped.  *)
NothingSwallowed == \A p \in dedupe : queued[p] > 0

(* A 200 means the update is queued for every route that wanted it from    *)
(* the moment it was sent.                                                 *)
AckMeansQueued ==
    \A u \in Updates : inbox[u] = "acked" => \A r \in owed[u] : queued[<<r, u>>] > 0

(* A route that was paused, blocked, deleted or filtered out all the time  *)
(* an update was around is never given it.                                 *)
NobodyUnasked ==
    \A r \in RouteIds, u \in Updates : queued[<<r, u>>] > 0 => r \in chance[u]

(* internal/tui/service.go:187: "Группа отключена.", the group is off. *)
DisabledGroupIsSilent ==
    [][\A h \in Requests :
          pc[h] = "select" /\ pc'[h] = "insert" /\ MessageOf[serving[h]].chat \in offGroups
          => cand'[h] = {}]_vars
=============================================================================
