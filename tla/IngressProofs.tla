--------------------------- MODULE IngressProofs ---------------------------
(***************************************************************************)
(* A message is queued once per route; what a 200 promises Telegram, and   *)
(* what a route that did not want a message is promised: whatever requests *)
(* overlap, fail or deadlock and whatever the operator changes under them. *)
(***************************************************************************)
EXTENDS Ingress, TLAPS

(* The statements on the directory this system runs. *)
DirectoryStep ==
    \/ \E c \in Chats : AddTelegramGroup(c) \/ RemoveGroup(c)
    \/ \E u \in Users : UpsertLinkedUser(u) \/ RemoveUser(u) \/ \E on \in BOOLEAN : SetUserBlocked(u, on)
    \/ \E c \in Chats, u \in Users : CreateRoute(c, u)
    \/ \E r \in RouteIds : UpdateRouteState(r, "enabled") \/ UpdateRouteState(r, "paused")

(* None of them deletes a route, or brings back one that is deleted. *)
RoutesStay ==
    \A r \in RouteIds : /\ Live(r) => Live(r)'
                        /\ routeState[r] = "deleted" => routeState'[r] = "deleted"

LEMMA DirectoryKeeps ==
    ASSUME DirectoryTypeOK, [DirectoryStep]_directoryVars
    PROVE  DirectoryTypeOK' /\ RoutesStay
  <1> USE DEF DirectoryTypeOK, RoutesStay, Live
  <1>1. CASE \E c \in Chats : AddTelegramGroup(c) \/ RemoveGroup(c)
    BY <1>1 DEF AddTelegramGroup, RemoveGroup
  <1>2. ASSUME NEW u \in Users, UpsertLinkedUser(u) \/ \E on \in BOOLEAN : SetUserBlocked(u, on)
        PROVE  DirectoryTypeOK' /\ RoutesStay
    BY <1>2 DEF UpsertLinkedUser, SetUserBlocked
  <1>3. ASSUME NEW u \in Users, RemoveUser(u)
        PROVE  DirectoryTypeOK' /\ RoutesStay
    BY <1>3 DEF RemoveUser
  <1>4. ASSUME NEW c \in Chats, NEW u \in Users, CreateRoute(c, u)
        PROVE  DirectoryTypeOK' /\ RoutesStay
    BY <1>4 DEF CreateRoute, NewIds
  <1>5. ASSUME NEW r \in RouteIds, UpdateRouteState(r, "enabled") \/ UpdateRouteState(r, "paused")
        PROVE  DirectoryTypeOK' /\ RoutesStay
    BY <1>5 DEF UpdateRouteState
  <1>6. CASE UNCHANGED directoryVars
    BY <1>6 DEF directoryVars
  <1> QED
    BY <1>1, <1>2, <1>3, <1>4, <1>5, <1>6 DEF DirectoryStep

-----------------------------------------------------------------------------
(* Types. *)

LEMMA IngressTypeInit == Init => TypeOK
  BY DEF Init, BridgeInit, DirectoryInit, TypeOK, DirectoryTypeOK, Pairs

LEMMA RequestTypes ==
    ASSUME TypeOK, NEW h \in Requests,
           \/ RequestStep(h) \/ DeadlockVictim(h)
           \/ DatabaseFails(h) \/ CommitAnswerLost(h) \/ ReplyLost(h)
           \/ \E u \in Updates : Arrive(h, u)
    PROVE  TypeOK' /\ RoutesStay
  <1> USE DEF TypeOK, historyVars
  <1>1. ASSUME [DirectoryStep]_directoryVars
        PROVE  DirectoryTypeOK' /\ RoutesStay
    BY <1>1, DirectoryKeeps
  <1>2. ASSUME NEW u \in Updates, Arrive(h, u)
        PROVE  TypeOK' /\ RoutesStay
    BY <1>1, <1>2 DEF Arrive, Wanted
  <1>3. CASE Register(h)
    <2>1. serving[h] \in Updates /\ MessageOf[serving[h]].chat \in Chats
      BY <1>3, UpdatesAreMessages DEF Register
    <2>2. [DirectoryStep]_directoryVars
      BY <1>3, <2>1 DEF Register, DirectoryStep
    <2> QED
      BY <1>1, <1>3, <2>2 DEF Register
  <1>4. CASE SelectRoutes(h)
    BY <1>1, <1>4 DEF SelectRoutes, Wanted
  <1>5. ASSUME NEW r \in RouteIds, InsertKeyAndJob(h, r) \/ SkipDuplicate(h, r)
        PROVE  TypeOK' /\ RoutesStay
    BY <1>1, <1>5 DEF InsertKeyAndJob, SkipDuplicate
  <1>6. ASSUME CommitWrites(h), pc[h] # "idle"
        PROVE  dedupe' \in SUBSET Pairs /\ queued' \in [Pairs -> 0 .. 2]
    <2>1. {<<r, serving[h]>> : r \in mine[h]} \subseteq Pairs
      BY <1>6 DEF Pairs
    <2> QED
      BY <1>6, <2>1 DEF CommitWrites
  <1>7. CASE Commit(h)
    BY <1>1, <1>6, <1>7 DEF Commit
  <1>8. ASSUME Leave(h)
        PROVE  /\ pc' \in [Requests -> {"idle", "register", "select", "insert", "reply"}]
               /\ serving' \in [Requests -> Updates \cup {NoUpdate}]
               /\ \A g \in Requests : pc'[g] # "idle" => serving'[g] \in Updates
               /\ cand' \in [Requests -> SUBSET RouteIds] /\ mine' \in [Requests -> SUBSET RouteIds]
    BY <1>8 DEF Leave
  <1>9. CASE Reply(h)
    BY <1>1, <1>8, <1>9 DEF Reply
  <1>10. CASE Abort(h)
    BY <1>1, <1>8, <1>10 DEF Abort, historyVars
  <1>11. CASE CommitAnswerLost(h)
    BY <1>1, <1>6, <1>8, <1>11 DEF CommitAnswerLost
  <1> QED
    BY <1>2, <1>3, <1>4, <1>5, <1>7, <1>9, <1>10, <1>11
       DEF RequestStep, RouteGone, DeadlockVictim, DatabaseFails, ReplyLost

LEMMA OtherTypes ==
    ASSUME TypeOK,
           \/ Connect \/ Disconnect \/ Crash
           \/ \E r \in RouteIds : OperatorDeletesRoute(r)
           \/ \E c \in Chats : OperatorDisablesGroup(c)
           \/ \E S \in SUBSET Pairs : PruneDedupe(S)
    PROVE  TypeOK'
  <1> USE DEF TypeOK, historyVars, requestVars
  <1>1. ASSUME FollowRoutes
        PROVE  owed' \in [Updates -> SUBSET RouteIds] /\ chance' \in [Updates -> SUBSET RouteIds]
    BY <1>1 DEF FollowRoutes, Wanted
  <1>2. CASE Connect
    <2>1. [DirectoryStep]_directoryVars
      BY <1>2 DEF Connect, DirectoryStep
    <2> QED
      BY <1>1, <1>2, <2>1, DirectoryKeeps DEF Connect
  <1>3. CASE Disconnect
    <2>1. [DirectoryStep]_directoryVars
      BY <1>3 DEF Disconnect, DirectoryStep
    <2> QED
      BY <1>1, <1>3, <2>1, DirectoryKeeps DEF Disconnect
  <1>4. ASSUME NEW r \in RouteIds, OperatorDeletesRoute(r)
        PROVE  TypeOK'
    <2>1. DirectoryTypeOK'
      BY <1>4 DEF OperatorDeletesRoute, DeleteRoute, DirectoryTypeOK
    <2> QED
      BY <1>1, <1>4, <2>1 DEF OperatorDeletesRoute
  <1>5. ASSUME NEW c \in Chats, OperatorDisablesGroup(c)
        PROVE  TypeOK'
    <2>1. DirectoryTypeOK'
      BY <1>5 DEF OperatorDisablesGroup, RemoveGroup, DirectoryTypeOK
    <2> QED
      BY <1>5, <2>1 DEF OperatorDisablesGroup
  <1>6. CASE Crash \/ \E S \in SUBSET Pairs : PruneDedupe(S)
    BY <1>6 DEF Crash, PruneDedupe, directoryVars, DirectoryTypeOK
  <1> QED
    BY <1>2, <1>3, <1>4, <1>5, <1>6

LEMMA IngressTypeStep == TypeOK /\ [Next]_vars => TypeOK'
  <1> SUFFICES ASSUME TypeOK, [Next]_vars
               PROVE  TypeOK'
    OBVIOUS
  <1>1. ASSUME NEW h \in Requests,
               \/ RequestStep(h) \/ DeadlockVictim(h)
               \/ DatabaseFails(h) \/ CommitAnswerLost(h) \/ ReplyLost(h)
               \/ \E u \in Updates : Arrive(h, u)
        PROVE  TypeOK'
    BY <1>1, RequestTypes
  <1>2. CASE UNCHANGED vars
    BY <1>2 DEF vars, TypeOK, DirectoryTypeOK, directoryVars, requestVars, historyVars
  <1> QED
    BY <1>1, <1>2, OtherTypes DEF Next, Progress, Deliveries, Fault, Admin

(* Every reachable state of the webhook, its transactions and the          *)
(* directory is well typed.                                                *)
THEOREM IngressTypeCorrect == Spec => []TypeOK
  <1> QED
    BY IngressTypeInit, IngressTypeStep, PTL DEF Spec

-----------------------------------------------------------------------------
(* The inductive invariant behind "once per route".                        *)

(* Only a transaction that is inserting holds keys, ... *)
HoldersInsert == \A h \in Requests : mine[h] # {} => pc[h] = "insert"

(* ... of live routes, not yet in the table, ... *)
KeysAreNew ==
    \A h \in Requests : \A r \in mine[h] : Live(r) /\ <<r, serving[h]>> \notin dedupe

(* ... each held by one of them. *)
KeysHaveOneHolder ==
    \A g, h \in Requests : g # h /\ serving[g] = serving[h] => mine[g] \cap mine[h] = {}

(* What was queued still has its record, unless retention took it or the   *)
(* route is gone with all of its records.                                  *)
QueuedIsRecorded ==
    \A p \in Pairs : queued[p] > 0 => p \in dedupe \cup pruned \/ routeState[p[1]] = "deleted"

OnceInv ==
    /\ HoldersInsert /\ KeysAreNew /\ KeysHaveOneHolder /\ QueuedIsRecorded
    /\ OneJobPerRoute /\ NothingSwallowed

LEMMA OnceInit == Init => OnceInv
  BY DEF Init, BridgeInit, OnceInv, HoldersInsert, KeysAreNew, KeysHaveOneHolder, QueuedIsRecorded,
         OneJobPerRoute, NothingSwallowed, Pairs

(* The tables dedupe_records and delivery_jobs after a commit. *)
LEMMA CommitOnce ==
    ASSUME TypeOK, OnceInv, NEW h \in Requests, CommitWrites(h), pc[h] = "insert",
           mine' = [mine EXCEPT ![h] = {}],
           \A g \in Requests \ {h} : pc'[g] = pc[g] /\ serving'[g] = serving[g],
           UNCHANGED <<routeState, pruned>>
    PROVE  OnceInv'
  <1> DEFINE new == {<<r, serving[h]>> : r \in mine[h]}
  <1>1. new \subseteq Pairs /\ new \cap dedupe = {} /\ \A p \in new : routeState[p[1]] # "deleted"
    BY DEF TypeOK, OnceInv, KeysAreNew, Live, Pairs
  <1>2. /\ dedupe' = dedupe \cup new
        /\ \A p \in new : queued'[p] = IF queued[p] < 2 THEN queued[p] + 1 ELSE queued[p]
        /\ \A p \in Pairs \ new : queued'[p] = queued[p]
    BY <1>1 DEF CommitWrites
  <1>3. \A p \in new : queued[p] > 0 => p \in pruned
    BY <1>1 DEF OnceInv, QueuedIsRecorded
  <1>4. \A p \in new : queued'[p] > 0 /\ (queued'[p] > 1 => p \in pruned)
    BY <1>1, <1>2, <1>3 DEF TypeOK
  <1>5. QueuedIsRecorded' /\ OneJobPerRoute' /\ NothingSwallowed'
    BY <1>1, <1>2, <1>4
       DEF OnceInv, QueuedIsRecorded, OneJobPerRoute, NothingSwallowed, TypeOK
  <1>6. HoldersInsert' /\ KeysHaveOneHolder'
    BY DEF OnceInv, HoldersInsert, KeysHaveOneHolder, TypeOK
  <1>7. KeysAreNew'
    <2> SUFFICES ASSUME NEW g \in Requests, NEW r \in mine'[g]
                 PROVE  Live(r)' /\ <<r, serving'[g]>> \notin dedupe'
      BY DEF KeysAreNew
    <2>1. g # h /\ r \in mine[g] /\ serving'[g] = serving[g]
      BY DEF TypeOK
    <2>2. Live(r) /\ <<r, serving[g]>> \notin dedupe
      BY <2>1 DEF OnceInv, KeysAreNew
    <2>3. <<r, serving[g]>> \notin new
      BY <2>1 DEF OnceInv, KeysHaveOneHolder
    <2> QED
      BY <1>2, <2>1, <2>2, <2>3 DEF Live
  <1> QED
    BY <1>5, <1>6, <1>7 DEF OnceInv

(* A request that only gives up what it held. *)
LEMMA LeavingOnce ==
    ASSUME TypeOK, OnceInv, RoutesStay, UNCHANGED <<dedupe, queued, pruned>>,
           \A g \in Requests : \/ mine'[g] = {}
                               \/ /\ mine'[g] = mine[g] /\ serving'[g] = serving[g]
                                  /\ pc[g] = "insert" => pc'[g] = "insert"
    PROVE  OnceInv'
  <1>1. HoldersInsert' /\ KeysAreNew'
    BY DEF OnceInv, HoldersInsert, KeysAreNew, TypeOK, RoutesStay
  <1>2. KeysHaveOneHolder'
    BY DEF OnceInv, KeysHaveOneHolder
  <1>3. QueuedIsRecorded' /\ OneJobPerRoute' /\ NothingSwallowed'
    BY DEF OnceInv, QueuedIsRecorded, OneJobPerRoute, NothingSwallowed, RoutesStay, Pairs
  <1> QED
    BY <1>1, <1>2, <1>3 DEF OnceInv

LEMMA OnceStep == TypeOK /\ OnceInv /\ [Next]_vars => OnceInv'
  <1> SUFFICES ASSUME TypeOK, OnceInv, [Next]_vars
               PROVE  OnceInv'
    OBVIOUS
  <1>1. ASSUME NEW h \in Requests,
               \/ RequestStep(h) \/ DeadlockVictim(h)
               \/ DatabaseFails(h) \/ CommitAnswerLost(h) \/ ReplyLost(h)
               \/ \E u \in Updates : Arrive(h, u)
        PROVE  OnceInv'
    <2>1. RoutesStay
      BY <1>1, RequestTypes
    <2>2. CASE Register(h) \/ SelectRoutes(h) \/ \E u \in Updates : Arrive(h, u)
      <3>1. mine[h] = {}
        BY <2>2 DEF Register, SelectRoutes, Arrive, OnceInv, HoldersInsert
      <3>2. UNCHANGED <<dedupe, queued, pruned, mine>>
            /\ \A g \in Requests \ {h} : pc'[g] = pc[g] /\ serving'[g] = serving[g]
        BY <2>2 DEF Register, SelectRoutes, Arrive, historyVars, TypeOK
      <3> QED
        BY <2>1, <3>1, <3>2, LeavingOnce
    <2>3. ASSUME NEW r \in RouteIds, InsertKeyAndJob(h, r)
          PROVE  OnceInv'
      <3>1. HoldersInsert' /\ KeysAreNew' /\ KeysHaveOneHolder'
        BY <2>3 DEF InsertKeyAndJob, OnceInv, HoldersInsert, KeysAreNew, KeysHaveOneHolder,
                    HeldBy, Live, directoryVars, TypeOK
      <3>2. QueuedIsRecorded' /\ OneJobPerRoute' /\ NothingSwallowed'
        BY <2>3 DEF InsertKeyAndJob, OnceInv, QueuedIsRecorded, OneJobPerRoute, NothingSwallowed,
                    directoryVars, historyVars
      <3> QED
        BY <3>1, <3>2 DEF OnceInv
    <2>4. CASE \E r \in RouteIds : SkipDuplicate(h, r)
      BY <2>1, <2>4, LeavingOnce DEF SkipDuplicate, historyVars
    <2>5. CASE Commit(h)
      BY <2>5, CommitOnce DEF Commit, directoryVars, TypeOK
    <2>6. CASE CommitAnswerLost(h)
      BY <2>6, CommitOnce DEF CommitAnswerLost, Leave, directoryVars, TypeOK
    <2>7. CASE Reply(h) \/ Abort(h)
      BY <2>1, <2>7, LeavingOnce DEF Reply, Abort, Leave, historyVars, TypeOK
    <2> QED
      BY <1>1, <2>2, <2>3, <2>4, <2>5, <2>6, <2>7
         DEF RequestStep, RouteGone, DeadlockVictim, DatabaseFails, ReplyLost
  <1>2. CASE Connect \/ Disconnect \/ \E c \in Chats : OperatorDisablesGroup(c)
    <2>1. [DirectoryStep]_directoryVars
      BY <1>2 DEF Connect, Disconnect, OperatorDisablesGroup, DirectoryStep
    <2>2. RoutesStay
      BY <2>1, DirectoryKeeps DEF TypeOK
    <2> QED
      BY <1>2, <2>2, LeavingOnce DEF Connect, Disconnect, OperatorDisablesGroup, requestVars, historyVars
  <1>3. ASSUME NEW r \in RouteIds, OperatorDeletesRoute(r)
        PROVE  OnceInv'
    <2>1. /\ \A h \in Requests : r \notin mine[h]
          /\ routeState' = [routeState EXCEPT ![r] = "deleted"]
          /\ dedupe' = {p \in dedupe : p[1] # r}
          /\ UNCHANGED <<requestVars, queued, pruned>>
      BY <1>3 DEF OperatorDeletesRoute, DeleteRoute
    <2>2. HoldersInsert' /\ KeysAreNew' /\ KeysHaveOneHolder'
      BY <2>1 DEF OnceInv, HoldersInsert, KeysAreNew, KeysHaveOneHolder, Live, requestVars, TypeOK,
                  DirectoryTypeOK
    <2>3. QueuedIsRecorded' /\ OneJobPerRoute' /\ NothingSwallowed'
      BY <2>1 DEF OnceInv, QueuedIsRecorded, OneJobPerRoute, NothingSwallowed, TypeOK,
                  DirectoryTypeOK, Pairs
    <2> QED
      BY <2>2, <2>3 DEF OnceInv
  <1>4. ASSUME NEW S \in SUBSET Pairs, PruneDedupe(S)
        PROVE  OnceInv'
    BY <1>4 DEF PruneDedupe, OnceInv, HoldersInsert, KeysAreNew, KeysHaveOneHolder, QueuedIsRecorded,
                OneJobPerRoute, NothingSwallowed, Live, directoryVars, requestVars
  <1>5. CASE Crash \/ UNCHANGED vars
    <2>1. RoutesStay
      BY <1>5 DEF Crash, vars, directoryVars, RoutesStay, Live
    <2> QED
      BY <1>5, <2>1, LeavingOnce DEF Crash, vars, requestVars, historyVars
  <1> QED
    BY <1>1, <1>2, <1>3, <1>4, <1>5 DEF Next, Progress, Deliveries, Fault, Admin

(* A route is given a message once, however often Telegram sends it and    *)
(* however the requests for it overlap, and a dedupe record never stands   *)
(* for nothing.                                                            *)
THEOREM QueuedOnce == Spec => [](OneJobPerRoute /\ NothingSwallowed)
  <1>1. OnceInv => OneJobPerRoute /\ NothingSwallowed
    BY DEF OnceInv
  <1> QED
    BY OnceInit, OnceStep, IngressTypeCorrect, <1>1, PTL DEF Spec

(* A dedupe record never stands for nothing: who has it has the job too,   *)
(* so that a request that skips the route as a duplicate is right to.      *)
THEOREM SkipsAreSafe == Spec => []NothingSwallowed
  <1>1. OneJobPerRoute /\ NothingSwallowed => NothingSwallowed
    OBVIOUS
  <1> QED
    BY <1>1, QueuedOnce, PTL

-----------------------------------------------------------------------------
(* A request serves an update that has been sent. *)
ServedAreSent == \A h \in Requests : pc[h] # "idle" => inbox[serving[h]] # "unsent"

(* Until the 200, who is owed the update wants it still, so that a SELECT  *)
(* finds him; from the SELECT on, a request has him among its candidates,  *)
(* has inserted his job or found it queued.                                *)
OwedStillWant == \A u \in Updates : inbox[u] = "open" => owed[u] \subseteq Wanted(u)

InsertCoversOwed ==
    \A h \in Requests : pc[h] = "insert" =>
        \A r \in owed[serving[h]] : r \in cand[h] \cup mine[h] \/ queued[<<r, serving[h]>>] > 0

ReplyCoversOwed ==
    \A h \in Requests : pc[h] = "reply" =>
        \A r \in owed[serving[h]] : queued[<<r, serving[h]>>] > 0

AckInv == OwedStillWant /\ InsertCoversOwed /\ ReplyCoversOwed /\ AckMeansQueued

(* Who wants an update now has wanted it at some time, and a request goes  *)
(* through and inserts for such routes only.                               *)
WantingIsAChance ==
    \A u \in Updates : IF inbox[u] = "unsent" THEN chance[u] = {} ELSE Wanted(u) \subseteq chance[u]

InsertsHadAChance ==
    \A h \in Requests : pc[h] = "insert" => cand[h] \cup mine[h] \subseteq chance[serving[h]]

ConsentInv == WantingIsAChance /\ InsertsHadAChance /\ NobodyUnasked

PromiseInv == ServedAreSent /\ AckInv /\ ConsentInv

LEMMA PromiseInit == Init => PromiseInv
  BY DEF Init, BridgeInit, PromiseInv, ServedAreSent, AckInv, OwedStillWant, InsertCoversOwed, ReplyCoversOwed,
         AckMeansQueued, ConsentInv, WantingIsAChance, InsertsHadAChance, NobodyUnasked, Pairs

-----------------------------------------------------------------------------
LEMMA WantedStays ==
    ASSUME UNCHANGED <<member, blocked, routeState>>
    PROVE  \A u \in Updates : Wanted(u)' = Wanted(u)
  BY DEF Wanted, Routable

(* A change of the directory that `owed' and `chance' follow. *)
LEMMA FollowKeepsPromise ==
    ASSUME TypeOK, PromiseInv, FollowRoutes, UNCHANGED <<inbox, requestVars, queued>>
    PROVE  PromiseInv'
  <1>1. \A u \in Updates : owed'[u] \subseteq owed[u] /\ chance[u] \subseteq chance'[u]
    BY DEF FollowRoutes, TypeOK
  <1>2. \A h \in Requests : pc[h] # "idle" => serving[h] \in Updates
    BY DEF TypeOK
  <1>3. ServedAreSent'
    BY DEF PromiseInv, ServedAreSent, requestVars
  <1>4. OwedStillWant' /\ WantingIsAChance'
    BY DEF FollowRoutes, PromiseInv, AckInv, ConsentInv, OwedStillWant, WantingIsAChance, TypeOK
  <1>5. InsertCoversOwed' /\ ReplyCoversOwed' /\ AckMeansQueued'
    BY <1>1, <1>2 DEF PromiseInv, AckInv, InsertCoversOwed, ReplyCoversOwed, AckMeansQueued, requestVars
  <1>6. InsertsHadAChance' /\ NobodyUnasked'
    BY <1>1, <1>2 DEF PromiseInv, ConsentInv, InsertsHadAChance, NobodyUnasked, requestVars
  <1> QED
    BY <1>3, <1>4, <1>5, <1>6 DEF PromiseInv, AckInv, ConsentInv

(* A request that leaves, whether or not its transaction is committed. *)
LEMMA LeavingKeepsPromise ==
    ASSUME TypeOK, PromiseInv,
           \A g \in Requests : \/ pc'[g] = "idle"
                               \/ /\ pc'[g] = pc[g] /\ serving'[g] = serving[g]
                                  /\ cand'[g] = cand[g] /\ mine'[g] = mine[g],
           \A p \in Pairs : queued[p] > 0 => queued'[p] > 0,
           \A r \in RouteIds, u \in Updates :
              queued'[<<r, u>>] > 0 => queued[<<r, u>>] > 0 \/ r \in chance[u],
           UNCHANGED <<member, blocked, routeState, inbox, owed, chance>>
    PROVE  PromiseInv'
  <1>1. ServedAreSent'
    BY DEF PromiseInv, ServedAreSent
  <1>2. OwedStillWant' /\ WantingIsAChance'
    BY WantedStays DEF PromiseInv, AckInv, ConsentInv, OwedStillWant, WantingIsAChance
  <1>3. \A u \in Updates : \A r \in owed[u] : queued[<<r, u>>] > 0 => queued'[<<r, u>>] > 0
    BY DEF TypeOK, Pairs
  <1>4. \A h \in Requests : pc[h] # "idle" => serving[h] \in Updates
    BY DEF TypeOK
  <1>5. InsertCoversOwed' /\ ReplyCoversOwed' /\ AckMeansQueued'
    BY <1>3, <1>4 DEF PromiseInv, AckInv, InsertCoversOwed, ReplyCoversOwed, AckMeansQueued
  <1>6. InsertsHadAChance' /\ NobodyUnasked'
    BY DEF PromiseInv, ConsentInv, InsertsHadAChance, NobodyUnasked
  <1> QED
    BY <1>1, <1>2, <1>5, <1>6 DEF PromiseInv, AckInv, ConsentInv

(* What a commit queues. *)
LEMMA CommitQueues ==
    ASSUME TypeOK, PromiseInv, NEW h \in Requests, pc[h] = "insert", CommitWrites(h)
    PROVE  /\ \A p \in Pairs : queued[p] > 0 => queued'[p] > 0
           /\ \A r \in mine[h] : queued'[<<r, serving[h]>>] > 0
           /\ \A r \in RouteIds, u \in Updates :
                queued'[<<r, u>>] > 0 => queued[<<r, u>>] > 0 \/ r \in chance[u]
  <1> DEFINE new == {<<r, serving[h]>> : r \in mine[h]}
  <1>1. new \subseteq Pairs
    BY DEF TypeOK, Pairs
  <1>2. /\ \A p \in new : queued'[p] = IF queued[p] < 2 THEN queued[p] + 1 ELSE queued[p]
        /\ \A p \in Pairs \ new : queued'[p] = queued[p]
    BY <1>1 DEF CommitWrites
  <1>3. \A p \in new : queued'[p] > 0
    BY <1>1, <1>2 DEF TypeOK
  <1>4. \A r \in RouteIds, u \in Updates : <<r, u>> \in new => r \in chance[u]
    BY DEF PromiseInv, ConsentInv, InsertsHadAChance
  <1> QED
    BY <1>2, <1>3, <1>4 DEF Pairs

LEMMA RequestKeepsPromise ==
    ASSUME TypeOK, NothingSwallowed, HoldersInsert, PromiseInv, NEW h \in Requests,
           \/ RequestStep(h) \/ DeadlockVictim(h)
           \/ DatabaseFails(h) \/ CommitAnswerLost(h) \/ ReplyLost(h)
           \/ \E u \in Updates : Arrive(h, u)
    PROVE  PromiseInv'
  <1> USE DEF historyVars
  <1>1. ASSUME NEW u \in Updates, Arrive(h, u)
        PROVE  PromiseInv'
    <2>1. UNCHANGED <<member, blocked, routeState, cand, mine, queued>>
          /\ pc' = [pc EXCEPT ![h] = "register"] /\ serving' = [serving EXCEPT ![h] = u]
          /\ inbox[u] # "acked" /\ inbox' = [inbox EXCEPT ![u] = "open"]
      BY <1>1 DEF Arrive, directoryVars
    <2>2. \A v \in Updates : Wanted(v)' = Wanted(v)
      BY <2>1, WantedStays
    <2>3. \A v \in Updates : inbox[v] # "unsent" => owed'[v] = owed[v] /\ chance'[v] = chance[v]
      BY <1>1 DEF Arrive, TypeOK
    <2>4. \A v \in Updates : v # u => owed'[v] = owed[v] /\ chance'[v] = chance[v] /\ inbox'[v] = inbox[v]
      BY <1>1 DEF Arrive, TypeOK
    <2>5. inbox[u] = "unsent" => owed'[u] = Wanted(u) /\ chance'[u] = Wanted(u)
      BY <1>1 DEF Arrive, TypeOK
    <2>6. \A g \in Requests : pc[g] # "idle" => serving[g] \in Updates
      BY DEF TypeOK
    <2>7. ServedAreSent'
      BY <2>1 DEF PromiseInv, ServedAreSent, TypeOK
    <2>8. OwedStillWant' /\ WantingIsAChance'
      BY <2>1, <2>2, <2>3, <2>4, <2>5
         DEF PromiseInv, AckInv, ConsentInv, OwedStillWant, WantingIsAChance, TypeOK
    <2>9. \A g \in Requests : pc'[g] \in {"insert", "reply"} =>
             /\ pc'[g] = pc[g] /\ serving'[g] = serving[g]
             /\ owed'[serving[g]] = owed[serving[g]] /\ chance'[serving[g]] = chance[serving[g]]
      BY <2>1, <2>3, <2>6 DEF PromiseInv, ServedAreSent, TypeOK
    <2>10. InsertCoversOwed' /\ ReplyCoversOwed' /\ InsertsHadAChance'
      BY <2>1, <2>9 DEF PromiseInv, AckInv, ConsentInv, InsertCoversOwed, ReplyCoversOwed, InsertsHadAChance
    <2>11. AckMeansQueued'
      BY <2>1, <2>4 DEF PromiseInv, AckInv, AckMeansQueued, TypeOK
    <2>12. NobodyUnasked'
      BY <2>1, <2>3 DEF PromiseInv, ConsentInv, NobodyUnasked, WantingIsAChance
    <2> QED
      BY <2>7, <2>8, <2>10, <2>11, <2>12 DEF PromiseInv, AckInv, ConsentInv
  <1>2. CASE Register(h)
    <2>1. UNCHANGED <<member, blocked, routeState, inbox, serving, cand, mine, queued, owed, chance>>
          /\ pc[h] = "register" /\ pc' = [pc EXCEPT ![h] = "select"]
      BY <1>2 DEF Register, AddTelegramGroup, directoryVars
    <2>2. ServedAreSent' /\ InsertCoversOwed' /\ ReplyCoversOwed' /\ AckMeansQueued'
          /\ InsertsHadAChance' /\ NobodyUnasked'
      BY <2>1 DEF TypeOK, PromiseInv, ServedAreSent, AckInv, ConsentInv, InsertCoversOwed,
                  ReplyCoversOwed, AckMeansQueued, InsertsHadAChance, NobodyUnasked
    <2>3. OwedStillWant' /\ WantingIsAChance'
      BY <2>1, WantedStays DEF PromiseInv, AckInv, ConsentInv, OwedStillWant, WantingIsAChance
    <2> QED
      BY <2>2, <2>3 DEF PromiseInv, AckInv, ConsentInv
  <1>3. CASE SelectRoutes(h)
    <2>1. UNCHANGED <<member, blocked, routeState, inbox, serving, mine, queued, owed, chance>>
          /\ pc[h] = "select" /\ pc' = [pc EXCEPT ![h] = "insert"]
          /\ cand' = [cand EXCEPT ![h] = Wanted(serving[h])]
      BY <1>3 DEF SelectRoutes, directoryVars
    <2>2. serving[h] \in Updates /\ inbox[serving[h]] \in {"open", "acked"}
      BY <2>1 DEF TypeOK, PromiseInv, ServedAreSent
    <2>3. ServedAreSent' /\ ReplyCoversOwed' /\ AckMeansQueued' /\ NobodyUnasked'
      BY <2>1 DEF TypeOK, PromiseInv, ServedAreSent, AckInv, ConsentInv, ReplyCoversOwed,
                  AckMeansQueued, NobodyUnasked
    <2>4. OwedStillWant' /\ WantingIsAChance'
      BY <2>1, WantedStays DEF PromiseInv, AckInv, ConsentInv, OwedStillWant, WantingIsAChance
    <2>5. \A r \in owed[serving[h]] : r \in Wanted(serving[h]) \/ queued[<<r, serving[h]>>] > 0
      BY <2>2 DEF PromiseInv, AckInv, OwedStillWant, AckMeansQueued
    <2>6. InsertCoversOwed'
      BY <2>1, <2>5 DEF TypeOK, PromiseInv, AckInv, InsertCoversOwed
    <2>7. Wanted(serving[h]) \subseteq chance[serving[h]]
      BY <2>2 DEF PromiseInv, ConsentInv, WantingIsAChance
    <2>8. InsertsHadAChance'
      <3> SUFFICES ASSUME NEW g \in Requests, pc'[g] = "insert"
                   PROVE  cand'[g] \cup mine'[g] \subseteq chance'[serving'[g]]
        BY DEF InsertsHadAChance
      <3>1. CASE g = h
        BY <2>1, <2>7, <3>1 DEF TypeOK, HoldersInsert
      <3>2. CASE g # h
        BY <2>1, <3>2 DEF TypeOK, PromiseInv, ConsentInv, InsertsHadAChance
      <3> QED
        BY <3>1, <3>2
    <2> QED
      BY <2>3, <2>4, <2>6, <2>8 DEF PromiseInv, AckInv, ConsentInv
  <1>4. ASSUME NEW r \in RouteIds, InsertKeyAndJob(h, r)
        PROVE  PromiseInv'
    <2>1. UNCHANGED <<member, blocked, routeState, inbox, pc, serving, queued, owed, chance>>
          /\ pc[h] = "insert" /\ r \in cand[h]
          /\ cand' = [cand EXCEPT ![h] = @ \ {r}] /\ mine' = [mine EXCEPT ![h] = @ \cup {r}]
      BY <1>4 DEF InsertKeyAndJob, directoryVars
    <2>2. \A g \in Requests : cand'[g] \cup mine'[g] = cand[g] \cup mine[g]
      BY <2>1 DEF TypeOK
    <2> QED
      BY <2>1, <2>2, WantedStays
         DEF PromiseInv, ServedAreSent, AckInv, ConsentInv, OwedStillWant, WantingIsAChance, InsertCoversOwed,
             ReplyCoversOwed, AckMeansQueued, InsertsHadAChance, NobodyUnasked
  <1>5. ASSUME NEW r \in RouteIds, SkipDuplicate(h, r)
        PROVE  PromiseInv'
    <2>1. UNCHANGED <<member, blocked, routeState, inbox, pc, serving, mine, queued, owed, chance>>
          /\ cand' = [cand EXCEPT ![h] = @ \ {r}]
      BY <1>5 DEF SkipDuplicate, directoryVars
    <2>2. queued[<<r, serving[h]>>] > 0
      BY <1>5 DEF SkipDuplicate, NothingSwallowed
    <2>3. InsertCoversOwed' /\ InsertsHadAChance'
      BY <2>1, <2>2 DEF TypeOK, PromiseInv, AckInv, ConsentInv, InsertCoversOwed, InsertsHadAChance
    <2> QED
      BY <2>1, <2>3, WantedStays
         DEF PromiseInv, ServedAreSent, AckInv, ConsentInv, OwedStillWant, WantingIsAChance,
             ReplyCoversOwed, AckMeansQueued, NobodyUnasked
  <1>6. CASE Commit(h)
    <2>1. UNCHANGED <<member, blocked, routeState, inbox, serving, cand, owed, chance>>
          /\ pc[h] = "insert" /\ cand[h] = {} /\ CommitWrites(h)
          /\ pc' = [pc EXCEPT ![h] = "reply"] /\ mine' = [mine EXCEPT ![h] = {}]
      BY <1>6 DEF Commit, directoryVars
    <2>2. /\ \A p \in Pairs : queued[p] > 0 => queued'[p] > 0
          /\ \A r \in mine[h] : queued'[<<r, serving[h]>>] > 0
          /\ \A r \in RouteIds, u \in Updates :
               queued'[<<r, u>>] > 0 => queued[<<r, u>>] > 0 \/ r \in chance[u]
      BY <2>1, CommitQueues
    <2>3. \A u \in Updates : \A r \in owed[u] : queued[<<r, u>>] > 0 => queued'[<<r, u>>] > 0
      BY <2>2 DEF TypeOK, Pairs
    <2>4. \A g \in Requests : pc[g] # "idle" => serving[g] \in Updates
      BY DEF TypeOK
    <2>5. \A r \in owed[serving[h]] : queued'[<<r, serving[h]>>] > 0
      BY <2>1, <2>2, <2>3, <2>4 DEF PromiseInv, AckInv, InsertCoversOwed
    <2>6. ServedAreSent' /\ InsertsHadAChance' /\ NobodyUnasked'
      BY <2>1, <2>2 DEF TypeOK, PromiseInv, ServedAreSent, ConsentInv, InsertsHadAChance, NobodyUnasked
    <2>7. OwedStillWant' /\ WantingIsAChance'
      BY <2>1, WantedStays DEF PromiseInv, AckInv, ConsentInv, OwedStillWant, WantingIsAChance
    <2>8. InsertCoversOwed' /\ ReplyCoversOwed' /\ AckMeansQueued'
      BY <2>1, <2>3, <2>4, <2>5
         DEF TypeOK, PromiseInv, AckInv, InsertCoversOwed, ReplyCoversOwed, AckMeansQueued
    <2> QED
      BY <2>6, <2>7, <2>8 DEF PromiseInv, AckInv, ConsentInv
  <1>7. CASE Reply(h)
    <2>1. UNCHANGED <<member, blocked, routeState, queued, owed, chance>>
          /\ pc[h] = "reply" /\ inbox' = [inbox EXCEPT ![serving[h]] = "acked"]
          /\ pc' = [pc EXCEPT ![h] = "idle"]
          /\ \A g \in Requests \ {h} : UNCHANGED <<pc[g], serving[g], cand[g], mine[g]>>
      BY <1>7 DEF Reply, Leave, directoryVars, TypeOK
    <2>2. serving[h] \in Updates /\ inbox[serving[h]] # "unsent"
      BY <2>1 DEF TypeOK, PromiseInv, ServedAreSent
    <2>3. \A u \in Updates : inbox'[u] = IF u = serving[h] THEN "acked" ELSE inbox[u]
      BY <2>1 DEF TypeOK
    <2>4. \A g \in Requests : pc'[g] # "idle" => g # h
      BY <2>1 DEF TypeOK
    <2>5. ServedAreSent' /\ InsertCoversOwed' /\ ReplyCoversOwed' /\ InsertsHadAChance' /\ NobodyUnasked'
      BY <2>1, <2>3, <2>4
         DEF TypeOK, PromiseInv, ServedAreSent, AckInv, ConsentInv, InsertCoversOwed, ReplyCoversOwed,
             InsertsHadAChance, NobodyUnasked
    <2>6. AckMeansQueued'
      BY <2>1, <2>3 DEF PromiseInv, AckInv, AckMeansQueued, ReplyCoversOwed
    <2>7. OwedStillWant' /\ WantingIsAChance'
      BY <2>1, <2>2, <2>3, WantedStays DEF PromiseInv, AckInv, ConsentInv, OwedStillWant, WantingIsAChance
    <2> QED
      BY <2>5, <2>6, <2>7 DEF PromiseInv, AckInv, ConsentInv
  <1>8. CASE Abort(h)
    BY <1>8, LeavingKeepsPromise DEF Abort, Leave, directoryVars, TypeOK
  <1>9. CASE CommitAnswerLost(h)
    BY <1>9, CommitQueues, LeavingKeepsPromise DEF CommitAnswerLost, Leave, directoryVars, TypeOK
  <1> QED
    BY <1>1, <1>2, <1>3, <1>4, <1>5, <1>6, <1>7, <1>8, <1>9
       DEF RequestStep, RouteGone, DeadlockVictim, DatabaseFails, ReplyLost

LEMMA PromiseStep ==
    TypeOK /\ HoldersInsert /\ NothingSwallowed /\ PromiseInv /\ [Next]_vars => PromiseInv'
  <1> SUFFICES ASSUME TypeOK, HoldersInsert, NothingSwallowed, PromiseInv, [Next]_vars
               PROVE  PromiseInv'
    OBVIOUS
  <1>1. ASSUME NEW h \in Requests,
               \/ RequestStep(h) \/ DeadlockVictim(h)
               \/ DatabaseFails(h) \/ CommitAnswerLost(h) \/ ReplyLost(h)
               \/ \E u \in Updates : Arrive(h, u)
        PROVE  PromiseInv'
    BY <1>1, RequestKeepsPromise
  <1>2. CASE Connect \/ Disconnect \/ \E r \in RouteIds : OperatorDeletesRoute(r)
    BY <1>2, FollowKeepsPromise DEF Connect, Disconnect, OperatorDeletesRoute
  <1>3. CASE \/ Crash \/ UNCHANGED vars
             \/ \E c \in Chats : OperatorDisablesGroup(c)
             \/ \E S \in SUBSET Pairs : PruneDedupe(S)
    <2>1. UNCHANGED <<member, blocked, routeState, inbox, queued, owed, chance>>
      BY <1>3 DEF Crash, OperatorDisablesGroup, RemoveGroup, PruneDedupe, vars, directoryVars, historyVars
    <2>2. \A g \in Requests : \/ pc'[g] = "idle"
                              \/ /\ pc'[g] = pc[g] /\ serving'[g] = serving[g]
                                 /\ cand'[g] = cand[g] /\ mine'[g] = mine[g]
      BY <1>3 DEF Crash, OperatorDisablesGroup, PruneDedupe, vars, requestVars
    <2> QED
      BY <2>1, <2>2, LeavingKeepsPromise
  <1> QED
    BY <1>1, <1>2, <1>3 DEF Next, Progress, Deliveries, Fault, Admin

LEMMA PromiseHolds == Spec => []PromiseInv
  <1>1. OnceInv => HoldersInsert /\ NothingSwallowed
    BY DEF OnceInv
  <1> QED
    BY OnceInit, OnceStep, PromiseInit, PromiseStep, IngressTypeCorrect, <1>1, PTL DEF Spec

(* A 200 is true: whoever wanted the update from the moment it was sent    *)
(* until then has a job for it, by whichever of the requests that          *)
(* delivered it.                                                           *)
THEOREM AcksAreTrue == Spec => []AckMeansQueued
  <1>1. PromiseInv => AckMeansQueued
    BY DEF PromiseInv, AckInv
  <1> QED
    BY PromiseHolds, <1>1, PTL

(* Nobody is given an update he did not want at any time since it was      *)
(* sent, however late the request that works with an old SELECT commits.   *)
THEOREM ConsentIsKept == Spec => []NobodyUnasked
  <1>1. PromiseInv => NobodyUnasked
    BY DEF PromiseInv, ConsentInv
  <1> QED
    BY PromiseHolds, <1>1, PTL
=============================================================================
