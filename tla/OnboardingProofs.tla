-------------------------- MODULE OnboardingProofs --------------------------
(***************************************************************************)
(* What an invite is good for, whatever requests overlap, fail or are      *)
(* repeated, and whatever the operator does meanwhile.                     *)
(***************************************************************************)
EXTENDS Onboarding, FiniteSetTheorems, TLAPS

LEMMA ServedLink ==
    ASSUME TypeOK, NEW h \in Requests, pc[h] # "idle"
    PROVE  /\ serving[h] \in Links
           /\ serving[h].user \in Users /\ serving[h].code \in Invites
  BY LinksAreMessages DEF TypeOK

-----------------------------------------------------------------------------
(* Types. *)

LEMMA RouteTypes ==
    ASSUME DirectoryTypeOK, NEW c, NEW u, CreateRoute(c, u)
    PROVE  DirectoryTypeOK'
  BY DEF CreateRoute, NewIds, DirectoryTypeOK

LEMMA AddedRouteTypes ==
    ASSUME DirectoryTypeOK, NEW scope, NEW u, AddRoutes(scope, u)
    PROVE  DirectoryTypeOK'
  <1>1. UNCHANGED directoryVars \/ \E c : CreateRoute(c, u)
    BY DEF AddRoutes, CloneRouteToUser
  <1>2. UNCHANGED directoryVars => DirectoryTypeOK'
    BY DEF directoryVars, DirectoryTypeOK
  <1> QED
    BY <1>1, <1>2, RouteTypes

LEMMA OnboardingTypeInit == Init => TypeOK
  BY DEF Init, DirectoryInit, TypeOK, DirectoryTypeOK, Locations, Outcomes, Results

LEMMA OnboardingTypeStep ==
    ASSUME TypeOK, [Next]_vars
    PROVE  TypeOK'
  <1> USE DEF TypeOK, GoTo, Leave, requestVars, historyVars, Locations, Outcomes, Results
  <1>1. UNCHANGED directoryVars => DirectoryTypeOK'
    BY DEF directoryVars, DirectoryTypeOK
  <1>2. ASSUME NEW h \in Requests, NEW l \in Links, Arrive(h, l)
        PROVE  TypeOK'
    BY <1>1, <1>2, NoLinkIsNone DEF Arrive
  <1>3. ASSUME NEW h \in Requests, FindInvite(h) \/ Ignore(h) \/ ConsumeFails(h) \/ BindRoutesFails(h)
                                   \/ RecordStatusFails(h)
        PROVE  TypeOK'
    BY <1>1, <1>3 DEF FindInvite, Ignore, ConsumeFails, BindRoutesFails, RecordStatusFails
  <1>4. ASSUME NEW h \in Requests, ConsumeInvite(h) \/ ConsumeAnswerLost(h)
        PROVE  TypeOK'
    <2>1. serving[h].user \in Users /\ serving[h].code \in Invites
      BY <1>4, ServedLink DEF ConsumeInvite, ConsumeAnswerLost
    <2> QED
      BY <1>1, <1>4, <2>1 DEF ConsumeInvite, ConsumeAnswerLost, DeleteInvite
  <1>5. ASSUME NEW h \in Requests, LinkUser(h), pc[h] # "idle"
        PROVE  DirectoryTypeOK' /\ linked' \in [Invites -> 0 .. 2]
    <2>1. serving[h].user \in Users /\ serving[h].code \in Invites
      BY <1>5, ServedLink
    <2>2. DirectoryTypeOK'
      BY <1>5, <2>1 DEF LinkUser, UpsertLinkedUser, DirectoryTypeOK
    <2>3. linked' = [linked EXCEPT ![serving[h].code] = OneMore(@)]
      BY <1>5 DEF LinkUser
    <2> QED
      BY <2>1, <2>2, <2>3 DEF OneMore
  <1>6. ASSUME NEW h \in Requests, Upsert(h)
        PROVE  TypeOK'
    BY <1>5, <1>6 DEF Upsert
  <1>7. ASSUME NEW h \in Requests, UpsertFails(h)
        PROVE  TypeOK'
    <2>1. DirectoryTypeOK' /\ linked' \in [Invites -> 0 .. 2]
      BY <1>1, <1>5, <1>7 DEF UpsertFails
    <2> QED
      BY <1>7, <2>1 DEF UpsertFails
  <1>8. ASSUME NEW h \in Requests, BindRoutes(h)
        PROVE  TypeOK'
    BY <1>8, AddedRouteTypes DEF BindRoutes
  <1>9. ASSUME NEW h \in Requests, Greet(h)
        PROVE  TypeOK'
    <2>1. serving[h].code \in Invites
      BY <1>9, ServedLink DEF Greet
    <2>2. greeted' \in [Invites -> 0 .. 2] /\ outcome' \in [Requests -> Outcomes]
      BY <1>9, <2>1 DEF Greet, OneMore
    <2> QED
      BY <1>1, <1>9, <2>2 DEF Greet
  <1>10. ASSUME NEW h \in Requests, RecordStatus(h)
         PROVE  TypeOK'
    BY <1>1, <1>10, ServedLink DEF RecordStatus
  <1>11. ASSUME NEW h \in Requests, Reply(h) \/ ReplyLost(h)
         PROVE  TypeOK'
    BY <1>1, <1>11 DEF Reply, ReplyLost
  <1>12. CASE Crash \/ \E l \in Links : UserSends(l)
    BY <1>1, <1>12 DEF Crash, UserSends
  <1>13. CASE \E i \in Invites : CreateInvite(i) \/ RevokeInvite(i) \/ InviteExpires(i)
    BY <1>1, <1>13 DEF CreateInvite, RevokeInvite, InviteExpires
  <1>14. CASE \E c \in Chats, u \in Users : OperatorAddsRoute(c, u)
    BY <1>14, RouteTypes DEF OperatorAddsRoute
  <1>15. CASE OtherDirectoryChange
    <2>1. DirectoryTypeOK'
      BY <1>15 DEF OtherDirectoryChange, AddTelegramGroup, RemoveUser, DeleteRoute, DirectoryTypeOK
    <2> QED
      BY <1>15, <2>1 DEF OtherDirectoryChange
  <1>16. CASE UNCHANGED vars
    BY <1>1, <1>16 DEF vars
  <1>17. ASSUME NEW r \in RouteIds, WorkerReports(r)
         PROVE  TypeOK'
    BY <1>1, <1>17 DEF WorkerReports
  <1> QED
    BY <1>2, <1>3, <1>4, <1>6, <1>7, <1>8, <1>9, <1>10, <1>11, <1>12, <1>13, <1>14, <1>15, <1>16, <1>17
       DEF Next, Progress, RequestStep, Fault, Admin

(* Every reachable state of invites, requests and directory is well typed. *)
THEOREM OnboardingTypeCorrect == Spec => []TypeOK
  <1> QED
    BY OnboardingTypeInit, OnboardingTypeStep, PTL DEF Spec

-----------------------------------------------------------------------------
(* The inductive invariant behind one use per invite. *)

(* A request has the invite's row locked, or has consumed the invite and   *)
(* is to link its user, or to greet him.                                   *)
Locks(h, i)  == pc[h] = "delete" /\ serving[h].code = i
Spends(h, i) == pc[h] \in {"upsert", "routes", "greet"} /\ serving[h].code = i

(* A lock is held by one request, and on an open invite; ... *)
LocksAreSole ==
    \A i \in Invites, h \in Requests : Locks(h, i) =>
        /\ invite[i] = "open"
        /\ \A g \in Requests : Locks(g, i) => g = h

(* ... an invite that has not been used has left no trace; ... *)
UnusedIsUntouched ==
    \A i \in Invites : invite[i] # "used" =>
        /\ consumers[i] = {} /\ linked[i] = 0 /\ greeted[i] = 0
        /\ \A h \in Requests : ~Spends(h, i)

(* ... and one that has is spent by one request, step by step. *)
SpentOnce ==
    \A i \in Invites :
        /\ linked[i] <= 1 /\ greeted[i] <= 1
        /\ \A u, v \in consumers[i] : u = v
        /\ \A h \in Requests : Spends(h, i) =>
              /\ greeted[i] = 0
              /\ pc[h] = "upsert" => linked[i] = 0
              /\ \A g \in Requests : Spends(g, i) => g = h

RevokedIsGone == \A i \in toldRevoked : invite[i] \in {"used", "revoked"}

UseInv == LocksAreSole /\ UnusedIsUntouched /\ SpentOnce /\ RevokedIsGone

LEMMA UseInit == Init => UseInv
  BY DEF Init, UseInv, LocksAreSole, UnusedIsUntouched, SpentOnce, RevokedIsGone, Locks, Spends

(* A step that leaves the invites and what was done with them alone, and   *)
(* moves no request to a place where it locks or spends.                   *)
LEMMA QuietKeepsUse ==
    ASSUME TypeOK, UseInv, UNCHANGED <<invite, consumers, linked, greeted, toldRevoked>>,
           \A h \in Requests, i \in Invites :
               /\ Locks(h, i)' => Locks(h, i)
               /\ Spends(h, i)' => Spends(h, i) /\ (pc'[h] = "upsert" => pc[h] = "upsert")
    PROVE  UseInv'
  BY DEF UseInv, LocksAreSole, UnusedIsUntouched, SpentOnce, RevokedIsGone, TypeOK

LEMMA UseStep ==
    ASSUME TypeOK, TypeOK', UseInv, [Next]_vars
    PROVE  UseInv'
  <1> USE DEF GoTo, Leave, requestVars, historyVars
  <1>1. ASSUME NEW g \in Requests,
               \/ Ignore(g) \/ ConsumeFails(g) \/ BindRoutes(g) \/ BindRoutesFails(g)
               \/ RecordStatus(g) \/ RecordStatusFails(g) \/ Reply(g) \/ ReplyLost(g)
               \/ \E l \in Links : Arrive(g, l)
        PROVE  UseInv'
    <2>1. UNCHANGED <<invite, consumers, linked, greeted, toldRevoked>>
      BY <1>1 DEF Ignore, ConsumeFails, BindRoutes, BindRoutesFails, RecordStatus, RecordStatusFails,
                  Reply, ReplyLost, Arrive
    <2>2. \A h \in Requests \ {g} : pc'[h] = pc[h] /\ serving'[h] = serving[h]
      BY <1>1 DEF Ignore, ConsumeFails, BindRoutes, BindRoutesFails, RecordStatus, RecordStatusFails,
                  Reply, ReplyLost, Arrive, TypeOK
    <2>3. \/ pc'[g] \in {"idle", "lookup", "reply"}
          \/ pc[g] = "routes" /\ pc'[g] = "greet" /\ serving'[g] = serving[g]
      BY <1>1 DEF Ignore, ConsumeFails, BindRoutes, BindRoutesFails, RecordStatus, RecordStatusFails,
                  Reply, ReplyLost, Arrive, TypeOK
    <2> QED
      BY <2>1, <2>2, <2>3, QuietKeepsUse DEF Locks, Spends
  <1>2. ASSUME NEW g \in Requests, FindInvite(g)
        PROVE  UseInv'
    <2>1. /\ UNCHANGED <<invite, consumers, linked, greeted, toldRevoked, serving>>
          /\ pc' = [pc EXCEPT ![g] = "delete"] /\ pc[g] = "lookup"
          /\ ~Locked(serving[g].code) /\ invite[serving[g].code] = "open"
      BY <1>2 DEF FindInvite, Valid
    <2>2. /\ \A h \in Requests, i \in Invites : Locks(h, i)' <=> Locks(h, i) \/ (h = g /\ i = serving[g].code)
          /\ \A h \in Requests, i \in Invites : Spends(h, i)' <=> Spends(h, i)
      BY <2>1 DEF Locks, Spends, TypeOK
    <2>3. LocksAreSole'
      BY <2>1, <2>2 DEF UseInv, LocksAreSole, Locked, Locks
    <2> QED
      BY <2>1, <2>2, <2>3 DEF UseInv, UnusedIsUntouched, SpentOnce, RevokedIsGone, Spends, TypeOK
  <1>3. ASSUME NEW g \in Requests, ConsumeInvite(g) \/ ConsumeAnswerLost(g)
        PROVE  UseInv'
    <2> DEFINE k == serving[g].code
    <2>1. k \in Invites /\ Locks(g, k) /\ pc[g] = "delete"
      BY <1>3, ServedLink DEF ConsumeInvite, ConsumeAnswerLost, Locks
    <2>2. /\ invite[k] = "open" /\ consumers[k] = {} /\ linked[k] = 0 /\ greeted[k] = 0
          /\ \A h \in Requests : ~Spends(h, k) /\ (Locks(h, k) => h = g)
      BY <2>1 DEF UseInv, LocksAreSole, UnusedIsUntouched
    <2>3. /\ UNCHANGED <<linked, greeted, toldRevoked, serving>>
          /\ invite' = [invite EXCEPT ![k] = "used"]
          /\ consumers' = [consumers EXCEPT ![k] = @ \cup {serving[g].user}]
          /\ pc' = [pc EXCEPT ![g] = "upsert"] \/ pc' = [pc EXCEPT ![g] = "reply"]
      BY <1>3 DEF ConsumeInvite, ConsumeAnswerLost, DeleteInvite
    <2>4. \A i \in Invites \ {k} : invite'[i] = invite[i] /\ consumers'[i] = consumers[i]
      BY <2>3 DEF TypeOK
    <2>5. invite'[k] = "used" /\ consumers'[k] = {serving[g].user}
      BY <2>1, <2>2, <2>3 DEF TypeOK
    <2>6. \A h \in Requests, i \in Invites :
             /\ Locks(h, i)' => Locks(h, i) /\ i # k
             /\ Spends(h, i)' => Spends(h, i) \/ (h = g /\ i = k /\ pc'[g] = "upsert")
             /\ h # g => pc'[h] = pc[h]
      BY <2>1, <2>2, <2>3 DEF Locks, Spends, TypeOK
    <2> HIDE DEF k
    <2>7. LocksAreSole' /\ RevokedIsGone'
      BY <2>3, <2>4, <2>5, <2>6 DEF UseInv, LocksAreSole, RevokedIsGone, TypeOK
    <2>8. UnusedIsUntouched'
      BY <2>1, <2>3, <2>4, <2>5, <2>6 DEF UseInv, UnusedIsUntouched
    <2>9. SpentOnce'
      BY <2>1, <2>2, <2>3, <2>4, <2>5, <2>6 DEF UseInv, SpentOnce, Locks, Spends
    <2> QED
      BY <2>7, <2>8, <2>9 DEF UseInv
  <1>4. ASSUME NEW g \in Requests, LinkUser(g), pc[g] = "upsert",
               UNCHANGED <<invite, consumers, greeted, toldRevoked>>,
               \/ pc' = [pc EXCEPT ![g] = "routes"] /\ UNCHANGED serving
               \/ pc' = [pc EXCEPT ![g] = "idle"] /\ serving' = [serving EXCEPT ![g] = NoLink]
        PROVE  UseInv'
    <2> DEFINE k == serving[g].code
    <2>1. k \in Invites /\ Spends(g, k)
      BY <1>4, ServedLink DEF Spends
    <2>2. /\ linked[k] = 0 /\ greeted[k] = 0 /\ invite[k] = "used"
          /\ \A h \in Requests : Spends(h, k) => h = g
      BY <1>4, <2>1 DEF UseInv, UnusedIsUntouched, SpentOnce
    <2>3. linked' = [linked EXCEPT ![k] = OneMore(@)]
      BY <1>4 DEF LinkUser
    <2>4. linked'[k] = 1 /\ \A i \in Invites \ {k} : linked'[i] = linked[i]
      BY <2>1, <2>2, <2>3 DEF TypeOK, OneMore
    <2>5. \A h \in Requests, i \in Invites :
             /\ Locks(h, i)' => Locks(h, i)
             /\ Spends(h, i)' => Spends(h, i) /\ (pc'[h] = "upsert" => h # g)
             /\ h # g => pc'[h] = pc[h]
      BY <1>4 DEF Locks, Spends, TypeOK
    <2> HIDE DEF k
    <2>6. SpentOnce'
      BY <1>4, <2>1, <2>2, <2>4, <2>5 DEF UseInv, SpentOnce
    <2>7. UnusedIsUntouched'
      BY <1>4, <2>2, <2>4, <2>5 DEF UseInv, UnusedIsUntouched
    <2>8. LocksAreSole' /\ RevokedIsGone'
      BY <1>4, <2>5 DEF UseInv, LocksAreSole, RevokedIsGone
    <2> QED
      BY <2>6, <2>7, <2>8 DEF UseInv
  <1>5. ASSUME NEW g \in Requests, Upsert(g) \/ UpsertFails(g)
        PROVE  UseInv'
    <2>1. CASE LinkUser(g)
      BY <1>4, <1>5, <2>1 DEF Upsert, UpsertFails
    <2>2. CASE ~LinkUser(g)
      <3>1. UNCHANGED <<invite, consumers, linked, greeted, toldRevoked>>
        BY <1>5, <2>2 DEF Upsert, UpsertFails
      <3>2. /\ pc'[g] = "idle"
            /\ \A h \in Requests \ {g} : pc'[h] = pc[h] /\ serving'[h] = serving[h]
        BY <1>5, <2>2 DEF Upsert, UpsertFails, TypeOK
      <3> QED
        BY <3>1, <3>2, QuietKeepsUse DEF Locks, Spends
    <2> QED
      BY <2>1, <2>2
  <1>6. ASSUME NEW g \in Requests, Greet(g)
        PROVE  UseInv'
    <2> DEFINE k == serving[g].code
    <2>1. k \in Invites /\ Spends(g, k)
      BY <1>6, ServedLink DEF Greet, Spends
    <2>2. /\ greeted[k] = 0 /\ linked[k] <= 1 /\ invite[k] = "used"
          /\ \A h \in Requests : Spends(h, k) => h = g
      BY <2>1 DEF UseInv, UnusedIsUntouched, SpentOnce
    <2>3. /\ UNCHANGED <<invite, consumers, linked, toldRevoked, serving>>
          /\ pc' = [pc EXCEPT ![g] = "status"]
          /\ \E delivered \in BOOLEAN :
                greeted' = [greeted EXCEPT ![k] = IF delivered THEN OneMore(@) ELSE @]
      BY <1>6 DEF Greet
    <2>4. greeted'[k] \in {0, 1} /\ \A i \in Invites \ {k} : greeted'[i] = greeted[i]
      BY <2>1, <2>2, <2>3 DEF TypeOK, OneMore
    <2>5. \A h \in Requests, i \in Invites :
             /\ Locks(h, i)' => Locks(h, i)
             /\ Spends(h, i)' => Spends(h, i) /\ h # g /\ pc'[h] = pc[h]
      BY <2>3 DEF Locks, Spends, TypeOK
    <2> HIDE DEF k
    <2>6. SpentOnce'
      BY <2>1, <2>2, <2>3, <2>4, <2>5 DEF UseInv, SpentOnce
    <2>7. UnusedIsUntouched'
      BY <2>2, <2>3, <2>4, <2>5 DEF UseInv, UnusedIsUntouched
    <2>8. LocksAreSole' /\ RevokedIsGone'
      BY <2>3, <2>5 DEF UseInv, LocksAreSole, RevokedIsGone
    <2> QED
      BY <2>6, <2>7, <2>8 DEF UseInv
  <1>7. ASSUME Crash
        PROVE  UseInv'
    <2>1. /\ UNCHANGED <<invite, consumers, linked, greeted, toldRevoked>>
          /\ \A h \in Requests : pc'[h] = "idle"
      BY <1>7 DEF Crash
    <2> QED
      BY <2>1, QuietKeepsUse DEF Locks, Spends
  <1>8. ASSUME NEW k \in Invites, CreateInvite(k) \/ RevokeInvite(k)
        PROVE  UseInv'
    <2>1. UNCHANGED <<consumers, linked, greeted, pc, serving>>
      BY <1>8 DEF CreateInvite, RevokeInvite
    <2>2. /\ \A i \in Invites \ {k} : invite'[i] = invite[i]
          /\ invite'[k] = "used" <=> invite[k] = "used"
          /\ \A h \in Requests : Locks(h, k) => invite'[k] = invite[k]
      BY <1>8 DEF CreateInvite, RevokeInvite, Locked, UseInv, LocksAreSole, Locks, TypeOK
    <2>3. RevokedIsGone'
      BY <1>8 DEF CreateInvite, RevokeInvite, UseInv, RevokedIsGone, TypeOK
    <2> QED
      BY <2>1, <2>2, <2>3 DEF UseInv, LocksAreSole, UnusedIsUntouched, SpentOnce, Locks, Spends
  <1>9. ASSUME \/ \E l \in Links : UserSends(l)
               \/ \E i \in Invites : InviteExpires(i)
               \/ \E c \in Chats, u \in Users : OperatorAddsRoute(c, u)
               \/ \E r \in RouteIds : WorkerReports(r)
               \/ OtherDirectoryChange \/ UNCHANGED vars
        PROVE  UseInv'
    <2>1. UNCHANGED <<invite, consumers, linked, greeted, toldRevoked, pc, serving>>
      BY <1>9 DEF UserSends, InviteExpires, OperatorAddsRoute, WorkerReports, OtherDirectoryChange, vars
    <2> QED
      BY <2>1, QuietKeepsUse DEF Locks, Spends
  <1> QED
    BY <1>1, <1>2, <1>3, <1>5, <1>6, <1>7, <1>8, <1>9 DEF Next, Progress, RequestStep, Fault, Admin

LEMMA UseHolds == Spec => []UseInv
  <1>1. TypeOK /\ TypeOK' /\ UseInv /\ [Next]_vars => UseInv'
    BY UseStep
  <1> QED
    BY <1>1, UseInit, OnboardingTypeCorrect, PTL DEF Spec

(* An invite has one user, is linked once and greets once, however many    *)
(* requests carry its code at the same time, fail half way, or come again. *)
THEOREM InvitesAreUsedOnce == Spec => []OneUsePerInvite
  <1>1. TypeOK /\ UseInv => OneUsePerInvite
    <2> SUFFICES ASSUME TypeOK, UseInv, NEW i \in Invites
                 PROVE  Cardinality(consumers[i]) <= 1 /\ linked[i] <= 1 /\ greeted[i] <= 1
      BY DEF OneUsePerInvite
    <2>1. linked[i] <= 1 /\ greeted[i] <= 1 /\ \A u, v \in consumers[i] : u = v
      BY DEF UseInv, SpentOnce
    <2>2. CASE consumers[i] = {}
      BY <2>1, <2>2, FS_EmptySet
    <2>3. ASSUME NEW u \in consumers[i]
          PROVE  Cardinality(consumers[i]) = 1
      <3>1. consumers[i] = {u}
        BY <2>1
      <3> QED
        BY <3>1, FS_Singleton
    <2> QED
      BY <2>1, <2>2, <2>3
  <1> QED
    BY <1>1, UseHolds, OnboardingTypeCorrect, PTL

(* Who was told that an invite is revoked can rely on it: no request, not  *)
(* even one that found the invite before, consumes it any more.            *)
THEOREM RevocationIsFinal == Spec => RevokedIsFinal
  <1>1. TypeOK /\ UseInv /\ [Next]_vars
        => [\A i \in Invites : i \in toldRevoked => consumers'[i] = consumers[i]]_vars
    <2> SUFFICES ASSUME TypeOK, UseInv, [Next]_vars, NEW i \in Invites, i \in toldRevoked
                 PROVE  consumers'[i] = consumers[i]
      OBVIOUS
    <2>1. ASSUME NEW g \in Requests, ConsumeInvite(g) \/ ConsumeAnswerLost(g)
          PROVE  consumers'[i] = consumers[i]
      <3>1. Locks(g, serving[g].code) /\ serving[g].code \in Invites
        BY <2>1, ServedLink DEF ConsumeInvite, ConsumeAnswerLost, Locks
      <3>2. serving[g].code # i
        BY <3>1 DEF UseInv, LocksAreSole, RevokedIsGone
      <3> QED
        BY <2>1, <3>2 DEF ConsumeInvite, ConsumeAnswerLost, DeleteInvite, TypeOK
    <2>2. CASE UNCHANGED consumers
      BY <2>2
    <2>3. (\E g \in Requests : ConsumeInvite(g) \/ ConsumeAnswerLost(g)) \/ UNCHANGED consumers
      BY DEF Next, Progress, RequestStep, Fault, Admin, UserSends, Arrive, FindInvite, Ignore, Upsert,
             BindRoutes, Greet, RecordStatus, Reply, ConsumeFails, UpsertFails, BindRoutesFails,
             RecordStatusFails, ReplyLost, Crash, CreateInvite, RevokeInvite, InviteExpires,
             OperatorAddsRoute, WorkerReports, OtherDirectoryChange, historyVars, vars
    <2> QED
      BY <2>1, <2>2, <2>3
  <1> QED
    BY <1>1, UseHolds, OnboardingTypeCorrect, PTL DEF Spec, RevokedIsFinal

-----------------------------------------------------------------------------
(* The inductive invariant behind who gets in. *)

(* A request past the consumption works for a user who consumed. *)
ServesAConsumer ==
    \A h \in Requests : pc[h] \in {"upsert", "routes", "greet", "status"}
                        => serving[h].user \in consumers[serving[h].code]

(* A route, though it be deleted by now, was for a user with a row: the     *)
(* worker has nobody else's status to write.                                *)
RoutesHaveUsers == \A r \in RouteIds : routeState[r] # "unborn" => member[UserOf[r]] # "none"

AccessInv == ServesAConsumer /\ RoutesHaveUsers /\ StrangersStayOut /\ RoutesAreGranted

LEMMA AccessInit == Init => AccessInv
  BY DEF Init, DirectoryInit, AccessInv, ServesAConsumer, RoutesHaveUsers, StrangersStayOut,
         RoutesAreGranted, Live

(* Consumption is for good, and so is what the operator grants. *)
LEMMA TraceGrows ==
    ASSUME TypeOK, [Next]_vars
    PROVE  /\ \A i \in Invites : consumers[i] \subseteq consumers'[i]
           /\ byOperator \subseteq byOperator'
  <1>1. ASSUME NEW g \in Requests, ConsumeInvite(g) \/ ConsumeAnswerLost(g)
        PROVE  /\ \A i \in Invites : consumers[i] \subseteq consumers'[i]
               /\ UNCHANGED byOperator
    BY <1>1 DEF ConsumeInvite, ConsumeAnswerLost, DeleteInvite, TypeOK
  <1>2. CASE UNCHANGED consumers /\ byOperator \subseteq byOperator'
    BY <1>2
  <1>3. \/ \E g \in Requests : ConsumeInvite(g) \/ ConsumeAnswerLost(g)
        \/ UNCHANGED consumers /\ byOperator \subseteq byOperator'
    BY DEF Next, Progress, RequestStep, Fault, Admin, UserSends, Arrive, FindInvite, Ignore, Upsert,
           BindRoutes, Greet, RecordStatus, Reply, ConsumeFails, UpsertFails, BindRoutesFails,
           RecordStatusFails, ReplyLost, Crash, CreateInvite, RevokeInvite, InviteExpires,
           OperatorAddsRoute, WorkerReports, OtherDirectoryChange, historyVars, vars
  <1> QED
    BY <1>1, <1>2, <1>3

(* Where a request stands after a step. *)
LEMMA RequestsKeepAccess ==
    ASSUME TypeOK, TypeOK', ServesAConsumer, [Next]_vars
    PROVE  ServesAConsumer'
  <1> USE DEF GoTo, Leave, requestVars
  <1> DEFINE Served(h) == serving[h].user \in consumers[serving[h].code]
             Past(h)   == pc[h] \in {"upsert", "routes", "greet", "status"}
             Stays(h)  == pc'[h] = pc[h] /\ serving'[h] = serving[h]
  <1>1. ASSUME NEW h \in Requests, Past(h) \/ pc[h] = "delete", serving'[h] = serving[h], Served(h)
        PROVE  Served(h)'
    <2>1. serving[h].code \in Invites
      BY <1>1, ServedLink
    <2> QED
      BY <1>1, <2>1, TraceGrows
  <1>2. ASSUME NEW h \in Requests, Stays(h)
        PROVE  Past(h)' => Served(h)'
    <2>1. Past(h) => Served(h) /\ serving[h].code \in Invites
      BY ServedLink DEF ServesAConsumer
    <2> QED
      BY <1>1, <1>2, <2>1, TraceGrows
  <1>3. ASSUME NEW g \in Requests, ConsumeInvite(g) \/ ConsumeAnswerLost(g)
        PROVE  Served(g)' /\ \A h \in Requests \ {g} : Stays(h)
    <2>1. serving[g].code \in Invites
      BY <1>3, ServedLink DEF ConsumeInvite, ConsumeAnswerLost
    <2> QED
      BY <1>3, <2>1 DEF ConsumeInvite, ConsumeAnswerLost, DeleteInvite, TypeOK
  <1>4. ASSUME NEW g \in Requests,
               \/ FindInvite(g) \/ Ignore(g) \/ RecordStatus(g) \/ RecordStatusFails(g) \/ Reply(g)
               \/ ReplyLost(g) \/ ConsumeFails(g) \/ UpsertFails(g) \/ \E l \in Links : Arrive(g, l)
        PROVE  ~Past(g)' /\ \A h \in Requests \ {g} : Stays(h)
    BY <1>4 DEF FindInvite, Ignore, RecordStatus, RecordStatusFails, Reply, ReplyLost, ConsumeFails,
                UpsertFails, Arrive, TypeOK
  <1>5. ASSUME NEW g \in Requests, Upsert(g) \/ BindRoutes(g) \/ BindRoutesFails(g) \/ Greet(g)
        PROVE  /\ Past(g) /\ serving'[g] = serving[g]
               /\ \A h \in Requests \ {g} : Stays(h)
    BY <1>5 DEF Upsert, BindRoutes, BindRoutesFails, Greet, TypeOK
  <1>6. ASSUME Crash
        PROVE  \A h \in Requests : ~Past(h)'
    BY <1>6 DEF Crash
  <1>7. ASSUME \/ \E l \in Links : UserSends(l)
               \/ \E i \in Invites : CreateInvite(i) \/ RevokeInvite(i) \/ InviteExpires(i)
               \/ \E c \in Chats, u \in Users : OperatorAddsRoute(c, u)
               \/ \E r \in RouteIds : WorkerReports(r)
               \/ OtherDirectoryChange \/ UNCHANGED vars
        PROVE  \A h \in Requests : Stays(h)
    BY <1>7 DEF UserSends, CreateInvite, RevokeInvite, InviteExpires, OperatorAddsRoute,
                WorkerReports, OtherDirectoryChange, vars
  <1>8. ASSUME NEW h \in Requests, Past(h)
        PROVE  Served(h)
    BY <1>8 DEF ServesAConsumer
  <1> SUFFICES ASSUME NEW h \in Requests
               PROVE  Past(h)' => Served(h)'
    BY DEF ServesAConsumer
  <1>9. ASSUME NEW g \in Requests, RequestStep(g) \/ ConsumeFails(g) \/ ConsumeAnswerLost(g)
                  \/ UpsertFails(g) \/ BindRoutesFails(g) \/ RecordStatusFails(g) \/ ReplyLost(g)
                  \/ \E l \in Links : Arrive(g, l)
        PROVE  Past(h)' => Served(h)'
    <2>1. CASE h # g
      BY <1>2, <1>3, <1>4, <1>5, <1>9, <2>1 DEF RequestStep
    <2>2. CASE h = g
      <3> HIDE DEF Served
      <3> QED
        BY <1>1, <1>3, <1>4, <1>5, <1>8, <1>9, <2>2 DEF RequestStep
    <2> QED
      BY <2>1, <2>2
  <1> HIDE DEF Served, Past, Stays
  <1> QED
    BY <1>2, <1>6, <1>7, <1>9 DEF Next, Progress, Fault, Admin

(* What may be added to the directory, and for whom. *)
LEMMA AddedRoutes ==
    ASSUME NEW scope, NEW u, AddRoutes(scope, u)
    PROVE  /\ UNCHANGED member
           /\ \A r \in RouteIds : routeState'[r] # "unborn" =>
                 routeState[r] # "unborn" \/ (UserOf[r] = u /\ member[u] # "none")
           /\ \A r \in RouteIds : Live(r)' => \/ Live(r)
                                             \/ /\ UserOf[r] = u /\ member[u] # "none"
                                                /\ \/ scope.type = "group" /\ scope.chat = ChatOf[r]
                                                   \/ scope.type = "route" /\ ChatOf[scope.source] = ChatOf[r]
  <1>1. ASSUME NEW c, CreateRoute(c, u)
        PROVE  /\ UNCHANGED member /\ member[u] # "none"
               /\ \A r \in RouteIds : routeState'[r] # "unborn" =>
                     routeState[r] # "unborn" \/ UserOf[r] = u
               /\ \A r \in RouteIds : Live(r)' => Live(r) \/ (UserOf[r] = u /\ ChatOf[r] = c)
    BY <1>1 DEF CreateRoute, CanCreateRoute, NewIds, Live
  <1>2. CASE UNCHANGED directoryVars
    BY <1>2 DEF directoryVars, Live
  <1>3. CASE scope.type = "group" /\ CreateRoute(scope.chat, u)
    BY <1>1, <1>3
  <1>4. CASE scope.type = "route" /\ CreateRoute(ChatOf[scope.source], u)
    BY <1>1, <1>4
  <1> QED
    BY <1>2, <1>3, <1>4 DEF AddRoutes, CloneRouteToUser

LEMMA WhoEnters ==
    ASSUME TypeOK, ServesAConsumer, [Next]_vars
    PROVE  /\ \A u \in Users : member'[u] # "none" =>
                 member[u] # "none" \/ \E i \in Invites : u \in consumers[i]
           /\ \A u \in Users :
                 \/ lastStatus'[u] = lastStatus[u]
                 \/ \E h \in Requests : pc[h] = "status" /\ u = serving[h].user
                 \/ \E r \in RouteIds : routeState[r] # "unborn" /\ u = UserOf[r]
           /\ \A u \in Users : member[u] # "none" => member'[u] # "none"
           /\ \A r \in RouteIds : routeState'[r] # "unborn" =>
                 routeState[r] # "unborn" \/ member[UserOf[r]] # "none"
           /\ \A r \in RouteIds : Live(r)' =>
                 \/ Live(r)
                 \/ /\ member[UserOf[r]] # "none"
                    /\ \/ r \in byOperator'
                       \/ \E i \in Invites : UserOf[r] \in consumers[i] /\ Grants(i, ChatOf[r])
  <1> DEFINE Members == \A u \in Users : member'[u] # "none" =>
                            member[u] # "none" \/ \E i \in Invites : u \in consumers[i]
             Statuses == \A u \in Users :
                            \/ lastStatus'[u] = lastStatus[u]
                            \/ \E h \in Requests : pc[h] = "status" /\ u = serving[h].user
                            \/ \E r \in RouteIds : routeState[r] # "unborn" /\ u = UserOf[r]
             Lasting == \A u \in Users : member[u] # "none" => member'[u] # "none"
             Born == \A r \in RouteIds : routeState'[r] # "unborn" =>
                            routeState[r] # "unborn" \/ member[UserOf[r]] # "none"
             Access == \A r \in RouteIds : Live(r)' =>
                            \/ Live(r)
                            \/ /\ member[UserOf[r]] # "none"
                               /\ \/ r \in byOperator'
                                  \/ \E i \in Invites : UserOf[r] \in consumers[i] /\ Grants(i, ChatOf[r])
  <1>1. ASSUME UNCHANGED <<member, routeState>>
        PROVE  Members /\ Access /\ Lasting /\ Born
    BY <1>1 DEF Live
  <1>2. ASSUME UNCHANGED lastStatus
        PROVE  Statuses
    BY <1>2
  <1>3. ASSUME NEW g \in Requests, LinkUser(g), pc[g] = "upsert"
        PROVE  Members /\ Access /\ Lasting /\ Born
    <2>1. /\ serving[g].user \in Users /\ serving[g].code \in Invites
          /\ serving[g].user \in consumers[serving[g].code]
      BY <1>3, ServedLink DEF ServesAConsumer
    <2>2. /\ member' = [member EXCEPT ![serving[g].user] = "active"]
          /\ UNCHANGED routeState
      BY <1>3 DEF LinkUser, UpsertLinkedUser
    <2> QED
      BY <2>1, <2>2 DEF Live, TypeOK, DirectoryTypeOK
  <1>4. ASSUME NEW g \in Requests, BindRoutes(g)
        PROVE  Members /\ Access /\ Lasting /\ Born
    <2> DEFINE i == serving[g].code
    <2>1. i \in Invites /\ serving[g].user \in consumers[i]
      BY <1>4, ServedLink DEF ServesAConsumer, BindRoutes
    <2>2. AddRoutes(ScopeOf[i], serving[g].user)
      BY <1>4 DEF BindRoutes
    <2> HIDE DEF i
    <2> QED
      BY <2>1, <2>2, AddedRoutes DEF Grants
  <1>5. ASSUME NEW c \in Chats, NEW u \in Users, OperatorAddsRoute(c, u)
        PROVE  Members /\ Access /\ Lasting /\ Born
    <2>1. UNCHANGED member
      BY <1>5 DEF OperatorAddsRoute, CreateRoute
    <2>2. ASSUME NEW r \in RouteIds, Live(r)', ~Live(r)
          PROVE  member[UserOf[r]] # "none" /\ r \in byOperator'
      BY <1>5, <2>2 DEF OperatorAddsRoute, CreateRoute, CanCreateRoute, NewIds, Live
    <2>3. Born
      BY <1>5 DEF OperatorAddsRoute, CreateRoute, CanCreateRoute, NewIds
    <2> QED
      BY <2>1, <2>2, <2>3
  <1>6. ASSUME OtherDirectoryChange
        PROVE  Members /\ Access /\ Lasting /\ Born
    BY <1>6 DEF OtherDirectoryChange, AddTelegramGroup, RemoveUser, DeleteRoute, Live, TypeOK, DirectoryTypeOK
  <1>7. ASSUME NEW g \in Requests, RecordStatus(g)
        PROVE  Statuses
    BY <1>7 DEF RecordStatus, TypeOK
  <1>8. ASSUME NEW r \in RouteIds, WorkerReports(r)
         PROVE  Statuses
    BY <1>8 DEF WorkerReports, TypeOK
  <1> HIDE DEF Members, Access, Statuses, Lasting, Born
  <1>9. Members /\ Access /\ Lasting /\ Born
    <2>1. ASSUME NEW g \in Requests, Upsert(g) \/ UpsertFails(g)
          PROVE  (LinkUser(g) /\ pc[g] = "upsert") \/ UNCHANGED <<member, routeState>>
      BY <2>1 DEF Upsert, UpsertFails, directoryVars
    <2>2. \/ \E g \in Requests : Upsert(g) \/ UpsertFails(g) \/ BindRoutes(g)
          \/ \E c \in Chats, u \in Users : OperatorAddsRoute(c, u)
          \/ OtherDirectoryChange
          \/ UNCHANGED <<member, routeState>>
      BY DEF Next, Progress, RequestStep, Fault, Admin, UserSends, Arrive, FindInvite, Ignore,
             ConsumeInvite, Greet, RecordStatus, Reply, ConsumeFails, ConsumeAnswerLost,
             BindRoutesFails, RecordStatusFails, ReplyLost, Crash, CreateInvite, RevokeInvite,
             InviteExpires, WorkerReports, directoryVars, vars
    <2> QED
      BY <1>1, <1>3, <1>4, <1>5, <1>6, <2>1, <2>2
  <1>10. Statuses
    <2>1. \/ \E g \in Requests : RecordStatus(g)
          \/ \E r \in RouteIds : WorkerReports(r)
          \/ UNCHANGED lastStatus
      BY DEF Next, Progress, RequestStep, Fault, Admin, UserSends, Arrive, FindInvite, Ignore,
             ConsumeInvite, Upsert, BindRoutes, Greet, Reply, ConsumeFails, ConsumeAnswerLost,
             UpsertFails, BindRoutesFails, RecordStatusFails, ReplyLost, Crash, CreateInvite,
             RevokeInvite, InviteExpires, OperatorAddsRoute, OtherDirectoryChange, vars
    <2> QED
      BY <1>2, <1>7, <1>8, <2>1
  <1> QED
    BY <1>9, <1>10 DEF Members, Access, Statuses, Lasting, Born

LEMMA AccessStep ==
    ASSUME TypeOK, TypeOK', AccessInv, [Next]_vars
    PROVE  AccessInv'
  <1>1. ServesAConsumer'
    BY RequestsKeepAccess DEF AccessInv
  <1>2. ASSUME NEW h \in Requests, pc[h] = "status"
        PROVE  serving[h].code \in Invites /\ serving[h].user \in consumers[serving[h].code]
    BY <1>2, ServedLink DEF AccessInv, ServesAConsumer
  <1>3. RoutesHaveUsers'
    BY RoutesAreRows, WhoEnters DEF AccessInv, RoutesHaveUsers
  <1>4. ASSUME NEW u \in Users, \A i \in Invites : u \notin consumers'[i]
        PROVE  member'[u] = "none" /\ lastStatus'[u] = "never" /\ \A r \in RouteIds : UserOf[r] = u => ~Live(r)'
    <2>1. \A i \in Invites : u \notin consumers[i]
      BY <1>4, TraceGrows
    <2>2. member[u] = "none" /\ lastStatus[u] = "never" /\ \A r \in RouteIds : UserOf[r] = u => ~Live(r)
      BY <2>1 DEF AccessInv, StrangersStayOut
    <2>3. \A r \in RouteIds : UserOf[r] = u => routeState[r] = "unborn"
      BY <2>2 DEF AccessInv, RoutesHaveUsers
    <2> QED
      BY <1>2, <2>1, <2>2, <2>3, WhoEnters DEF AccessInv
  <1>5. ASSUME NEW r \in RouteIds, Live(r)'
        PROVE  \/ r \in byOperator'
               \/ \E i \in Invites : UserOf[r] \in consumers'[i] /\ Grants(i, ChatOf[r])
    <2>1. \/ r \in byOperator'
          \/ \E i \in Invites : UserOf[r] \in consumers[i] /\ Grants(i, ChatOf[r])
          \/ r \in byOperator
      BY <1>5, WhoEnters DEF AccessInv, RoutesAreGranted
    <2> QED
      BY <2>1, TraceGrows
  <1> QED
    BY <1>1, <1>3, <1>4, <1>5 DEF AccessInv, StrangersStayOut, RoutesAreGranted, Grants

LEMMA AccessHolds == Spec => []AccessInv
  <1>1. TypeOK /\ TypeOK' /\ AccessInv /\ [Next]_vars => AccessInv'
    BY AccessStep
  <1> QED
    BY <1>1, AccessInit, OnboardingTypeCorrect, PTL DEF Spec

(* Nobody has a row, a route or a delivery, by the bridge or the worker,   *)
(* without having consumed an invite, whatever codes he tries and whatever *)
(* others do.                                                              *)
THEOREM StrangersAreOut == Spec => []StrangersStayOut
  <1>1. AccessInv => StrangersStayOut
    BY DEF AccessInv
  <1> QED
    BY <1>1, AccessHolds, PTL

(* Every route goes back to the operator or to an invite whose scope       *)
(* covers its chat and which its user consumed.                            *)
THEOREM RoutesHaveGrants == Spec => []RoutesAreGranted
  <1>1. AccessInv => RoutesAreGranted
    BY DEF AccessInv
  <1> QED
    BY <1>1, AccessHolds, PTL
=============================================================================
