--------------------------- MODULE PipelineProofs ---------------------------
(***************************************************************************)
(* From Telegram to MAX: what a 200 of the webhook is worth once its jobs  *)
(* are in the hands of the worker, the operator and housekeeping, and how  *)
(* one person can get one update twice.                                    *)
(***************************************************************************)
EXTENDS Pipeline, IngressProofs

(* The webhook does not notice the queue behind it: what is proved of      *)
(* Ingress alone holds here. *)
LEMMA BridgeGoesOn == [PNext]_pipeVars => [Next]_vars
  BY DEF PNext, BridgeSteps, DeleteRouteAndJobs, WorkerStep, TryOpen, Try, Settle, Contention, StaleCopy,
         Disturb, PutBack, Retire, Next, Admin, pipeVars

LEMMA BridgeKeepsItsWord ==
    PSpec => [](TypeOK /\ OneJobPerRoute /\ AckMeansQueued /\ NobodyUnasked)
  <1>1. PSpec => Spec
    <2>1. PInit => Init
      BY DEF PInit
    <2> QED
      BY <2>1, BridgeGoesOn, PTL DEF PSpec, Spec
  <1>2. OneJobPerRoute /\ NothingSwallowed => OneJobPerRoute
    OBVIOUS
  <1> QED
    BY <1>1, <1>2, IngressTypeCorrect, QueuedOnce, AcksAreTrue, ConsentIsKept, PTL

-----------------------------------------------------------------------------
(* Routes: a pair of chat and user has one live row, a deleted row stays   *)
(* deleted, and who had a chance to get an update is a row of its chat.    *)

OneRowPerPair ==
    \A r, s \in RouteIds :
        Live(r) /\ Live(s) /\ ChatOf[r] = ChatOf[s] /\ UserOf[r] = UserOf[s] => r = s

ChancesAreRows ==
    \A u \in Updates : \A r \in chance[u] :
        routeState[r] # "unborn" /\ ChatOf[r] = MessageOf[u].chat

RouteStep ==
    \/ \E c \in Chats, u \in Users : CreateRoute(c, u)
    \/ \E u \in Users : RemoveUser(u)
    \/ \E r \in RouteIds : DeleteRoute(r) \/ \E s \in {"enabled", "paused"} : UpdateRouteState(r, s)

LEMMA WhoChangesRoutes ==
    ASSUME [Next]_vars
    PROVE  [RouteStep]_routeState
  <1>1. ASSUME NEW h \in Requests,
               \/ RequestStep(h) \/ DeadlockVictim(h)
               \/ DatabaseFails(h) \/ CommitAnswerLost(h) \/ ReplyLost(h)
               \/ \E u \in Updates : Arrive(h, u)
        PROVE  UNCHANGED routeState
    BY <1>1 DEF RequestStep, Register, AddTelegramGroup, SelectRoutes, Commit, Reply, RouteGone,
                InsertKeyAndJob, SkipDuplicate, DeadlockVictim, DatabaseFails, CommitAnswerLost,
                ReplyLost, Arrive, Abort, directoryVars
  <1>2. CASE Connect \/ Disconnect
    BY <1>2 DEF Connect, Disconnect, UpsertLinkedUser, SetUserBlocked, RouteStep
  <1>3. CASE \E r \in RouteIds : OperatorDeletesRoute(r)
    BY <1>3 DEF OperatorDeletesRoute, RouteStep
  <1>4. CASE \/ Crash \/ UNCHANGED vars
             \/ \E c \in Chats : OperatorDisablesGroup(c)
             \/ \E S \in SUBSET Pairs : PruneDedupe(S)
    BY <1>4 DEF Crash, OperatorDisablesGroup, RemoveGroup, PruneDedupe, vars, directoryVars
  <1> QED
    BY <1>1, <1>2, <1>3, <1>4 DEF Next, Progress, Deliveries, Fault, Admin

LEMMA RoutesAge ==
    ASSUME DirectoryTypeOK, OneRowPerPair, [RouteStep]_routeState
    PROVE  /\ OneRowPerPair'
           /\ \A r \in RouteIds : /\ routeState[r] # "unborn" => routeState'[r] # "unborn"
                                  /\ routeState[r] = "deleted" => routeState'[r] = "deleted"
  <1> USE DEF DirectoryTypeOK, OneRowPerPair, Live
  <1>1. ASSUME NEW c \in Chats, NEW u \in Users, CreateRoute(c, u)
        PROVE  /\ OneRowPerPair'
               /\ \A r \in RouteIds : /\ routeState[r] # "unborn" => routeState'[r] # "unborn"
                                      /\ routeState[r] = "deleted" => routeState'[r] = "deleted"
    <2> PICK n \in NewIds(c, u) : routeState' = [routeState EXCEPT ![n] = "enabled"]
      BY <1>1 DEF CreateRoute
    <2>1. n \in RouteIds /\ routeState[n] = "unborn" /\ ChatOf[n] = c /\ UserOf[n] = u
      BY DEF NewIds
    <2>2. \A r \in RouteIds : Live(r) => ChatOf[r] # c \/ UserOf[r] # u
      BY <1>1 DEF CreateRoute, CanCreateRoute, Taken
    <2> QED
      BY <2>1, <2>2
  <1>2. ASSUME NEW u \in Users, RemoveUser(u)
        PROVE  /\ OneRowPerPair'
               /\ \A r \in RouteIds : /\ routeState[r] # "unborn" => routeState'[r] # "unborn"
                                      /\ routeState[r] = "deleted" => routeState'[r] = "deleted"
    BY <1>2 DEF RemoveUser
  <1>3. ASSUME NEW q \in RouteIds, DeleteRoute(q) \/ \E s \in {"enabled", "paused"} : UpdateRouteState(q, s)
        PROVE  /\ OneRowPerPair'
               /\ \A r \in RouteIds : /\ routeState[r] # "unborn" => routeState'[r] # "unborn"
                                      /\ routeState[r] = "deleted" => routeState'[r] = "deleted"
    BY <1>3 DEF DeleteRoute, UpdateRouteState
  <1>4. CASE UNCHANGED routeState
    BY <1>4
  <1> QED
    BY <1>1, <1>2, <1>3, <1>4 DEF RouteStep

LEMMA ChancesStayRows ==
    ASSUME TypeOK, OneRowPerPair, ChancesAreRows, [Next]_vars
    PROVE  OneRowPerPair' /\ ChancesAreRows'
  <1>1. /\ OneRowPerPair'
        /\ \A r \in RouteIds : routeState[r] # "unborn" => routeState'[r] # "unborn"
    BY WhoChangesRoutes, RoutesAge DEF TypeOK
  <1>2. \A u \in Updates : \A r \in Wanted(u) :
           routeState[r] # "unborn" /\ ChatOf[r] = MessageOf[u].chat
    BY DEF Wanted, Routable
  <1>3. \A u \in Updates : \A r \in Wanted(u)' :
           routeState'[r] # "unborn" /\ ChatOf[r] = MessageOf[u].chat
    BY DEF Wanted, Routable
  <1>4. \A u \in Updates : chance'[u] \subseteq chance[u] \cup Wanted(u) \cup Wanted(u)'
    <2> USE DEF TypeOK, historyVars
    <2>1. ASSUME NEW h \in Requests, NEW v \in Updates, Arrive(h, v)
          PROVE  \A u \in Updates : chance'[u] \subseteq chance[u] \cup Wanted(u)
      BY <2>1 DEF Arrive
    <2>2. ASSUME NEW h \in Requests,
                 \/ RequestStep(h) \/ DeadlockVictim(h)
                 \/ DatabaseFails(h) \/ CommitAnswerLost(h) \/ ReplyLost(h)
          PROVE  chance' = chance
      BY <2>2 DEF RequestStep, Register, SelectRoutes, Commit, Reply, RouteGone, InsertKeyAndJob,
                  SkipDuplicate, DeadlockVictim, DatabaseFails, CommitAnswerLost, ReplyLost, Abort
    <2>3. ASSUME FollowRoutes
          PROVE  \A u \in Updates : chance'[u] \subseteq chance[u] \cup Wanted(u)'
      BY <2>3 DEF FollowRoutes
    <2>4. CASE Connect \/ Disconnect \/ \E r \in RouteIds : OperatorDeletesRoute(r)
      BY <2>3, <2>4 DEF Connect, Disconnect, OperatorDeletesRoute
    <2>5. CASE \/ Crash \/ UNCHANGED vars
               \/ \E c \in Chats : OperatorDisablesGroup(c)
               \/ \E S \in SUBSET Pairs : PruneDedupe(S)
      BY <2>5 DEF Crash, OperatorDisablesGroup, PruneDedupe, vars
    <2> QED
      BY <2>1, <2>2, <2>4, <2>5 DEF Next, Progress, Deliveries, Fault, Admin
  <1>5. \A u \in Updates : \A r \in chance'[u] :
           routeState'[r] # "unborn" /\ ChatOf[r] = MessageOf[u].chat
    BY <1>1, <1>2, <1>3, <1>4 DEF ChancesAreRows, TypeOK, Wanted
  <1> QED
    BY <1>1, <1>5 DEF ChancesAreRows

-----------------------------------------------------------------------------
(* Rows. *)

QueueTypeOK ==
    /\ stage \in [Jobs -> Queue!Stages]
    /\ received \in [Jobs -> 0 .. 2]
    /\ tries \in [Jobs -> Int]
    /\ disturbed \in SUBSET Jobs

(* A pair has as many rows in the queue as the bridge has committed for    *)
(* it, ... *)
RowsAreQueued == \A j \in Jobs : stage[j] # "none" <=> j[2] <= queued[j[1]]

(* ... only they are sent, and again only once they have been disturbed, ... *)
RowsAreReceived ==
    \A j \in Jobs : /\ received[j] > 0 => stage[j] # "none"
                    /\ received[j] > 1 => j \in disturbed

(* ... and a row that is not open any more has an excuse. *)
RowsAreAccountedFor ==
    \A j \in Jobs :
        /\ stage[j] = "done" => received[j] > 0
        /\ stage[j] = "dead" => tries[j] >= MaxAttempts
        /\ stage[j] = "removed" =>
              received[j] > 0 \/ tries[j] >= MaxAttempts \/ routeState[j[1][1]] = "deleted"

PipeInv ==
    /\ QueueTypeOK /\ RowsAreQueued /\ RowsAreReceived /\ RowsAreAccountedFor
    /\ OneRowPerPair /\ ChancesAreRows

LEMMA JobsArePairs == \A j \in Jobs : j[1] \in Pairs /\ j[1][1] \in RouteIds /\ j[2] \in {1, 2}
  BY DEF Jobs, Pairs

LEMMA PipeInit == PInit => PipeInv
  <1> SUFFICES ASSUME PInit PROVE PipeInv
    OBVIOUS
  <1>1. /\ stage = [j \in Jobs |-> "none"] /\ received = [j \in Jobs |-> 0]
        /\ tries = [j \in Jobs |-> 0] /\ disturbed = {}
    BY DEF PInit, Queue!AInit
  <1>2. QueueTypeOK /\ RowsAreReceived /\ RowsAreAccountedFor
    BY <1>1 DEF QueueTypeOK, RowsAreReceived, RowsAreAccountedFor, Queue!Stages
  <1>3. RowsAreQueued
    BY <1>1, JobsArePairs DEF RowsAreQueued, PInit, Init, BridgeInit
  <1>4. OneRowPerPair /\ ChancesAreRows
    BY DEF OneRowPerPair, ChancesAreRows, Live, PInit, Init, BridgeInit, DirectoryInit
  <1> QED
    BY <1>2, <1>3, <1>4 DEF PipeInv

(* The bridge never takes back a row. *)
LEMMA QueuedGrows ==
    ASSUME TypeOK, [Next]_vars
    PROVE  \A p \in Pairs : queued[p] <= queued'[p]
  <1> USE DEF TypeOK, historyVars
  <1>1. ASSUME NEW h \in Requests, CommitWrites(h)
        PROVE  \A p \in Pairs : queued[p] <= queued'[p]
    BY <1>1 DEF CommitWrites
  <1>2. ASSUME NEW h \in Requests,
               \/ RequestStep(h) \/ DeadlockVictim(h)
               \/ DatabaseFails(h) \/ CommitAnswerLost(h) \/ ReplyLost(h)
               \/ \E u \in Updates : Arrive(h, u)
        PROVE  queued' = queued \/ CommitWrites(h)
    BY <1>2 DEF RequestStep, Register, SelectRoutes, Commit, Reply, RouteGone, InsertKeyAndJob, Arrive,
                SkipDuplicate, DeadlockVictim, DatabaseFails, CommitAnswerLost, ReplyLost, Abort
  <1>3. CASE \/ Connect \/ Disconnect \/ Crash \/ UNCHANGED vars
             \/ \E r \in RouteIds : OperatorDeletesRoute(r)
             \/ \E c \in Chats : OperatorDisablesGroup(c)
             \/ \E S \in SUBSET Pairs : PruneDedupe(S)
    <2>1. queued' = queued
      BY <1>3 DEF Connect, Disconnect, OperatorDeletesRoute, Crash, OperatorDisablesGroup, PruneDedupe, vars
    <2> QED
      BY <2>1
  <1>4. queued' = queued => \A p \in Pairs : queued[p] <= queued'[p]
    OBVIOUS
  <1> QED
    BY <1>1, <1>2, <1>3, <1>4 DEF Next, Progress, Deliveries, Fault, Admin

(* Accept asks for rows that are not there yet; the rows of a commit never *)
(* are.                                                                    *)
LEMMA QueueTakesAll ==
    ASSUME TypeOK, RowsAreQueued
    PROVE  Inserted \subseteq {j \in Jobs : stage[j] = "none"}
  <1> SUFFICES ASSUME NEW j \in Jobs, queued[j[1]] < j[2]
               PROVE  stage[j] = "none"
    BY DEF Inserted
  <1>1. queued[j[1]] \in 0 .. 2 /\ j[2] \in {1, 2}
    BY JobsArePairs DEF TypeOK
  <1>2. ~ (j[2] <= queued[j[1]])
    BY <1>1
  <1> QED
    BY <1>2 DEF RowsAreQueued

(* The rows in the queue. *)
RowsInv == QueueTypeOK /\ RowsAreQueued /\ RowsAreReceived /\ RowsAreAccountedFor

LEMMA BridgePutsRowsIn ==
    ASSUME TypeOK, TypeOK', RowsInv, [Next]_vars, Queue!Accept(Inserted), UNCHANGED disturbed,
           \A r \in RouteIds : routeState[r] = "deleted" => routeState'[r] = "deleted"
    PROVE  RowsInv'
  <1>1. /\ \A j \in Jobs : stage'[j] = IF j \in Inserted THEN "open" ELSE stage[j]
        /\ stage' \in [Jobs -> Queue!Stages]
        /\ UNCHANGED <<received, tries>>
    BY DEF Queue!Accept, Queue!Stages, RowsInv, QueueTypeOK
  <1>2. \A j \in Jobs : /\ queued[j[1]] \in 0 .. 2 /\ queued'[j[1]] \in 0 .. 2 /\ j[2] \in {1, 2}
                        /\ queued[j[1]] <= queued'[j[1]]
    BY JobsArePairs, QueuedGrows DEF TypeOK
  <1>3. \A j \in Jobs : j[2] <= queued'[j[1]] <=> j[2] <= queued[j[1]] \/ j \in Inserted
    BY <1>2 DEF Inserted
  <1>4. RowsAreQueued'
    BY <1>1, <1>3 DEF RowsInv, RowsAreQueued
  <1>5. QueueTypeOK' /\ RowsAreReceived'
    BY <1>1 DEF RowsInv, QueueTypeOK, RowsAreReceived
  <1>6. RowsAreAccountedFor'
    BY <1>1, JobsArePairs DEF RowsInv, RowsAreAccountedFor
  <1> QED
    BY <1>4, <1>5, <1>6 DEF RowsInv

LEMMA RowsAreWorkedOn ==
    ASSUME RowsInv, UNCHANGED vars, NEW k \in Jobs,
           disturbed \subseteq disturbed', disturbed' \subseteq Jobs,
           Queue!Deliver(k) \/ Queue!Fail(k) \/ Queue!Finish(k) \/ Queue!GiveUp(k) \/ Queue!Reopen(k)
    PROVE  RowsInv'
  <1> USE DEF RowsInv, QueueTypeOK, RowsAreQueued, RowsAreReceived, RowsAreAccountedFor, Queue!Stages
  <1>1. UNCHANGED <<queued, routeState>>
    BY DEF vars, historyVars, directoryVars
  <1>2. CASE Queue!Deliver(k)
    BY <1>1, <1>2 DEF Queue!Deliver
  <1>3. CASE Queue!Fail(k)
    BY <1>1, <1>3, MaxAttemptsIsInt DEF Queue!Fail
  <1>4. CASE Queue!Finish(k)
    BY <1>1, <1>4 DEF Queue!Finish, Queue!Stored, Queue!Settled
  <1>5. CASE Queue!GiveUp(k)
    BY <1>1, <1>5 DEF Queue!GiveUp, Queue!Stored, Queue!Settled
  <1>6. CASE Queue!Reopen(k)
    BY <1>1, <1>6 DEF Queue!Reopen, Queue!Settled
  <1> QED
    BY <1>2, <1>3, <1>4, <1>5, <1>6

LEMMA RowsAreTakenOut ==
    ASSUME RowsInv, NEW S \in SUBSET Jobs, Queue!Remove(S), UNCHANGED <<queued, disturbed>>,
           \A r \in RouteIds : routeState[r] = "deleted" => routeState'[r] = "deleted",
           \A j \in S : Queue!Settled(j) \/ routeState'[j[1][1]] = "deleted"
    PROVE  RowsInv'
  <1> USE DEF RowsInv, QueueTypeOK, RowsAreQueued, RowsAreReceived, RowsAreAccountedFor, Queue!Stages
  <1>1. /\ \A j \in Jobs : stage'[j] = IF j \in S THEN "removed" ELSE stage[j]
        /\ stage' \in [Jobs -> Queue!Stages]
        /\ \A j \in S : stage[j] # "none"
        /\ UNCHANGED <<received, tries>>
    BY DEF Queue!Remove, Queue!Stored, Queue!Settled
  <1>2. QueueTypeOK' /\ RowsAreQueued' /\ RowsAreReceived'
    BY <1>1
  <1>3. RowsAreAccountedFor'
    BY <1>1, JobsArePairs DEF Queue!Settled
  <1> QED
    BY <1>2, <1>3

LEMMA PipeStep ==
    ASSUME TypeOK, TypeOK', PipeInv, [PNext]_pipeVars
    PROVE  PipeInv'
  <1>1. [Next]_vars
    BY BridgeGoesOn
  <1>2. OneRowPerPair' /\ ChancesAreRows'
    BY <1>1, ChancesStayRows DEF PipeInv
  <1>3. \A r \in RouteIds : routeState[r] = "deleted" => routeState'[r] = "deleted"
    BY <1>1, WhoChangesRoutes, RoutesAge DEF PipeInv, TypeOK
  <1>4. RowsInv
    BY DEF PipeInv, RowsInv
  <1>5. ASSUME Queue!Accept(Inserted), UNCHANGED disturbed
        PROVE  RowsInv'
    BY <1>1, <1>3, <1>4, <1>5, BridgePutsRowsIn
  <1>6. ASSUME NEW r \in RouteIds, DeleteRouteAndJobs(r)
        PROVE  RowsInv'
    <2> DEFINE S == {j \in JobsOfRoute(r) : Queue!Stored(j)}
    <2>1. S \subseteq Jobs /\ \A j \in S : j[1][1] = r
      BY DEF JobsOfRoute
    <2>2. Queue!Remove(S) /\ UNCHANGED <<queued, disturbed>> /\ routeState'[r] = "deleted"
      BY <1>6 DEF DeleteRouteAndJobs, OperatorDeletesRoute, DeleteRoute, TypeOK, DirectoryTypeOK
    <2> QED
      BY <1>3, <1>4, <2>1, <2>2, RowsAreTakenOut
  <1>7. ASSUME NEW k \in Jobs, TryOpen(k) \/ Settle(k) \/ PutBack(k) \/ StaleCopy(k)
        PROVE  RowsInv'
    <2>1. disturbed \subseteq disturbed' /\ disturbed' \subseteq Jobs /\ UNCHANGED vars
      BY <1>4, <1>7 DEF TryOpen, Try, Settle, PutBack, StaleCopy, RowsInv, QueueTypeOK
    <2>2. Queue!Deliver(k) \/ Queue!Fail(k) \/ Queue!Finish(k) \/ Queue!GiveUp(k) \/ Queue!Reopen(k)
      BY <1>7 DEF TryOpen, Try, Settle, PutBack, StaleCopy
    <2> QED
      BY <1>4, <2>1, <2>2, RowsAreWorkedOn
  <1>8. ASSUME NEW S \in SUBSET Jobs, Retire(S)
        PROVE  RowsInv'
    <2>1. Queue!Remove(S) /\ (\A j \in S : Queue!Settled(j)) /\ UNCHANGED <<queued, disturbed>>
      BY <1>8 DEF Retire, vars, historyVars
    <2> QED
      BY <1>3, <1>4, <2>1, RowsAreTakenOut
  <1>9. ASSUME UNCHANGED pipeVars
        PROVE  RowsInv'
    BY <1>4, <1>9 DEF pipeVars, vars, historyVars, directoryVars, queueVars, RowsInv, QueueTypeOK,
                      RowsAreQueued, RowsAreReceived, RowsAreAccountedFor
  <1>10. ASSUME NEW k \in Jobs, Disturb(k)
         PROVE  RowsInv'
    <2>1. disturbed' = disturbed \cup {k} /\ UNCHANGED <<stage, received, tries, queued, routeState>>
      BY <1>10 DEF Disturb, vars, historyVars, directoryVars
    <2> QED
      BY <1>4, <2>1 DEF RowsInv, QueueTypeOK, RowsAreQueued, RowsAreReceived, RowsAreAccountedFor
  <1>11. RowsInv'
    BY <1>5, <1>6, <1>7, <1>8, <1>9, <1>10 DEF PNext, BridgeSteps, WorkerStep, Contention
  <1> QED
    BY <1>2, <1>11 DEF PipeInv, RowsInv

LEMMA PipeHolds == PSpec => []PipeInv
  <1>1. PSpec => []TypeOK
    BY BridgeKeepsItsWord, PTL
  <1> QED
    BY <1>1, PipeInit, PipeStep, PTL DEF PSpec

-----------------------------------------------------------------------------
(* What a 200 is worth at the far end: whoever wanted the update all along *)
(* has a row in the queue that is delivered, open, out of attempts, or     *)
(* gone with its route, whatever the worker, a stale copy of it, the       *)
(* operator and housekeeping have done to the queue since.                 *)
THEOREM NothingIsLost == PSpec => []NothingLost
  <1>1. TypeOK /\ AckMeansQueued /\ PipeInv => NothingLost
    <2> SUFFICES ASSUME TypeOK, AckMeansQueued, PipeInv, NEW u \in Updates, inbox[u] = "acked",
                        NEW r \in owed[u]
                 PROVE  \E j \in JobsFor(r, u) : \/ received[j] > 0 \/ stage[j] = "open"
                                                 \/ tries[j] >= MaxAttempts
                                                 \/ routeState[r] = "deleted"
      BY DEF NothingLost
    <2> DEFINE j == <<<<r, u>>, 1>>
    <2>1. r \in RouteIds /\ <<r, u>> \in Pairs /\ j \in Jobs
      BY DEF TypeOK, Pairs, Jobs
    <2>2. queued[<<r, u>>] \in 0 .. 2 /\ queued[<<r, u>>] > 0
      BY <2>1 DEF TypeOK, AckMeansQueued
    <2>3. stage[j] # "none" /\ j \in JobsFor(r, u)
      BY <2>1, <2>2 DEF PipeInv, RowsAreQueued, JobsFor
    <2>4. stage[j] \in {"open", "done", "dead", "removed"}
      BY <2>1, <2>3 DEF PipeInv, QueueTypeOK, Queue!Stages
    <2> QED
      BY <2>1, <2>3, <2>4 DEF PipeInv, RowsAreAccountedFor
  <1> QED
    BY <1>1, PipeHolds, BridgeKeepsItsWord, PTL

(* One person gets one update twice only if its job was disturbed, if its  *)
(* dedupe record expired, or if one of the two rows of `routes' behind its *)
(* two jobs was deleted.                                                   *)
THEOREM TwiceIsExplained == PSpec => []TwiceHasCause
  <1>1. TypeOK /\ OneJobPerRoute /\ NobodyUnasked /\ PipeInv => TwiceHasCause
    <2> SUFFICES ASSUME TypeOK, OneJobPerRoute, NobodyUnasked, PipeInv, NEW i \in Jobs, NEW j \in Jobs,
                        SentTwice(i, j)
                 PROVE  \/ i[1] \in pruned
                        \/ routeState[i[1][1]] = "deleted" \/ routeState[j[1][1]] = "deleted"
      BY DEF TwiceHasCause, SentAgain, PipeInv, RowsAreReceived
    <2>1. i[2] <= queued[i[1]] /\ j[2] <= queued[j[1]]
      BY DEF PipeInv, RowsAreReceived, RowsAreQueued, SentTwice
    <2>2. queued[i[1]] \in 0 .. 2 /\ queued[j[1]] \in 0 .. 2
      BY JobsArePairs DEF TypeOK
    <2>3. CASE i[1] = j[1]
      <3>1. i[2] # j[2]
        BY <2>3 DEF Jobs, SentTwice
      <3>2. queued[i[1]] > 1
        BY <2>1, <2>2, <2>3, <3>1, JobsArePairs
      <3> QED
        BY <3>2, JobsArePairs DEF OneJobPerRoute
    <2>4. CASE i[1] # j[1]
      <3> DEFINE r == i[1][1]
                 s == j[1][1]
                 u == i[1][2]
      <3>1. r \in RouteIds /\ s \in RouteIds /\ u \in Updates /\ i[1] = <<r, u>> /\ j[1] = <<s, u>>
        BY DEF Jobs, Pairs, SentTwice
      <3>2. r # s
        BY <2>4, <3>1
      <3>3. queued[<<r, u>>] > 0 /\ queued[<<s, u>>] > 0
        BY <2>1, <2>2, <3>1, JobsArePairs
      <3>4. r \in chance[u] /\ s \in chance[u]
        BY <3>1, <3>3 DEF NobodyUnasked
      <3>5. routeState[r] # "unborn" /\ routeState[s] # "unborn" /\ ChatOf[r] = ChatOf[s]
        BY <3>1, <3>4 DEF PipeInv, ChancesAreRows
      <3>6. UserOf[r] = UserOf[s]
        BY DEF SentTwice
      <3>7. ~ (Live(r) /\ Live(s))
        BY <3>1, <3>2, <3>5, <3>6 DEF PipeInv, OneRowPerPair
      <3>8. routeState[r] = "deleted" \/ routeState[s] = "deleted"
        BY <3>1, <3>5, <3>7 DEF Live, TypeOK, DirectoryTypeOK
      <3> QED
        BY <3>8
    <2> QED
      BY <2>3, <2>4
  <1> QED
    BY <1>1, PipeHolds, BridgeKeepsItsWord, PTL
=============================================================================
