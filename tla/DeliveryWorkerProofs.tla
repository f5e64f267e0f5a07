------------------------ MODULE DeliveryWorkerProofs ------------------------
(***************************************************************************)
(* What the worker's table holds at any time: types, leases, successes     *)
(* that are true and dead letters that are earned.                         *)
(***************************************************************************)
EXTENDS DeliveryWorker, TLAPS

(* Every statement keeps the columns in their domains. *)
LEMMA TableTypes ==
    ASSUME TableTypeOK,
           \/ \E j \in Jobs : \/ InsertJob(j) \/ MarkJobCompleted(j)
                              \/ RetryJobNow(j) \/ BecomeDue(j) \/ LeaseRunsOut(j)
           \/ \E j \in Jobs, r \in Results : RecordAttempt(j, r)
           \/ \E j \in Jobs, n \in Int, later \in BOOLEAN : MarkJobRetryOrDead(j, n, later)
           \/ \E S \in SUBSET Jobs : ClaimJobs(S) \/ WipePayloads(S) \/ PruneAttempts(S) \/ DeleteRows(S)
           \/ RequeueStaleProcessing
           \/ UNCHANGED tableVars
    PROVE  TableTypeOK'
  <1> USE DEF TableTypeOK, RowStatus, Results, Leases
  <1>1. CASE \E j \in Jobs : \/ InsertJob(j) \/ MarkJobCompleted(j)
                             \/ RetryJobNow(j) \/ BecomeDue(j) \/ LeaseRunsOut(j)
    BY <1>1 DEF InsertJob, MarkJobCompleted, RetryJobNow, BecomeDue, LeaseRunsOut, RowExists
  <1>2. CASE \E j \in Jobs, r \in Results : RecordAttempt(j, r)
    BY <1>2 DEF RecordAttempt
  <1>3. CASE \E j \in Jobs, n \in Int, later \in BOOLEAN : MarkJobRetryOrDead(j, n, later)
    <2> PICK j \in Jobs, n \in Int, later \in BOOLEAN : MarkJobRetryOrDead(j, n, later)
      BY <1>3
    <2>1. CASE RowExists(j) /\ MarkDead(j, n)
      BY <2>1 DEF MarkJobRetryOrDead, MarkDead
    <2>2. CASE RowExists(j) /\ MarkRetry(j, n, later)
      BY <2>2 DEF MarkJobRetryOrDead, MarkRetry
    <2>3. CASE ~RowExists(j)
      BY <2>3 DEF MarkJobRetryOrDead
    <2> QED
      BY <2>1, <2>2, <2>3 DEF MarkJobRetryOrDead
  <1>4. CASE \E S \in SUBSET Jobs : ClaimJobs(S) \/ WipePayloads(S) \/ PruneAttempts(S) \/ DeleteRows(S)
    <2> PICK S \in SUBSET Jobs : ClaimJobs(S) \/ WipePayloads(S) \/ PruneAttempts(S) \/ DeleteRows(S)
      BY <1>4
    <2>1. CASE ClaimJobs(S)
      BY <2>1 DEF ClaimJobs
    <2>2. CASE WipePayloads(S)
      BY <2>2 DEF WipePayloads
    <2>3. CASE PruneAttempts(S)
      BY <2>3 DEF PruneAttempts
    <2>4. CASE DeleteRows(S)
      <3>1. status' \in [Jobs -> RowStatus \cup {"none", "deleted"}] /\ lease' \in [Jobs -> Leases]
        BY <2>4 DEF DeleteRows
      <3>2. attempts' \in [Jobs -> Int] /\ attemptLog' \in [Jobs -> SUBSET Results]
        BY <2>4 DEF DeleteRows
      <3>3. due' \in [Jobs -> BOOLEAN]
        BY <2>4 DEF DeleteRows
      <3>4. payload' \in [Jobs -> BOOLEAN]
        BY <2>4 DEF DeleteRows
      <3> QED
        BY <3>1, <3>2, <3>3, <3>4
    <2> QED
      BY <2>1, <2>2, <2>3, <2>4
  <1>5. CASE RequeueStaleProcessing
    BY <1>5 DEF RequeueStaleProcessing
  <1>6. CASE UNCHANGED tableVars
    BY <1>6 DEF tableVars
  <1> QED
    BY <1>1, <1>2, <1>3, <1>4, <1>5, <1>6

LEMMA BreakerTypes ==
    ASSUME BreakerTypeOK,
           MarkSuccess \/ MarkFailure \/ CooldownElapses \/ UNCHANGED breakerVars
           \/ (consecutiveFailures' = 0 /\ open' = FALSE)
    PROVE  BreakerTypeOK'
  <1> USE ThresholdIsPositive DEF BreakerTypeOK
  <1>1. CASE MarkSuccess \/ (consecutiveFailures' = 0 /\ open' = FALSE)
    <2>1. consecutiveFailures' = 0 /\ open' = FALSE
      BY <1>1 DEF MarkSuccess
    <2>2. 0 \in 0 .. Threshold - 1
      OBVIOUS
    <2> QED
      BY <2>1, <2>2
  <1>2. CASE MarkFailure
    <2>1. consecutiveFailures' \in 0 .. Threshold - 1
      BY <1>2 DEF MarkFailure
    <2>2. open' \in BOOLEAN
      BY <1>2 DEF MarkFailure
    <2> QED
      BY <2>1, <2>2
  <1>3. CASE CooldownElapses \/ UNCHANGED breakerVars
    BY <1>3 DEF CooldownElapses, breakerVars
  <1> QED
    BY <1>1, <1>2, <1>3

-----------------------------------------------------------------------------
(* Type correctness. *)

LEMMA TypeInit == Init => TypeOK
  <1> SUFFICES ASSUME Init PROVE TypeOK
    OBVIOUS
  <1>1. TableTypeOK
    BY DEF Init, TableInit, TableTypeOK, RowStatus, Leases
  <1>2. BreakerTypeOK
    <2>1. 0 \in 0 .. Threshold - 1
      BY ThresholdIsPositive
    <2> QED
      BY <2>1 DEF Init, BreakerInit, BreakerTypeOK
  <1>3. ProcessTypeOK
    BY DEF Init, ProcessTypeOK, PC, Results
  <1>4. HistoryTypeOK
    BY DEF Init, HistoryTypeOK
  <1> QED
    BY <1>1, <1>2, <1>3, <1>4 DEF TypeOK

(* A goroutine that is not idle works on the copy of a job. *)
LEMMA HeldIsCopy ==
    ASSUME TypeOK, NEW w \in Slots, pc[w] # "idle"
    PROVE  /\ held[w] \in Copy
           /\ held[w].job \in Jobs /\ held[w].attempts \in Int
  BY DEF TypeOK, ProcessTypeOK, Copy

(* The steps of the loop. *)
LEMMA LoopTypes ==
    ASSUME TypeOK,
           \/ \E S \in SUBSET Claimable : ClaimTick(S) \/ ClaimAnswerLost(S)
           \/ \E c \in claimed : PushClaimed(c)
           \/ StaleTick
    PROVE  TypeOK'
  <1> USE DEF TypeOK, processVars, historyVars
  <1>1. ASSUME NEW S \in SUBSET Claimable, ClaimTick(S) \/ ClaimAnswerLost(S)
        PROVE  TypeOK'
    <2>1. ClaimJobs(S) /\ S \subseteq Jobs /\ UNCHANGED breakerVars
      BY <1>1 DEF ClaimTick, ClaimAnswerLost, Claimable
    <2>2. TableTypeOK' /\ BreakerTypeOK'
      BY <2>1, TableTypes, BreakerTypes
    <2>3. claimed' \in SUBSET Copy
      BY <1>1, <2>1 DEF ClaimTick, ClaimAnswerLost, CopyOf, Copy, TableTypeOK, ProcessTypeOK
    <2>4. ProcessTypeOK'
      BY <1>1, <2>3 DEF ClaimTick, ClaimAnswerLost, ProcessTypeOK
    <2>5. HistoryTypeOK'
      BY <1>1 DEF ClaimTick, ClaimAnswerLost, HistoryTypeOK
    <2> QED
      BY <2>2, <2>4, <2>5
  <1>2. ASSUME NEW c \in claimed, PushClaimed(c)
        PROVE  TypeOK'
    <2>1. TableTypeOK' /\ BreakerTypeOK'
      BY <1>2, TableTypes, BreakerTypes DEF PushClaimed
    <2>2. ProcessTypeOK'
      BY <1>2 DEF PushClaimed, ProcessTypeOK
    <2>3. HistoryTypeOK'
      BY <1>2 DEF PushClaimed, HistoryTypeOK
    <2> QED
      BY <2>1, <2>2, <2>3
  <1>3. CASE StaleTick
    <2>1. TableTypeOK' /\ BreakerTypeOK'
      BY <1>3, TableTypes, BreakerTypes DEF StaleTick
    <2>2. ProcessTypeOK'
      BY <1>3 DEF StaleTick, ProcessTypeOK
    <2>3. HistoryTypeOK'
      BY <1>3 DEF StaleTick, Stale, HistoryTypeOK
    <2> QED
      BY <2>1, <2>2, <2>3
  <1> QED
    BY <1>1, <1>2, <1>3

(* The steps of the bridge, the operator, housekeeping, the clock and the  *)
(* process manager.                                                        *)
LEMMA OtherTypes ==
    ASSUME TypeOK,
           \/ \E j \in Jobs : \/ Enqueue(j) \/ BackoffEnds(j) \/ LeaseLapses(j)
                              \/ LeaseOverrun(j) \/ OperatorRetry(j)
           \/ \E r \in Routes : OperatorDeleteRoute(r)
           \/ \E S \in SUBSET Jobs : Housekeeping(S)
           \/ OperatorClearCompleted \/ BreakerCools \/ Crash \/ Restart
    PROVE  TypeOK'
  <1> USE DEF TypeOK, processVars, historyVars
  <1>1. ASSUME NEW j \in Jobs,
               \/ Enqueue(j) \/ BackoffEnds(j) \/ LeaseLapses(j)
               \/ LeaseOverrun(j) \/ OperatorRetry(j)
        PROVE  TypeOK'
    <2> USE <1>1 DEF Enqueue, BackoffEnds, LeaseLapses, LeaseOverrun, OperatorRetry
    <2>1. TableTypeOK' /\ BreakerTypeOK'
      BY TableTypes, BreakerTypes
    <2>2. ProcessTypeOK'
      BY DEF ProcessTypeOK
    <2>3. HistoryTypeOK'
      BY DEF HistoryTypeOK
    <2> QED
      BY <2>1, <2>2, <2>3
  <1>2. ASSUME NEW r \in Routes, OperatorDeleteRoute(r)
        PROVE  TypeOK'
    <2> USE <1>2 DEF OperatorDeleteRoute
    <2>1. TableTypeOK' /\ BreakerTypeOK'
      BY TableTypes, BreakerTypes
    <2>2. ProcessTypeOK'
      BY DEF ProcessTypeOK
    <2>3. HistoryTypeOK'
      BY DEF HistoryTypeOK
    <2> QED
      BY <2>1, <2>2, <2>3
  <1>3. ASSUME NEW S \in SUBSET Jobs, Housekeeping(S)
        PROVE  TypeOK'
    <2> USE <1>3 DEF Housekeeping
    <2>1. TableTypeOK' /\ BreakerTypeOK'
      BY TableTypes, BreakerTypes
    <2>2. ProcessTypeOK'
      BY DEF ProcessTypeOK
    <2>3. HistoryTypeOK'
      BY DEF HistoryTypeOK
    <2> QED
      BY <2>1, <2>2, <2>3
  <1>4. CASE OperatorClearCompleted \/ BreakerCools
    <2> USE <1>4 DEF OperatorClearCompleted, BreakerCools
    <2>1. TableTypeOK' /\ BreakerTypeOK'
      BY TableTypes, BreakerTypes DEF Completed
    <2>2. ProcessTypeOK'
      BY DEF ProcessTypeOK
    <2>3. HistoryTypeOK'
      BY DEF HistoryTypeOK
    <2> QED
      BY <2>1, <2>2, <2>3
  <1>5. CASE Crash \/ Restart
    <2> USE <1>5 DEF Crash, Restart
    <2>1. TableTypeOK' /\ BreakerTypeOK'
      BY TableTypes, BreakerTypes
    <2>2. ProcessTypeOK'
      <3>1. CASE Crash
        <4>1. up' \in BOOLEAN
          BY <3>1, Zenon
        <4>2. claimed' \in SUBSET Copy /\ jobsCh' \in Seq(Copy)
          BY <3>1 DEF ProcessDown
        <4>3. /\ pc' \in [Slots -> PC]
              /\ held' \in [Slots -> Copy \cup {NoCopy}]
              /\ result' \in [Slots -> Results]
          BY <3>1 DEF ProcessDown, PC, Results
        <4>4. \A w \in Slots : pc'[w] = "idle"
          BY <3>1 DEF ProcessDown
        <4> QED
          BY <4>1, <4>2, <4>3, <4>4 DEF ProcessTypeOK
      <3>2. CASE Restart
        BY <3>2 DEF ProcessTypeOK
      <3> QED
        BY <3>1, <3>2
    <2>3. {held[w].job : w \in {v \in Slots : pc[v] \in AfterAccept}} \subseteq Jobs
      BY HeldIsCopy DEF AfterAccept
    <2>4. HistoryTypeOK'
      BY <2>3 DEF HistoryTypeOK
    <2> QED
      BY <2>1, <2>2, <2>4
  <1> QED
    BY <1>1, <1>2, <1>3, <1>4, <1>5

(* Leaving a pass with a failure. *)
LEMMA FailRunTypes ==
    ASSUME TypeOK, NEW w \in Slots, NEW r \in Failures,
           pc[w] # "idle", FailRun(w, r),
           MarkFailure \/ UNCHANGED breakerVars,
           \/ UNCHANGED <<accepted, unconfirmed>>
           \/ unconfirmed' = unconfirmed \cup {held[w].job} /\ UNCHANGED accepted
    PROVE  TypeOK'
  <1> USE DEF TypeOK
  <1>1. held[w].job \in Jobs
    BY HeldIsCopy
  <1>2. TableTypeOK' /\ BreakerTypeOK'
    BY TableTypes, BreakerTypes DEF FailRun
  <1>3. ProcessTypeOK'
    BY DEF FailRun, Goto, ProcessTypeOK, PC, Results, Failures
  <1>4. HistoryTypeOK'
    BY <1>1 DEF FailRun, HistoryTypeOK
  <1> QED
    BY <1>2, <1>3, <1>4

(* The steps of processOne. *)
LEMMA SlotTypes ==
    ASSUME TypeOK, NEW w \in Slots, SlotStep(w) \/ SlotFault(w)
    PROVE  TypeOK'
  <1> USE DEF TypeOK, historyVars, processVars
  <1>1. CASE Receive(w)
    <2>1. Head(jobsCh) \in Copy /\ Tail(jobsCh) \in Seq(Copy)
      BY <1>1 DEF Receive, ProcessTypeOK
    <2>2. TableTypeOK' /\ BreakerTypeOK'
      BY <1>1, TableTypes, BreakerTypes DEF Receive
    <2>3. ProcessTypeOK'
      BY <1>1, <2>1 DEF Receive, ProcessTypeOK, PC
    <2>4. HistoryTypeOK'
      BY <1>1 DEF Receive, HistoryTypeOK
    <2> QED
      BY <2>2, <2>3, <2>4
  <1>2. CASE Admit(w) \/ Send(w)
    <2>1. TableTypeOK' /\ BreakerTypeOK'
      BY <1>2, TableTypes, BreakerTypes DEF Admit, Send
    <2>2. ProcessTypeOK'
      BY <1>2 DEF Admit, Send, Goto, ProcessTypeOK, PC
    <2>3. HistoryTypeOK'
      BY <1>2 DEF Admit, Send, HistoryTypeOK
    <2> QED
      BY <2>1, <2>2, <2>3
  <1>3. CASE Refuse(w) \/ \E r \in Failures : MediaFails(w, r) \/ MaxRefuses(w, r)
    <2>1. CASE Refuse(w)
      BY <2>1, FailRunTypes DEF Refuse, Failures, Results
    <2>2. ASSUME NEW r \in Failures, MediaFails(w, r) \/ MaxRefuses(w, r)
          PROVE  TypeOK'
      BY <2>2, FailRunTypes DEF MediaFails, MaxRefuses
    <2> QED
      BY <1>3, <2>1, <2>2
  <1>4. CASE ReplyLost(w)
    BY <1>4, FailRunTypes DEF ReplyLost, Failures, Results
  <1>5. CASE MaxAccepts(w)
    <2>1. held[w].job \in Jobs
      BY <1>5, HeldIsCopy DEF MaxAccepts
    <2>2. TableTypeOK' /\ BreakerTypeOK'
      BY <1>5, TableTypes, BreakerTypes DEF MaxAccepts
    <2>3. ProcessTypeOK'
      BY <1>5 DEF MaxAccepts, Goto, ProcessTypeOK, PC
    <2>4. HistoryTypeOK'
      BY <1>5, <2>1 DEF MaxAccepts, HistoryTypeOK
    <2> QED
      BY <2>2, <2>3, <2>4
  <1>6. CASE ReplyArrives(w)
    <2>1. TableTypeOK' /\ BreakerTypeOK'
      BY <1>6, TableTypes, BreakerTypes DEF ReplyArrives
    <2>2. ProcessTypeOK'
      BY <1>6 DEF ReplyArrives, Goto, ProcessTypeOK, PC, Results
    <2>3. HistoryTypeOK'
      BY <1>6 DEF ReplyArrives, HistoryTypeOK
    <2> QED
      BY <2>1, <2>2, <2>3
  <1>7. CASE LogSuccess(w) \/ LogFailure(w) \/ Complete(w) \/ CompleteFails(w) \/ Reschedule(w)
    <2> USE DEF LogSuccess, LogFailure, Complete, CompleteFails, Reschedule
    <2>1. held[w].job \in Jobs /\ held[w].attempts + 1 \in Int /\ result[w] \in Results
      BY <1>7, HeldIsCopy DEF ProcessTypeOK
    <2>2. TableTypeOK'
      BY <1>7, <2>1, TableTypes DEF Results
    <2>3. BreakerTypeOK'
      BY <1>7, BreakerTypes
    <2>4. ProcessTypeOK'
      BY <1>7 DEF Goto, ProcessTypeOK, PC
    <2>5. HistoryTypeOK'
      BY <1>7, <2>1 DEF HistoryTypeOK
    <2> QED
      BY <2>2, <2>3, <2>4, <2>5
  <1>8. CASE RescheduleFails(w) \/ Report(w)
    <2> USE DEF RescheduleFails, Report
    <2>1. TableTypeOK' /\ BreakerTypeOK'
      BY <1>8, TableTypes, BreakerTypes
    <2>2. ProcessTypeOK'
      BY <1>8 DEF Release, Goto, ProcessTypeOK, PC, Results
    <2>3. HistoryTypeOK'
      BY <1>8 DEF HistoryTypeOK, ProcessTypeOK
    <2> QED
      BY <2>1, <2>2, <2>3
  <1> QED
    BY <1>1, <1>2, <1>3, <1>4, <1>5, <1>6, <1>7, <1>8 DEF SlotStep, SlotFault

LEMMA TypeStep == TypeOK /\ [Next]_vars => TypeOK'
  <1> SUFFICES ASSUME TypeOK, [Next]_vars PROVE TypeOK'
    OBVIOUS
  <1>1. CASE Next
    BY <1>1, LoopTypes, OtherTypes, SlotTypes DEF Next, Progress, Fault, Admin
  <1>2. CASE UNCHANGED vars
    <2>1. TableTypeOK' /\ BreakerTypeOK'
      BY <1>2, TableTypes, BreakerTypes DEF vars, TypeOK
    <2> QED
      BY <1>2, <2>1 DEF vars, processVars, historyVars, TypeOK, ProcessTypeOK, HistoryTypeOK
  <1> QED
    BY <1>1, <1>2

(* Every variable keeps its type, for any number of jobs, goroutines and   *)
(* routes and any retry policy.                                            *)
THEOREM TypeCorrect == Spec => []TypeOK
  <1>1. TypeOK /\ [Next]_vars => TypeOK'
    BY TypeStep
  <1> QED
    BY TypeInit, <1>1, PTL DEF Spec

-----------------------------------------------------------------------------
(* What a client of the table may do to it: any statement, on any row, in  *)
(* any order, with any attempt number.                                     *)
TableStep ==
    \/ \E j \in Jobs : \/ InsertJob(j) \/ MarkJobCompleted(j)
                       \/ RetryJobNow(j) \/ BecomeDue(j) \/ LeaseRunsOut(j)
    \/ \E j \in Jobs, r \in Results : RecordAttempt(j, r)
    \/ \E j \in Jobs, n \in Int, later \in BOOLEAN : MarkJobRetryOrDead(j, n, later)
    \/ \E S \in SUBSET Jobs : ClaimJobs(S) \/ WipePayloads(S) \/ PruneAttempts(S) \/ DeleteRows(S)
    \/ RequeueStaleProcessing

(* All the system does to the table is one statement at a time. *)
LEMMA StepIsStatement ==
    ASSUME TypeOK, [Next]_vars
    PROVE  [TableStep]_tableVars
  <1>1. ASSUME NEW S \in SUBSET Claimable, ClaimTick(S) \/ ClaimAnswerLost(S)
        PROVE  TableStep
    BY <1>1 DEF ClaimTick, ClaimAnswerLost, TableStep, Claimable
  <1>2. CASE (\E c \in claimed : PushClaimed(c)) \/ StaleTick
    BY <1>2 DEF PushClaimed, StaleTick, TableStep
  <1>3. ASSUME NEW j \in Jobs,
               \/ Enqueue(j) \/ BackoffEnds(j) \/ LeaseLapses(j)
               \/ LeaseOverrun(j) \/ OperatorRetry(j)
        PROVE  TableStep
    BY <1>3 DEF Enqueue, BackoffEnds, LeaseLapses, LeaseOverrun, OperatorRetry, TableStep
  <1>4. ASSUME NEW r \in Routes, OperatorDeleteRoute(r)
        PROVE  TableStep
    BY <1>4 DEF OperatorDeleteRoute, TableStep
  <1>5. ASSUME NEW S \in SUBSET Jobs, Housekeeping(S)
        PROVE  TableStep
    BY <1>5 DEF Housekeeping, TableStep
  <1>6. CASE OperatorClearCompleted
    BY <1>6 DEF OperatorClearCompleted, Completed, TableStep
  <1>7. CASE BreakerCools \/ Crash \/ Restart \/ UNCHANGED vars
    BY <1>7 DEF BreakerCools, Crash, Restart, vars
  <1>8. ASSUME NEW w \in Slots, SlotStep(w) \/ SlotFault(w)
        PROVE  [TableStep]_tableVars
    <2>1. CASE \/ Receive(w) \/ Admit(w) \/ Refuse(w) \/ Send(w) \/ MaxAccepts(w)
               \/ \E r \in Failures : MediaFails(w, r) \/ MaxRefuses(w, r)
               \/ ReplyArrives(w) \/ Report(w)
               \/ ReplyLost(w) \/ CompleteFails(w) \/ RescheduleFails(w)
      BY <2>1 DEF Receive, Admit, Refuse, Send, MaxAccepts, MediaFails, MaxRefuses, ReplyArrives,
                  Report, ReplyLost, CompleteFails, RescheduleFails, FailRun
    <2>2. CASE LogSuccess(w) \/ LogFailure(w) \/ Complete(w) \/ Reschedule(w)
      <3>1. held[w].job \in Jobs /\ held[w].attempts + 1 \in Int /\ result[w] \in Results
        BY <2>2, HeldIsCopy DEF LogSuccess, LogFailure, Complete, Reschedule, TypeOK, ProcessTypeOK
      <3> QED
        BY <2>2, <3>1 DEF LogSuccess, LogFailure, Complete, Reschedule, TableStep, Results
    <2> QED
      BY <1>8, <2>1, <2>2 DEF SlotStep, SlotFault
  <1> QED
    BY <1>1, <1>2, <1>3, <1>4, <1>5, <1>6, <1>7, <1>8 DEF Next, Progress, Fault, Admin

-----------------------------------------------------------------------------
(* No statement, whoever issues it, can strand a row. *)
LEMMA StatementStrandsNoJob ==
    ASSUME TableTypeOK, NoStrandedJob, [TableStep]_tableVars
    PROVE  NoStrandedJob'
  <1> USE DEF TableTypeOK, NoStrandedJob
  <1>1. CASE \E j \in Jobs : \/ InsertJob(j) \/ MarkJobCompleted(j)
                             \/ RetryJobNow(j) \/ BecomeDue(j) \/ LeaseRunsOut(j)
    BY <1>1 DEF InsertJob, MarkJobCompleted, RetryJobNow, BecomeDue, LeaseRunsOut
  <1>2. CASE \E j \in Jobs, r \in Results : RecordAttempt(j, r)
    BY <1>2 DEF RecordAttempt
  <1>3. CASE \E j \in Jobs, n \in Int, later \in BOOLEAN : MarkJobRetryOrDead(j, n, later)
    <2> PICK j \in Jobs, n \in Int, later \in BOOLEAN : MarkJobRetryOrDead(j, n, later)
      BY <1>3
    <2>1. CASE RowExists(j)
      <3>1. /\ lease' = [lease EXCEPT ![j] = "none"]
            /\ \/ status' = [status EXCEPT ![j] = "dead_letter"]
               \/ status' = [status EXCEPT ![j] = "retry"]
        BY <2>1 DEF MarkJobRetryOrDead, MarkDead, MarkRetry
      <3> QED
        BY <3>1
    <2>2. CASE ~RowExists(j)
      BY <2>2 DEF MarkJobRetryOrDead
    <2> QED
      BY <2>1, <2>2
  <1>4. CASE \E S \in SUBSET Jobs : ClaimJobs(S) \/ WipePayloads(S) \/ PruneAttempts(S) \/ DeleteRows(S)
    <2> PICK S \in SUBSET Jobs : ClaimJobs(S) \/ WipePayloads(S) \/ PruneAttempts(S) \/ DeleteRows(S)
      BY <1>4
    <2>1. CASE ClaimJobs(S)
      BY <2>1 DEF ClaimJobs
    <2>2. CASE WipePayloads(S) \/ PruneAttempts(S)
      BY <2>2 DEF WipePayloads, PruneAttempts
    <2>3. CASE DeleteRows(S)
      BY <2>3 DEF DeleteRows
    <2> QED
      BY <2>1, <2>2, <2>3
  <1>5. CASE RequeueStaleProcessing
    BY <1>5 DEF RequeueStaleProcessing
  <1>6. CASE UNCHANGED tableVars
    BY <1>6 DEF tableVars
  <1> QED
    BY <1>1, <1>2, <1>3, <1>4, <1>5, <1>6 DEF TableStep

(* "processing" and a lease go together in every reachable state. *)
THEOREM NobodyStrands == Spec => []NoStrandedJob
  <1>1. Init => NoStrandedJob
    BY DEF Init, TableInit, NoStrandedJob
  <1>2. TypeOK /\ NoStrandedJob /\ [Next]_vars => NoStrandedJob'
    BY StepIsStatement, StatementStrandsNoJob DEF TypeOK
  <1> QED
    BY <1>1, <1>2, TypeCorrect, PTL DEF Spec

-----------------------------------------------------------------------------
(* Who changes what. *)

(* A goroutine is moved by its own steps, or stopped with the process. *)
LEMMA OwnSteps ==
    ASSUME TypeOK, [Next]_vars, NEW v \in Slots
    PROVE  \/ pc'[v] = pc[v] /\ held'[v] = held[v] /\ result'[v] = result[v]
           \/ SlotStep(v) \/ SlotFault(v)
           \/ Crash /\ pc'[v] = "idle"
  <1>1. ASSUME NEW S \in SUBSET Claimable, ClaimTick(S) \/ ClaimAnswerLost(S)
        PROVE  UNCHANGED <<pc, held, result>>
    BY <1>1 DEF ClaimTick, ClaimAnswerLost, processVars
  <1>2. CASE (\E c \in claimed : PushClaimed(c)) \/ StaleTick
    BY <1>2 DEF PushClaimed, StaleTick, processVars
  <1>3. ASSUME NEW j \in Jobs,
               \/ Enqueue(j) \/ BackoffEnds(j) \/ LeaseLapses(j)
               \/ LeaseOverrun(j) \/ OperatorRetry(j)
        PROVE  UNCHANGED <<pc, held, result>>
    BY <1>3 DEF Enqueue, BackoffEnds, LeaseLapses, LeaseOverrun, OperatorRetry, processVars
  <1>4. CASE (\E r \in Routes : OperatorDeleteRoute(r)) \/ (\E S \in SUBSET Jobs : Housekeeping(S))
    BY <1>4 DEF OperatorDeleteRoute, Housekeeping, processVars
  <1>5. CASE OperatorClearCompleted \/ BreakerCools \/ Restart \/ UNCHANGED vars
    BY <1>5 DEF OperatorClearCompleted, BreakerCools, Restart, vars, processVars
  <1>6. CASE Crash
    BY <1>6 DEF Crash, ProcessDown
  <1>7. ASSUME NEW w \in Slots, SlotStep(w) \/ SlotFault(w), w # v
        PROVE  pc'[v] = pc[v] /\ held'[v] = held[v] /\ result'[v] = result[v]
    BY <1>7 DEF SlotStep, SlotFault, Receive, Admit, Refuse, Send, MaxAccepts, MediaFails, MaxRefuses,
                ReplyArrives, ReplyLost, LogSuccess, Complete, CompleteFails, LogFailure,
                Reschedule, RescheduleFails, Report, Release, FailRun, Goto, TypeOK, ProcessTypeOK
  <1> QED
    BY <1>1, <1>2, <1>3, <1>4, <1>5, <1>6, <1>7 DEF Next, Progress, Fault, Admin

(* MAX does not forget a message, and a failed pass stays failed. *)
LEMMA HistoryGrows ==
    ASSUME TypeOK, [Next]_vars, NEW j \in Jobs
    PROVE  /\ accepted[j] > 0 => accepted'[j] > 0
           /\ failedRuns[j] <= failedRuns'[j]
           /\ contended \subseteq contended'
           /\ unconfirmed \subseteq unconfirmed'
           /\ revived \subseteq revived'
  <1> USE DEF historyVars
  <1>1. ASSUME NEW S \in SUBSET Claimable, ClaimTick(S) \/ ClaimAnswerLost(S)
        PROVE  UNCHANGED historyVars
    BY <1>1 DEF ClaimTick, ClaimAnswerLost
  <1>2. CASE (\E c \in claimed : PushClaimed(c)) \/ StaleTick
    BY <1>2 DEF PushClaimed, StaleTick, TypeOK, HistoryTypeOK
  <1>3. ASSUME NEW i \in Jobs,
               \/ Enqueue(i) \/ BackoffEnds(i) \/ LeaseLapses(i)
               \/ LeaseOverrun(i) \/ OperatorRetry(i)
        PROVE  /\ UNCHANGED <<accepted, failedRuns, unconfirmed>>
               /\ contended \subseteq contended' /\ revived \subseteq revived'
    BY <1>3 DEF Enqueue, BackoffEnds, LeaseLapses, LeaseOverrun, OperatorRetry
  <1>4. ASSUME (\E r \in Routes : OperatorDeleteRoute(r)) \/ (\E S \in SUBSET Jobs : Housekeeping(S))
        PROVE  UNCHANGED historyVars
    BY <1>4 DEF OperatorDeleteRoute, Housekeeping
  <1>5. ASSUME OperatorClearCompleted \/ BreakerCools \/ Restart \/ Crash \/ UNCHANGED vars
        PROVE  UNCHANGED <<accepted, failedRuns, contended, revived>> /\ unconfirmed \subseteq unconfirmed'
    <2>1. CASE Crash
      BY <2>1 DEF Crash
    <2>2. CASE OperatorClearCompleted \/ BreakerCools \/ Restart \/ UNCHANGED vars
      BY <2>2 DEF OperatorClearCompleted, BreakerCools, Restart, vars
    <2> QED
      BY <1>5, <2>1, <2>2
  <1>6. ASSUME NEW w \in Slots, SlotStep(w) \/ SlotFault(w)
        PROVE  /\ accepted[j] > 0 => accepted'[j] > 0
               /\ failedRuns[j] <= failedRuns'[j]
               /\ contended \subseteq contended'
               /\ unconfirmed \subseteq unconfirmed'
               /\ revived' = revived
    <2>1. CASE MaxAccepts(w)
      <3>1. /\ accepted' = [accepted EXCEPT ![held[w].job] = IF @ = 0 THEN 1 ELSE 2]
            /\ UNCHANGED <<failedRuns, contended, unconfirmed, revived>>
        BY <2>1 DEF MaxAccepts
      <3>2. accepted'[j] = accepted[j] \/ accepted'[j] \in {1, 2}
        BY <3>1 DEF TypeOK, HistoryTypeOK
      <3> QED
        BY <3>1, <3>2 DEF TypeOK, HistoryTypeOK
    <2>2. ASSUME NEW r \in Failures, Refuse(w) \/ ReplyLost(w) \/ MediaFails(w, r) \/ MaxRefuses(w, r)
          PROVE  /\ UNCHANGED <<accepted, contended, revived>> /\ unconfirmed \subseteq unconfirmed'
                 /\ failedRuns[j] <= failedRuns'[j]
      BY <2>2 DEF Refuse, ReplyLost, MediaFails, MaxRefuses, FailRun, TypeOK, HistoryTypeOK
    <2>3. CASE UNCHANGED <<accepted, failedRuns, contended, revived>> /\ unconfirmed \subseteq unconfirmed'
      BY <2>3 DEF TypeOK, HistoryTypeOK
    <2>4. "temporary_error" \in Failures
      BY DEF Failures, Results
    <2>5. CASE \/ Receive(w) \/ Admit(w) \/ Send(w) \/ ReplyArrives(w) \/ LogSuccess(w) \/ Complete(w)
               \/ CompleteFails(w) \/ LogFailure(w) \/ Reschedule(w) \/ RescheduleFails(w) \/ Report(w)
      BY <2>3, <2>5 DEF Receive, Admit, Send, ReplyArrives, LogSuccess, Complete, CompleteFails,
                        LogFailure, Reschedule, RescheduleFails, Report
    <2> QED
      BY <1>6, <2>1, <2>2, <2>4, <2>5 DEF SlotStep, SlotFault
  <1> QED
    BY <1>1, <1>2, <1>3, <1>4, <1>5, <1>6 DEF Next, Progress, Fault, Admin, TypeOK, HistoryTypeOK

(* Only MarkJobCompleted completes a row, and the log gains a success only *)
(* from a goroutine that writes one.                                       *)
LEMMA WhoClaimsSuccess ==
    ASSUME TypeOK, [Next]_vars, NEW j \in Jobs
    PROVE  /\ status'[j] = "completed" =>
                \/ status[j] = "completed"
                \/ \E w \in Slots : Complete(w) /\ held[w].job = j
           /\ "success" \in attemptLog'[j] =>
                \/ "success" \in attemptLog[j]
                \/ \E w \in Slots : LogSuccess(w) /\ held[w].job = j
                \/ \E w \in Slots : LogFailure(w) /\ result[w] = "success"
  <1> DEFINE Quiet == /\ status'[j] = "completed" => status[j] = "completed"
                      /\ "success" \in attemptLog'[j] => "success" \in attemptLog[j]
  <1> USE DEF TypeOK, TableTypeOK
  <1>1. ASSUME NEW S \in SUBSET Jobs, ClaimJobs(S) \/ WipePayloads(S) \/ PruneAttempts(S) \/ DeleteRows(S)
        PROVE  Quiet
    BY <1>1 DEF ClaimJobs, WipePayloads, PruneAttempts, DeleteRows
  <1>2. ASSUME NEW i \in Jobs, InsertJob(i) \/ RetryJobNow(i) \/ BecomeDue(i) \/ LeaseRunsOut(i)
        PROVE  Quiet
    BY <1>2 DEF InsertJob, RetryJobNow, BecomeDue, LeaseRunsOut
  <1>3. ASSUME RequeueStaleProcessing
          PROVE  Quiet
    BY <1>3 DEF RequeueStaleProcessing
  <1>4. ASSUME UNCHANGED tableVars
          PROVE  Quiet
    BY <1>4 DEF tableVars
  <1>5. ASSUME NEW i \in Jobs, NEW n \in Int, NEW later \in BOOLEAN, MarkJobRetryOrDead(i, n, later)
        PROVE  Quiet
    <2>1. CASE RowExists(i)
      <3>1. /\ attemptLog' = attemptLog
            /\ \/ status' = [status EXCEPT ![i] = "dead_letter"]
               \/ status' = [status EXCEPT ![i] = "retry"]
        BY <1>5, <2>1 DEF MarkJobRetryOrDead, MarkDead, MarkRetry
      <3> QED
        BY <3>1
    <2>2. CASE ~RowExists(i)
      BY <1>5, <2>2 DEF MarkJobRetryOrDead
    <2> QED
      BY <2>1, <2>2
  <1>6. ASSUME NEW S \in SUBSET Claimable, ClaimTick(S) \/ ClaimAnswerLost(S)
        PROVE  Quiet
    BY <1>1, <1>6 DEF ClaimTick, ClaimAnswerLost, Claimable
  <1>7. ASSUME (\E c \in claimed : PushClaimed(c)) \/ StaleTick
          PROVE  Quiet
    BY <1>3, <1>4, <1>7 DEF PushClaimed, StaleTick
  <1>8. ASSUME NEW i \in Jobs,
               \/ Enqueue(i) \/ BackoffEnds(i) \/ LeaseLapses(i)
               \/ LeaseOverrun(i) \/ OperatorRetry(i)
        PROVE  Quiet
    BY <1>2, <1>8 DEF Enqueue, BackoffEnds, LeaseLapses, LeaseOverrun, OperatorRetry
  <1>9. ASSUME (\E r \in Routes : OperatorDeleteRoute(r)) \/ (\E S \in SUBSET Jobs : Housekeeping(S))
               \/ OperatorClearCompleted
        PROVE  Quiet
    <2>1. \E S \in SUBSET Jobs : WipePayloads(S) \/ PruneAttempts(S) \/ DeleteRows(S)
      BY <1>9 DEF OperatorDeleteRoute, Housekeeping, OperatorClearCompleted, Completed
    <2> QED
      BY <1>1, <2>1
  <1>10. ASSUME BreakerCools \/ Restart \/ Crash \/ UNCHANGED vars
           PROVE  Quiet
    BY <1>4, <1>10 DEF BreakerCools, Restart, Crash, vars
  <1>11. ASSUME NEW w \in Slots, SlotStep(w) \/ SlotFault(w),
                ~Complete(w), ~LogSuccess(w), ~LogFailure(w)
         PROVE  Quiet
    <2>1. CASE Reschedule(w)
      <3>1. held[w].job \in Jobs /\ held[w].attempts + 1 \in Int
        BY <2>1, HeldIsCopy DEF Reschedule
      <3> QED
        BY <1>5, <2>1, <3>1 DEF Reschedule
    <2>2. CASE ~Reschedule(w)
      <3>1. UNCHANGED tableVars
        BY <1>11, <2>2
           DEF SlotStep, SlotFault, Receive, Admit, Refuse, Send, MaxAccepts, MediaFails, MaxRefuses,
               ReplyArrives, ReplyLost, CompleteFails, RescheduleFails, Report, FailRun
      <3> QED
        BY <1>4, <3>1
    <2> QED
      BY <2>1, <2>2
  <1>12. ASSUME NEW w \in Slots, Complete(w)
         PROVE  /\ status'[j] = "completed" => status[j] = "completed" \/ held[w].job = j
                /\ attemptLog' = attemptLog
    BY <1>12 DEF Complete, MarkJobCompleted
  <1>13. ASSUME NEW w \in Slots, LogSuccess(w)
         PROVE  /\ status' = status
                /\ "success" \in attemptLog'[j] => "success" \in attemptLog[j] \/ held[w].job = j
    BY <1>13 DEF LogSuccess, RecordAttempt, tableVars
  <1>14. ASSUME NEW w \in Slots, LogFailure(w)
         PROVE  /\ status' = status
                /\ "success" \in attemptLog'[j] => "success" \in attemptLog[j] \/ result[w] = "success"
    BY <1>14 DEF LogFailure, RecordAttempt, tableVars
  <1> QED
    <2>1. CASE \E w \in Slots : Complete(w) \/ LogSuccess(w) \/ LogFailure(w)
      BY <2>1, <1>12, <1>13, <1>14
    <2>2. CASE ~\E w \in Slots : Complete(w) \/ LogSuccess(w) \/ LogFailure(w)
      <3>1. Quiet
        BY <2>2, <1>6, <1>7, <1>8, <1>9, <1>10, <1>11 DEF Next, Progress, Fault, Admin
      <3> QED
        BY <3>1
    <2> QED
      BY <2>1, <2>2

-----------------------------------------------------------------------------
(* Inductive: what a goroutine believes between the reply and the row. *)
HonestSlots ==
    \A w \in Slots :
        /\ pc[w] \in AfterAccept => accepted[held[w].job] > 0
        /\ pc[w] = "logFailure" => result[w] \in Failures

LEMMA HonestStep ==
    ASSUME TypeOK, HonestSlots, NoFalseSuccess, [Next]_vars
    PROVE  HonestSlots' /\ NoFalseSuccess'
  <1>1. ASSUME NEW w \in Slots
        PROVE  /\ pc'[w] \in AfterAccept => accepted'[held'[w].job] > 0
               /\ pc'[w] = "logFailure" => result'[w] \in Failures
    <2>1. CASE pc'[w] = pc[w] /\ held'[w] = held[w] /\ result'[w] = result[w]
      BY <2>1, HeldIsCopy, HistoryGrows DEF HonestSlots, AfterAccept
    <2>2. CASE pc'[w] = "idle"
      BY <2>2 DEF AfterAccept
    <2>3. CASE SlotStep(w) \/ SlotFault(w)
      <3> USE DEF TypeOK, ProcessTypeOK, HistoryTypeOK, AfterAccept, Goto
      <3>1. CASE MaxAccepts(w)
        <4>1. held[w].job \in Jobs
          BY <3>1, HeldIsCopy DEF MaxAccepts
        <4>2. accepted'[held[w].job] \in {1, 2} /\ held' = held /\ pc'[w] = "replying"
          BY <3>1, <4>1 DEF MaxAccepts
        <4> QED
          BY <4>2
      <3>2. CASE ReplyArrives(w) \/ LogSuccess(w)
        BY <3>2 DEF ReplyArrives, LogSuccess, HonestSlots, historyVars
      <3>3. CASE Refuse(w) \/ ReplyLost(w) \/ \E r \in Failures : MediaFails(w, r) \/ MaxRefuses(w, r)
        BY <3>3 DEF Refuse, ReplyLost, MediaFails, MaxRefuses, FailRun, Failures, Results
      <3>4. CASE \/ Receive(w) \/ Admit(w) \/ Send(w) \/ Complete(w) \/ CompleteFails(w)
                 \/ LogFailure(w) \/ Reschedule(w) \/ RescheduleFails(w) \/ Report(w)
        BY <3>4 DEF Receive, Admit, Send, Complete, CompleteFails, LogFailure, Reschedule,
                    RescheduleFails, Report, Release
      <3> QED
        BY <2>3, <3>1, <3>2, <3>3, <3>4 DEF SlotStep, SlotFault
    <2> QED
      BY <2>1, <2>2, <2>3, OwnSteps
  <1>2. ASSUME NEW j \in Jobs, status'[j] = "completed" \/ "success" \in attemptLog'[j]
        PROVE  accepted'[j] > 0
    <2>1. accepted[j] > 0
      BY <1>2, WhoClaimsSuccess
         DEF NoFalseSuccess, HonestSlots, AfterAccept, Complete, LogSuccess, LogFailure, Failures
    <2> QED
      BY <2>1, HistoryGrows
  <1> QED
    BY <1>1, <1>2 DEF HonestSlots, NoFalseSuccess

(* A completed row, and a success in the attempt log, mean that MAX has    *)
(* accepted the message: no stale writer, restart or operator can make the *)
(* table say otherwise.                                                    *)
THEOREM SuccessIsTrue == Spec => []NoFalseSuccess
  <1>1. Init => HonestSlots /\ NoFalseSuccess
    BY DEF Init, TableInit, HonestSlots, NoFalseSuccess, AfterAccept
  <1>2. TypeOK /\ (HonestSlots /\ NoFalseSuccess) /\ [Next]_vars => (HonestSlots /\ NoFalseSuccess)'
    BY HonestStep
  <1> QED
    BY <1>1, <1>2, TypeCorrect, PTL DEF Spec

-----------------------------------------------------------------------------
(* A copy stays what it was when it was claimed, and only the loop makes   *)
(* new ones.                                                               *)
LEMMA CopiesStep ==
    ASSUME TypeOK, [Next]_vars, NEW c \in Copies'
    PROVE  \/ c \in Copies
           \/ \E S \in SUBSET Claimable : ClaimTick(S) /\ \E j \in S : c = CopyOf(j)
  <1> DEFINE Kept == Copies' \subseteq Copies
  <1> USE DEF Copies, ChannelCopies, Working, DoneWithJob
  <1>1. ASSUME NEW S \in SUBSET Claimable, ClaimTick(S)
        PROVE  c \in Copies \/ \E j \in S : c = CopyOf(j)
    BY <1>1 DEF ClaimTick
  <1>2. ASSUME UNCHANGED <<claimed, jobsCh, pc, held>>
        PROVE  Kept
    BY <1>2
  <1>3. ASSUME NEW d \in claimed, PushClaimed(d)
        PROVE  Kept
    <2>1. \A i \in 1 .. Len(jobsCh') : jobsCh'[i] = d \/ (i \in 1 .. Len(jobsCh) /\ jobsCh'[i] = jobsCh[i])
      BY <1>3 DEF PushClaimed, TypeOK, ProcessTypeOK
    <2>2. ChannelCopies' \subseteq ChannelCopies \cup {d}
      BY <2>1
    <2> QED
      BY <1>3, <2>2 DEF PushClaimed
  <1>4. ASSUME NEW w \in Slots, Receive(w)
        PROVE  Kept
    <2>1. /\ Len(jobsCh) > 0 /\ Head(jobsCh) = jobsCh[1]
          /\ \A i \in 1 .. Len(jobsCh') : i + 1 \in 1 .. Len(jobsCh) /\ jobsCh'[i] = jobsCh[i + 1]
      BY <1>4 DEF Receive, TypeOK, ProcessTypeOK
    <2>2. ChannelCopies' \subseteq ChannelCopies /\ Head(jobsCh) \in ChannelCopies
      BY <2>1
    <2>3. \A v \in Slots : Working(v)' => held'[v] = Head(jobsCh) \/ (Working(v) /\ held'[v] = held[v])
      BY <1>4 DEF Receive, TypeOK, ProcessTypeOK
    <2> QED
      BY <1>4, <2>2, <2>3 DEF Receive
  <1>5. ASSUME NEW w \in Slots, SlotStep(w) \/ SlotFault(w), ~Receive(w)
        PROVE  Kept
    <2>1. UNCHANGED <<claimed, jobsCh>>
      BY <1>5 DEF SlotStep, SlotFault, Admit, Refuse, Send, MaxAccepts, MediaFails, MaxRefuses,
                  ReplyArrives, ReplyLost, LogSuccess, Complete, CompleteFails, LogFailure,
                  Reschedule, RescheduleFails, Report, FailRun
    <2>2. Working(w)' => Working(w) /\ held' = held
      BY <1>5 DEF SlotStep, SlotFault, Admit, Refuse, Send, MaxAccepts, MediaFails, MaxRefuses,
                  ReplyArrives, ReplyLost, LogSuccess, Complete, CompleteFails, LogFailure,
                  Reschedule, RescheduleFails, Report, Release, FailRun, Goto, TypeOK, ProcessTypeOK
    <2>3. \A v \in Slots \ {w} : Working(v)' => Working(v) /\ held'[v] = held[v]
      BY <1>5 DEF SlotStep, SlotFault, Admit, Refuse, Send, MaxAccepts, MediaFails, MaxRefuses,
                  ReplyArrives, ReplyLost, LogSuccess, Complete, CompleteFails, LogFailure,
                  Reschedule, RescheduleFails, Report, Release, FailRun, Goto, TypeOK, ProcessTypeOK
    <2>4. {held'[v] : v \in {u \in Slots : Working(u)'}} \subseteq {held[v] : v \in {u \in Slots : Working(u)}}
      BY <2>2, <2>3
    <2> QED
      BY <2>1, <2>4
  <1>6. ASSUME Crash
        PROVE  Kept
    <2>1. claimed' = {} /\ jobsCh' = <<>> /\ \A v \in Slots : ~Working(v)'
      BY <1>6 DEF Crash, ProcessDown
    <2>2. 1 .. Len(jobsCh') = {}
      BY <2>1
    <2> QED
      BY <2>1, <2>2
  <1>7. ASSUME \/ \E S \in SUBSET Claimable : ClaimAnswerLost(S)
               \/ \E j \in Jobs : \/ Enqueue(j) \/ BackoffEnds(j) \/ LeaseLapses(j)
                                  \/ LeaseOverrun(j) \/ OperatorRetry(j)
               \/ \E r \in Routes : OperatorDeleteRoute(r)
               \/ \E S \in SUBSET Jobs : Housekeeping(S)
               \/ StaleTick \/ OperatorClearCompleted \/ BreakerCools \/ Restart \/ UNCHANGED vars
        PROVE  UNCHANGED <<claimed, jobsCh, pc, held>>
    BY <1>7 DEF ClaimAnswerLost, Enqueue, BackoffEnds, LeaseLapses, LeaseOverrun, OperatorRetry,
                OperatorDeleteRoute, Housekeeping, StaleTick, OperatorClearCompleted, BreakerCools,
                Restart, vars, processVars
  <1>8. Kept \/ \E S \in SUBSET Claimable : ClaimTick(S)
    BY <1>2, <1>3, <1>4, <1>5, <1>6, <1>7 DEF Next, Progress, Fault, Admin
  <1> QED
    <2>1. CASE \E S \in SUBSET Claimable : ClaimTick(S)
      BY <1>1, <2>1
    <2>2. CASE Kept
      BY <2>2
    <2> QED
      BY <1>8, <2>1, <2>2

(* Every way a row moves. *)
RowMoves(j) ==
    \/ status'[j] = status[j] /\ attempts'[j] = attempts[j]
    \/ status[j] \in {"none", "pending", "retry"} /\ status'[j] \in {"pending", "processing"}
       /\ attempts'[j] = attempts[j]
    \/ StaleTick /\ j \in Stale /\ status'[j] = "retry" /\ attempts'[j] = attempts[j]
    \/ OperatorRetry(j) /\ status'[j] = "retry" /\ attempts'[j] = attempts[j]
    \/ status'[j] = "deleted" /\ attempts'[j] = 0
       /\ (status[j] \in {"completed", "dead_letter"} \/ \E r \in Routes : OperatorDeleteRoute(r))
    \/ \E w \in Slots : Complete(w) /\ held[w].job = j
                       /\ status[j] # "deleted" /\ attempts'[j] = attempts[j] /\ status'[j] = "completed"
    \/ \E w \in Slots : Reschedule(w) /\ held[w].job = j
                       /\ status[j] # "deleted" /\ attempts'[j] = held[w].attempts + 1
                       /\ status'[j] \in {"retry", "dead_letter"}
                       /\ (status'[j] = "dead_letter" => attempts'[j] >= MaxAttempts)

LEMMA EveryRowMoves ==
    ASSUME TypeOK, [Next]_vars, NEW j \in Jobs
    PROVE  RowMoves(j)
  <1> DEFINE Still == status'[j] = status[j] /\ attempts'[j] = attempts[j]
  <1> USE DEF TypeOK, TableTypeOK
  <1>1. ASSUME NEW S \in SUBSET Claimable, ClaimTick(S) \/ ClaimAnswerLost(S)
        PROVE  RowMoves(j)
    <2>1. ClaimJobs(S)
      BY <1>1 DEF ClaimTick, ClaimAnswerLost
    <2> QED
      BY <2>1 DEF ClaimJobs, Claimable, RowMoves
  <1>2. ASSUME \/ (\E c \in claimed : PushClaimed(c)) \/ BreakerCools \/ Restart \/ Crash \/ UNCHANGED vars
               \/ \E i \in Jobs : BackoffEnds(i) \/ LeaseLapses(i) \/ LeaseOverrun(i)
        PROVE  Still
    BY <1>2 DEF PushClaimed, BreakerCools, Restart, Crash, vars, tableVars, BackoffEnds, BecomeDue,
                LeaseLapses, LeaseOverrun, LeaseRunsOut
  <1>3. ASSUME StaleTick
        PROVE  RowMoves(j)
    <2>1. RequeueStaleProcessing
      BY <1>3 DEF StaleTick
    <2> QED
      BY <1>3, <2>1 DEF RequeueStaleProcessing, RowMoves
  <1>4. ASSUME NEW i \in Jobs, Enqueue(i)
        PROVE  RowMoves(j)
    BY <1>4 DEF Enqueue, InsertJob, RowMoves
  <1>5. ASSUME NEW i \in Jobs, OperatorRetry(i)
        PROVE  RowMoves(j)
    <2>1. RetryJobNow(i)
      BY <1>5 DEF OperatorRetry
    <2>2. CASE i = j
      BY <1>5, <2>1, <2>2 DEF RetryJobNow, RowMoves
    <2>3. CASE i # j
      BY <2>1, <2>3 DEF RetryJobNow, RowMoves
    <2> QED
      BY <2>2, <2>3
  <1>6. ASSUME NEW r \in Routes, OperatorDeleteRoute(r)
        PROVE  RowMoves(j)
    <2>1. DeleteRows({i \in Jobs : RowExists(i) /\ RouteOf[i] = r})
      BY <1>6 DEF OperatorDeleteRoute
    <2> QED
      BY <1>6, <2>1 DEF DeleteRows, RowMoves
  <1>7. ASSUME NEW S \in SUBSET Finished, DeleteRows(S)
        PROVE  RowMoves(j)
    BY <1>7 DEF DeleteRows, RowMoves, Finished
  <1>8. ASSUME OperatorClearCompleted
        PROVE  RowMoves(j)
    BY <1>7, <1>8 DEF OperatorClearCompleted, Completed, Finished
  <1>9. ASSUME NEW S \in SUBSET Jobs, Housekeeping(S)
        PROVE  RowMoves(j)
    <2>1. CASE WipePayloads(S) \/ PruneAttempts(S)
      BY <2>1 DEF WipePayloads, PruneAttempts, RowMoves
    <2> QED
      BY <1>7, <1>9, <2>1 DEF Housekeeping
  <1>10. ASSUME NEW w \in Slots, Complete(w)
         PROVE  RowMoves(j)
    <2>1. MarkJobCompleted(held[w].job)
      BY <1>10 DEF Complete
    <2>2. CASE held[w].job = j
      BY <1>10, <2>1, <2>2 DEF MarkJobCompleted, RowExists, RowStatus, RowMoves
    <2>3. CASE held[w].job # j
      BY <2>1, <2>3 DEF MarkJobCompleted, RowMoves
    <2> QED
      BY <2>2, <2>3
  <1>11. ASSUME NEW w \in Slots, Reschedule(w)
         PROVE  RowMoves(j)
    <2>1. MarkJobRetryOrDead(held[w].job, held[w].attempts + 1, result[w] = "temporary_error")
      BY <1>11 DEF Reschedule
    <2>2. CASE ~RowExists(held[w].job)
      BY <2>1, <2>2 DEF MarkJobRetryOrDead, RowMoves
    <2>3. CASE RowExists(held[w].job)
      <3>1. /\ attempts' = [attempts EXCEPT ![held[w].job] = held[w].attempts + 1]
            /\ \/ status' = [status EXCEPT ![held[w].job] = "dead_letter"] /\ held[w].attempts + 1 >= MaxAttempts
               \/ status' = [status EXCEPT ![held[w].job] = "retry"]
        BY <2>1, <2>3 DEF MarkJobRetryOrDead, MarkDead, MarkRetry
      <3>2. CASE held[w].job = j
        BY <1>11, <2>3, <3>1, <3>2 DEF RowExists, RowStatus, RowMoves
      <3>3. CASE held[w].job # j
        BY <3>1, <3>3 DEF RowMoves
      <3> QED
        BY <3>2, <3>3
    <2> QED
      BY <2>2, <2>3
  <1>12. ASSUME NEW w \in Slots, SlotStep(w) \/ SlotFault(w), ~Complete(w), ~Reschedule(w)
         PROVE  Still
    BY <1>12
       DEF SlotStep, SlotFault, Receive, Admit, Refuse, Send, MaxAccepts, MediaFails, MaxRefuses,
           ReplyArrives, ReplyLost, CompleteFails, RescheduleFails, Report, FailRun,
           LogSuccess, LogFailure, RecordAttempt, tableVars
  <1>13. Still => RowMoves(j)
    BY DEF RowMoves
  <1> QED
    BY <1>1, <1>2, <1>3, <1>4, <1>5, <1>6, <1>8, <1>9, <1>10, <1>11, <1>12, <1>13
       DEF Next, Progress, Fault, Admin

-----------------------------------------------------------------------------
(* Inductive: no copy, and no goroutine about to write, counts more        *)
(* failures than there were.                                               *)
AttemptsBacked ==
    /\ \A c \in Copies : c.attempts <= failedRuns[c.job]
    /\ \A w \in Slots : pc[w] \in {"logFailure", "reschedule"}
                       => held[w].attempts + 1 <= failedRuns[held[w].job]

LEMMA CopiesAreCopies ==
    ASSUME TypeOK, NEW c \in Copies
    PROVE  c \in Copy /\ c.job \in Jobs /\ c.attempts \in Int
  <1>1. claimed \subseteq Copy /\ ChannelCopies \subseteq Copy
    BY DEF TypeOK, ProcessTypeOK, ChannelCopies
  <1>2. \A w \in Slots : Working(w) => held[w] \in Copy
    BY HeldIsCopy DEF Working, DoneWithJob
  <1>3. c \in Copy
    BY <1>1, <1>2 DEF Copies
  <1> QED
    BY <1>3 DEF Copy

LEMMA AttemptsStep ==
    ASSUME TypeOK, TypeOK', AttemptsBacked, DeadLetterEarned, [Next]_vars
    PROVE  AttemptsBacked' /\ DeadLetterEarned'
  <1> USE DEF TypeOK, TableTypeOK, HistoryTypeOK
  <1>1. ASSUME NEW c \in Copies'
        PROVE  c.attempts <= failedRuns'[c.job]
    <2>1. CASE c \in Copies
      BY <2>1, CopiesAreCopies, HistoryGrows DEF AttemptsBacked
    <2>2. ASSUME NEW S \in SUBSET Claimable, NEW j \in S, c = CopyOf(j)
          PROVE  c.attempts <= failedRuns'[c.job]
      <3>1. j \in Jobs /\ c.job = j /\ c.attempts = attempts[j]
        BY <2>2 DEF CopyOf, Claimable
      <3> QED
        BY <3>1, HistoryGrows DEF DeadLetterEarned
    <2> QED
      BY <2>1, <2>2, CopiesStep
  <1>2. ASSUME NEW w \in Slots, pc'[w] \in {"logFailure", "reschedule"}
        PROVE  held'[w].attempts + 1 <= failedRuns'[held'[w].job]
    <2>1. CASE pc'[w] = pc[w] /\ held'[w] = held[w]
      BY <1>2, <2>1, HeldIsCopy, HistoryGrows DEF AttemptsBacked
    <2>2. ASSUME NEW r \in Results, FailRun(w, r), Working(w)
          PROVE  held'[w].attempts + 1 <= failedRuns'[held'[w].job]
      <3>1. held[w] \in Copies /\ held[w].job \in Jobs /\ held[w].attempts \in Int
        BY <2>2, HeldIsCopy DEF Copies, Working, DoneWithJob
      <3>2. held' = held /\ failedRuns'[held[w].job] = failedRuns[held[w].job] + 1
        BY <2>2, <3>1 DEF FailRun
      <3>3. held[w].attempts <= failedRuns[held[w].job]
        BY <3>1 DEF AttemptsBacked
      <3> QED
        BY <3>1, <3>2, <3>3
    <2>3. CASE LogFailure(w)
      BY <1>2, <2>3, HeldIsCopy, HistoryGrows DEF LogFailure, AttemptsBacked
    <2>4. CASE SlotStep(w) \/ SlotFault(w)
      <3>1. CASE Refuse(w) \/ ReplyLost(w) \/ \E r \in Failures : MediaFails(w, r) \/ MaxRefuses(w, r)
        BY <2>2, <3>1 DEF Refuse, ReplyLost, MediaFails, MaxRefuses, Working, DoneWithJob, Failures, Results
      <3>2. CASE \/ Receive(w) \/ Admit(w) \/ Send(w) \/ MaxAccepts(w) \/ ReplyArrives(w) \/ LogSuccess(w)
                 \/ Complete(w) \/ CompleteFails(w) \/ Reschedule(w) \/ RescheduleFails(w) \/ Report(w)
        <4>1. pc'[w] \notin {"logFailure", "reschedule"}
          BY <3>2 DEF Receive, Admit, Send, MaxAccepts, ReplyArrives, LogSuccess, Complete, CompleteFails,
                      Reschedule, RescheduleFails, Report, Release, Goto, ProcessTypeOK
        <4> QED
          BY <1>2, <4>1
      <3> QED
        BY <2>3, <2>4, <3>1, <3>2 DEF SlotStep, SlotFault
    <2> QED
      BY <1>2, <2>1, <2>4, OwnSteps
  <1>3. ASSUME NEW j \in Jobs
        PROVE  /\ attempts'[j] <= failedRuns'[j]
               /\ status'[j] = "dead_letter" => attempts'[j] >= MaxAttempts
    <2>1. RowMoves(j)
      BY EveryRowMoves
    <2>2. /\ attempts[j] \in Int /\ failedRuns[j] \in Nat /\ failedRuns'[j] \in Nat
          /\ attempts[j] <= failedRuns[j] /\ failedRuns[j] <= failedRuns'[j]
          /\ status[j] = "dead_letter" => attempts[j] >= MaxAttempts
      BY HistoryGrows DEF DeadLetterEarned
    <2>3. CASE \E w \in Slots : Reschedule(w) /\ held[w].job = j /\ attempts'[j] = held[w].attempts + 1
                               /\ (status'[j] = "dead_letter" => attempts'[j] >= MaxAttempts)
      <3> PICK w \in Slots : Reschedule(w) /\ held[w].job = j /\ attempts'[j] = held[w].attempts + 1
                           /\ (status'[j] = "dead_letter" => attempts'[j] >= MaxAttempts)
        BY <2>3
      <3>1. held[w].attempts \in Int /\ held[w].attempts + 1 <= failedRuns[j]
        BY HeldIsCopy DEF Reschedule, AttemptsBacked
      <3> QED
        BY <2>2, <3>1
    <2>4. CASE attempts'[j] = attempts[j] /\ (status'[j] = "dead_letter" => status[j] = "dead_letter")
      BY <2>2, <2>4
    <2>5. CASE attempts'[j] = 0 /\ status'[j] = "deleted"
      BY <2>2, <2>5
    <2>6. \/ attempts'[j] = attempts[j] /\ (status'[j] = "dead_letter" => status[j] = "dead_letter")
          \/ attempts'[j] = 0 /\ status'[j] = "deleted"
          \/ \E w \in Slots : Reschedule(w) /\ held[w].job = j /\ attempts'[j] = held[w].attempts + 1
                             /\ (status'[j] = "dead_letter" => attempts'[j] >= MaxAttempts)
      BY <2>1 DEF RowMoves
    <2> QED
      BY <2>3, <2>4, <2>5, <2>6
  <1> QED
    BY <1>1, <1>2, <1>3 DEF AttemptsBacked, DeadLetterEarned

(* A dead letter has cost at least MaxAttempts passes that really failed,  *)
(* however often the job was requeued, retried by hand or claimed twice.   *)
THEOREM DeadLettersAreEarned == Spec => []DeadLetterEarned
  <1>1. Init => AttemptsBacked /\ DeadLetterEarned
    <2> SUFFICES ASSUME Init PROVE AttemptsBacked /\ DeadLetterEarned
      OBVIOUS
    <2>1. Copies = {}
      <3>1. claimed = {} /\ jobsCh = <<>> /\ \A w \in Slots : ~Working(w)
        BY DEF Init, Working, DoneWithJob
      <3>2. 1 .. Len(jobsCh) = {}
        BY <3>1
      <3> QED
        BY <3>1, <3>2 DEF Copies, ChannelCopies
    <2> QED
      <3>1. \A w \in Slots : pc[w] = "idle"
        BY DEF Init
      <3>2. AttemptsBacked
        BY <2>1, <3>1 DEF AttemptsBacked
      <3>3. \A j \in Jobs : attempts[j] = 0 /\ failedRuns[j] = 0 /\ status[j] = "none"
        BY DEF Init, TableInit
      <3> QED
        BY <3>2, <3>3 DEF DeadLetterEarned
  <1>2. TypeOK /\ TypeOK' /\ (AttemptsBacked /\ DeadLetterEarned) /\ [Next]_vars
        => (AttemptsBacked /\ DeadLetterEarned)'
    BY AttemptsStep
  <1> QED
    BY <1>1, <1>2, TypeCorrect, PTL DEF Spec
=============================================================================
