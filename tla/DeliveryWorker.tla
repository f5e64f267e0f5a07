--------------------------- MODULE DeliveryWorker ---------------------------
(***************************************************************************)
(* The worker process (internal/delivery/worker.go) against the job table  *)
(* and the MAX API: one loop that claims jobs and requeues stale ones, a   *)
(* bounded channel, and Slots, the goroutines that run processOne.  Around *)
(* it, everybody else who touches the same rows: the bridge that inserts   *)
(* jobs, the housekeeping of the bridge, the operator's console, the clock *)
(* and the process manager that restarts a dead worker.                    *)
(*                                                                         *)
(* A goroutine works on the copy of the row it claimed and never looks at  *)
(* the row again; every statement it issues may find the row changed.      *)
(***************************************************************************)
EXTENDS JobTable, CircuitBreaker, Sequences, FiniteSets

CONSTANTS Slots,             \* the goroutines: WORKER_CONCURRENCY of them
          Routes, Users,     \* rows that carry last_delivery_status
          RouteOf, UserOf,   \* delivery_jobs.route_id, .max_user_id
          NoCopy             \* what an idle goroutine holds

ASSUME RouteAndUserOfJobs ==
    /\ RouteOf \in [Jobs -> Routes]
    /\ UserOf \in [Jobs -> Users]

VARIABLES up,        \* the worker process runs
          claimed,   \* rows the loop has claimed and not yet sent to the channel
          jobsCh,    \* the channel
          pc,        \* per goroutine: the next thing processOne does
          held,      \* per goroutine: the copy it works on
          result,    \* per goroutine: the outcome it is about to write down
          report     \* last_delivery_status of each user and route

processVars == <<up, claimed, jobsCh, pc, held, result>>

(* History, which no action reads. *)
VARIABLES accepted,     \* how often MAX accepted the job: 0, 1 or 2 (2 is "more than once")
          hollow,       \* jobs accepted after their payload had been wiped
          revived,      \* jobs the operator retried after it had been wiped
          failedRuns,   \* how many passes of processOne over the job failed
          contended,    \* jobs put back in the queue by the operator, or as
                        \* stale while the process still held a copy
          unconfirmed   \* jobs MAX accepted without the worker getting to
                        \* write that down

historyVars == <<accepted, hollow, revived, failedRuns, contended, unconfirmed>>

vars == <<tableVars, breakerVars, processVars, report, historyVars>>

Concurrency == Cardinality(Slots)
ChanCap     == 2 * Concurrency

Copy == [job : Jobs, attempts : Int, whole : BOOLEAN]

PC == {"idle", "admit", "prepare", "sending", "replying", "logSuccess",
       "complete", "logFailure", "reschedule", "report"}

(* Between MAX accepting the message and the row saying so. *)
AfterAccept == {"replying", "logSuccess", "complete"}

(* A goroutine at one of these no longer has anything to write to the row. *)
DoneWithJob == {"idle", "report"}

Working(w)  == pc[w] \notin DoneWithJob
Holds(w, j) == Working(w) /\ held[w].job = j

(* The copies that can still write to their rows, wherever they sit. *)
ChannelCopies == {jobsCh[i] : i \in 1 .. Len(jobsCh)}
Copies        == claimed \cup ChannelCopies \cup {held[w] : w \in {v \in Slots : Working(v)}}
InProcess(j)  == \E c \in Copies : c.job = j

ProcessTypeOK ==
    /\ up \in BOOLEAN
    /\ claimed \in SUBSET Copy
    /\ jobsCh \in Seq(Copy)
    /\ pc \in [Slots -> PC]
    /\ held \in [Slots -> Copy \cup {NoCopy}]
    /\ \A w \in Slots : pc[w] # "idle" => held[w] \in Copy
    /\ result \in [Slots -> Results]

HistoryTypeOK ==
    /\ report \in [Users \cup Routes -> Results \cup {"never", "deleted"}]
    /\ accepted \in [Jobs -> 0 .. 2]
    /\ hollow \in SUBSET Jobs
    /\ revived \in SUBSET Jobs
    /\ failedRuns \in [Jobs -> Nat]
    /\ contended \in SUBSET Jobs
    /\ unconfirmed \in SUBSET Jobs

TypeOK == TableTypeOK /\ BreakerTypeOK /\ ProcessTypeOK /\ HistoryTypeOK

ProcessDown ==
    /\ claimed' = {}
    /\ jobsCh' = <<>>
    /\ pc' = [w \in Slots |-> "idle"]
    /\ held' = [w \in Slots |-> NoCopy]
    /\ result' = [w \in Slots |-> "temporary_error"]

Init ==
    /\ TableInit
    /\ BreakerInit
    /\ up = TRUE
    /\ claimed = {}
    /\ jobsCh = <<>>
    /\ pc = [w \in Slots |-> "idle"]
    /\ held = [w \in Slots |-> NoCopy]
    /\ result = [w \in Slots |-> "temporary_error"]
    /\ report = [t \in Users \cup Routes |-> "never"]
    /\ accepted = [j \in Jobs |-> 0]
    /\ hollow = {}
    /\ revived = {}
    /\ failedRuns = [j \in Jobs |-> 0]
    /\ contended = {}
    /\ unconfirmed = {}

-----------------------------------------------------------------------------
(* The loop of Run.  While rows it claimed wait for room in the channel it *)
(* sits in the send and neither ticker is served: hence claimed = {}.      *)

CopyOf(j) == [job |-> j, attempts |-> attempts[j], whole |-> payload[j]]

ClaimTick(S) ==
    /\ up /\ claimed = {}
    /\ S # {} /\ Cardinality(S) <= Concurrency
    /\ ClaimJobs(S)
    /\ claimed' = {CopyOf(j) : j \in S}
    /\ UNCHANGED <<breakerVars, up, jobsCh, pc, held, result, report, historyVars>>

(* The UPDATE commits, its RETURNING rows never arrive: ClaimJobs returns  *)
(* an error and the loop goes on without the jobs.                         *)
ClaimAnswerLost(S) ==
    /\ up /\ claimed = {}
    /\ S # {} /\ Cardinality(S) <= Concurrency
    /\ ClaimJobs(S)
    /\ UNCHANGED <<breakerVars, processVars, report, historyVars>>

PushClaimed(c) ==
    /\ up /\ c \in claimed
    /\ Len(jobsCh) < ChanCap
    /\ jobsCh' = Append(jobsCh, c)
    /\ claimed' = claimed \ {c}
    /\ UNCHANGED <<tableVars, breakerVars, up, pc, held, result, report, historyVars>>

StaleTick ==
    /\ up /\ claimed = {}
    /\ Stale # {}
    /\ RequeueStaleProcessing
    /\ contended' = contended \cup {j \in Stale : InProcess(j)}
    /\ UNCHANGED <<breakerVars, processVars, report, accepted, hollow, revived, failedRuns, unconfirmed>>

-----------------------------------------------------------------------------
(* processOne, one goroutine at a time. *)

(* A mutant: goroutines take a lock the loop holds while it sends. *)
ReceiveUnderLock_M(w) ==
    /\ up /\ pc[w] = "idle" /\ jobsCh # <<>> /\ claimed = {}
    /\ held' = [held EXCEPT ![w] = Head(jobsCh)]
    /\ jobsCh' = Tail(jobsCh)
    /\ pc' = [pc EXCEPT ![w] = "admit"]
    /\ UNCHANGED <<tableVars, breakerVars, up, claimed, result, report, historyVars>>

Receive(w) ==
    /\ up /\ pc[w] = "idle" /\ jobsCh # <<>>
    /\ held' = [held EXCEPT ![w] = Head(jobsCh)]
    /\ jobsCh' = Tail(jobsCh)
    /\ pc' = [pc EXCEPT ![w] = "admit"]
    /\ UNCHANGED <<tableVars, breakerVars, up, claimed, result, report, historyVars>>

Goto(w, next) == pc' = [pc EXCEPT ![w] = next]

(* This pass over the job has failed; what follows is retry(). *)
FailRun(w, r) ==
    /\ Goto(w, "logFailure")
    /\ result' = [result EXCEPT ![w] = r]
    /\ failedRuns' = [failedRuns EXCEPT ![held[w].job] = @ + 1]
    /\ UNCHANGED <<tableVars, up, claimed, jobsCh, held, report, hollow, revived, contended>>

Admit(w) ==
    /\ pc[w] = "admit" /\ Allow
    /\ Goto(w, "prepare")
    /\ UNCHANGED <<tableVars, breakerVars, up, claimed, jobsCh, held, result, report, historyVars>>

(* An open breaker costs the job an attempt. *)
Refuse(w) ==
    /\ pc[w] = "admit" /\ ~Allow
    /\ FailRun(w, "temporary_error")
    /\ UNCHANGED <<breakerVars, accepted, unconfirmed>>

(* The limiter has let the goroutine through and the media, if any, are    *)
(* uploaded: the request goes out.                                         *)
Send(w) ==
    /\ pc[w] = "prepare"
    /\ Goto(w, "sending")
    /\ UNCHANGED <<tableVars, breakerVars, up, claimed, jobsCh, held, result, report, historyVars>>

MediaFails(w, r) ==
    /\ pc[w] = "prepare"
    /\ FailRun(w, r)
    /\ UNCHANGED <<breakerVars, accepted, unconfirmed>>

(* MAX accepts the message.  The attachment warm-up, which repeats the     *)
(* call only while MAX refuses it, is part of waiting at "sending".        *)
MaxAccepts(w) ==
    /\ pc[w] = "sending"
    /\ Goto(w, "replying")
    /\ accepted' = [accepted EXCEPT ![held[w].job] = IF @ = 0 THEN 1 ELSE 2]
    /\ hollow' = IF held[w].whole THEN hollow ELSE hollow \cup {held[w].job}
    /\ UNCHANGED <<tableVars, breakerVars, up, claimed, jobsCh, held, result, report,
                   revived, failedRuns, contended, unconfirmed>>

(* Mutants: the error of the send is shadowed; an error of RecordAttempt   *)
(* is returned as if the send had failed.                                  *)
MaxRefusesUnseen_M(w, r) ==
    /\ pc[w] = "sending"
    /\ Goto(w, "logSuccess")
    /\ result' = [result EXCEPT ![w] = "success"]
    /\ MarkSuccess
    /\ UNCHANGED <<tableVars, up, claimed, jobsCh, held, report, historyVars>>

MaxRefuses(w, r) ==
    /\ pc[w] = "sending"
    /\ FailRun(w, r)
    /\ MarkFailure
    /\ UNCHANGED <<accepted, unconfirmed>>

ReplyArrives(w) ==
    /\ pc[w] = "replying"
    /\ Goto(w, "logSuccess")
    /\ result' = [result EXCEPT ![w] = "success"]
    /\ MarkSuccess
    /\ UNCHANGED <<tableVars, up, claimed, jobsCh, held, report, historyVars>>

(* A timeout or a broken connection after MAX accepted: to the client this *)
(* is one more temporary error.                                            *)
ReplyLost(w) ==
    /\ pc[w] = "replying"
    /\ FailRun(w, "temporary_error")
    /\ MarkFailure
    /\ unconfirmed' = unconfirmed \cup {held[w].job}
    /\ UNCHANGED accepted

LogSuccessOrFail_M(w) ==
    /\ pc[w] = "logSuccess"
    /\ \/ /\ RecordAttempt(held[w].job, "success")
          /\ Goto(w, "complete")
          /\ UNCHANGED <<breakerVars, up, claimed, jobsCh, held, result, report, historyVars>>
       \/ FailRun(w, "temporary_error") /\ UNCHANGED <<breakerVars, accepted, unconfirmed>>

(* An error of this statement is logged and passed over. *)
LogSuccess(w) ==
    /\ pc[w] = "logSuccess"
    /\ Goto(w, "complete")
    /\ RecordAttempt(held[w].job, "success") \/ UNCHANGED tableVars
    /\ UNCHANGED <<breakerVars, up, claimed, jobsCh, held, result, report, historyVars>>

Complete(w) ==
    /\ pc[w] = "complete"
    /\ MarkJobCompleted(held[w].job)
    /\ Goto(w, "report")
    /\ UNCHANGED <<breakerVars, up, claimed, jobsCh, held, result, report, historyVars>>

(* The database refuses: logged, and the row stays as it was. *)
CompleteFails(w) ==
    /\ pc[w] = "complete"
    /\ Goto(w, "report")
    /\ unconfirmed' = unconfirmed \cup {held[w].job}
    /\ UNCHANGED <<tableVars, breakerVars, up, claimed, jobsCh, held, result, report,
                   accepted, hollow, revived, failedRuns, contended>>

LogFailure(w) ==
    /\ pc[w] = "logFailure"
    /\ Goto(w, "reschedule")
    /\ RecordAttempt(held[w].job, result[w]) \/ UNCHANGED tableVars
    /\ UNCHANGED <<breakerVars, up, claimed, jobsCh, held, result, report, historyVars>>

(* A temporary failure waits for its backoff, a permanent one does not. *)
Reschedule(w) ==
    /\ pc[w] = "reschedule"
    /\ MarkJobRetryOrDead(held[w].job, held[w].attempts + 1, result[w] = "temporary_error")
    /\ Goto(w, "report")
    /\ UNCHANGED <<breakerVars, up, claimed, jobsCh, held, result, report, historyVars>>

Release(w) ==
    /\ Goto(w, "idle")
    /\ held' = [held EXCEPT ![w] = NoCopy]
    /\ result' = [result EXCEPT ![w] = "temporary_error"]

RescheduleFails(w) ==
    /\ pc[w] = "reschedule"
    /\ Release(w)
    /\ UNCHANGED <<tableVars, breakerVars, up, claimed, jobsCh, report, historyVars>>

(* last_delivery_status of the user and of the route: two statements whose *)
(* errors are dropped.  Both succeed here, or neither.                     *)
Report(w) ==
    /\ pc[w] = "report"
    /\ \E written \in {{}, {UserOf[held[w].job], RouteOf[held[w].job]}} :
          report' = [t \in Users \cup Routes |->
                       IF t \in written /\ report[t] # "deleted" THEN result[w] ELSE report[t]]
    /\ Release(w)
    /\ UNCHANGED <<tableVars, breakerVars, up, claimed, jobsCh, historyVars>>

SlotStep(w) ==
    \/ Receive(w) \/ Admit(w) \/ Refuse(w) \/ Send(w) \/ MaxAccepts(w)
    \/ \E r \in Failures : MediaFails(w, r) \/ MaxRefuses(w, r)
    \/ ReplyArrives(w) \/ LogSuccess(w) \/ Complete(w)
    \/ LogFailure(w) \/ Reschedule(w) \/ Report(w)

SlotFault(w) == ReplyLost(w) \/ CompleteFails(w) \/ RescheduleFails(w)

-----------------------------------------------------------------------------
(* The process. *)

(* SIGKILL, or SIGTERM: a cancelled context makes every later statement    *)
(* and request fail, so whatever is in the process is lost either way.     *)
Crash ==
    /\ up
    /\ up' = FALSE
    /\ ProcessDown
    /\ consecutiveFailures' = 0 /\ open' = FALSE
    /\ unconfirmed' = unconfirmed \cup {held[w].job : w \in {v \in Slots : pc[v] \in AfterAccept}}
    /\ UNCHANGED <<tableVars, report, accepted, hollow, revived, failedRuns, contended>>

Restart ==
    /\ ~up
    /\ up' = TRUE
    /\ UNCHANGED <<tableVars, breakerVars, claimed, jobsCh, pc, held, result, report, historyVars>>

-----------------------------------------------------------------------------
(* The others. *)

(* The bridge; the foreign key wants the route to exist. *)
Enqueue(j) ==
    /\ report[RouteOf[j]] # "deleted"
    /\ InsertJob(j)
    /\ UNCHANGED <<breakerVars, processVars, report, historyVars>>

OperatorRetry(j) ==
    /\ RetryJobNow(j)
    /\ contended' = contended \cup {j}
    /\ revived' = IF payload[j] THEN revived ELSE revived \cup {j}
    /\ UNCHANGED <<breakerVars, processVars, report, accepted, hollow, failedRuns, unconfirmed>>

OperatorClearCompleted ==
    /\ Completed # {}
    /\ DeleteRows(Completed)
    /\ UNCHANGED <<breakerVars, processVars, report, historyVars>>

OperatorDeleteRoute(r) ==
    /\ report[r] # "deleted"
    /\ DeleteRows({j \in Jobs : RowExists(j) /\ RouteOf[j] = r})
    /\ report' = [report EXCEPT ![r] = "deleted"]
    /\ UNCHANGED <<breakerVars, processVars, historyVars>>

(* Housekeeping touches rows that have not changed for hours or days.  The *)
(* clock here has no hours: a row with a copy still in the process is not  *)
(* that old.                                                               *)
Aged(S) == S # {} /\ \A j \in S : ~InProcess(j)

Housekeeping(S) ==
    /\ Aged(S)
    /\ \/ WipePayloads(S)
       \/ PruneAttempts(S)
       \/ S \subseteq Finished /\ DeleteRows(S)
    /\ UNCHANGED <<breakerVars, processVars, report, historyVars>>

BackoffEnds(j) ==
    /\ BecomeDue(j)
    /\ UNCHANGED <<breakerVars, processVars, report, historyVars>>

BreakerCools ==
    /\ CooldownElapses
    /\ UNCHANGED <<tableVars, processVars, report, historyVars>>

(* A lease runs out on a job nobody works on any more, or under the copy   *)
(* that is still queued or being sent: nothing renews it.                  *)
LeaseLapses(j) ==
    /\ ~InProcess(j) /\ LeaseRunsOut(j)
    /\ UNCHANGED <<breakerVars, processVars, report, historyVars>>

LeaseOverrun(j) ==
    /\ InProcess(j) /\ LeaseRunsOut(j)
    /\ UNCHANGED <<breakerVars, processVars, report, historyVars>>

-----------------------------------------------------------------------------
Progress ==
    \/ \E S \in SUBSET Claimable : ClaimTick(S)
    \/ \E c \in claimed : PushClaimed(c)
    \/ StaleTick
    \/ \E w \in Slots : SlotStep(w)
    \/ Restart
    \/ BreakerCools
    \/ \E j \in Jobs : Enqueue(j) \/ BackoffEnds(j) \/ LeaseLapses(j)

(* What may happen at any time and which nothing promises will happen. *)
Fault ==
    \/ \E S \in SUBSET Claimable : ClaimAnswerLost(S)
    \/ \E w \in Slots : SlotFault(w)
    \/ Crash
    \/ \E j \in Jobs : LeaseOverrun(j)

Admin ==
    \/ \E j \in Jobs : OperatorRetry(j)
    \/ OperatorClearCompleted
    \/ \E r \in Routes : OperatorDeleteRoute(r)
    \/ \E S \in SUBSET Jobs : Housekeeping(S)

Next == Progress \/ Fault \/ Admin

Spec == Init /\ [][Next]_vars

(* The tickers fire, goroutines run, requests end (the HTTP client has a   *)
(* timeout), the clock moves and the process manager restarts the worker.  *)
Fairness ==
    /\ WF_vars(\E S \in SUBSET Claimable : ClaimTick(S))
    /\ WF_vars(\E c \in claimed : PushClaimed(c))
    /\ WF_vars(StaleTick)
    /\ \A w \in Slots : WF_vars(SlotStep(w))
    /\ WF_vars(Restart)
    /\ WF_vars(BreakerCools)
    /\ \A j \in Jobs : WF_vars(BackoffEnds(j)) /\ WF_vars(LeaseLapses(j))

-----------------------------------------------------------------------------
(* Properties. *)

(* A row is "processing" exactly while leased_until is set.  ClaimJobs     *)
(* skips rows that are leased and RequeueStaleProcessing compares          *)
(* leased_until, which NULL never satisfies: were the two ever out of      *)
(* step, a job could sit in the table with nobody allowed to take it.      *)
NoStrandedJob ==
    \A j \in Jobs : status[j] = "processing" <=> lease[j] # "none"

(* Whatever claims that a message went out, MAX did accept it: the row's   *)
(* status and the attempt log agree with the outside world even when       *)
(* several stale copies, the operator and restarts write the same row.     *)
NoFalseSuccess ==
    \A j \in Jobs :
        status[j] = "completed" \/ "success" \in attemptLog[j] => accepted[j] > 0

(* No job is given up cheaply: a dead letter has used its attempts, and    *)
(* each of them was a pass of processOne that really failed (a requeue, a  *)
(* crash or a lost write never spends one).                                *)
DeadLetterEarned ==
    \A j \in Jobs :
        /\ attempts[j] <= failedRuns[j]
        /\ status[j] = "dead_letter" => attempts[j] >= MaxAttempts

(* At most one copy of the job is in the process. *)
InClaimed(j) == \E c \in claimed : c.job = j
InChannel(j) == \E c \in ChannelCopies : c.job = j
InSlots(j)   == \E w \in Slots : Holds(w, j)
SoleCopy(j) ==
    /\ \A c, d \in claimed : c.job = j /\ d.job = j => c = d
    /\ \A i, k \in 1 .. Len(jobsCh) : jobsCh[i].job = j /\ jobsCh[k].job = j => i = k
    /\ \A w, v \in Slots : Holds(w, j) /\ Holds(v, j) => w = v
    /\ ~(InClaimed(j) /\ InChannel(j))
    /\ ~(InClaimed(j) /\ InSlots(j))
    /\ ~(InChannel(j) /\ InSlots(j))

(* Two goroutines work on one job only after its lease ran out under a     *)
(* living copy and StaleTick put it back, or after an operator's retry.    *)
SoleHolder == \A j \in Jobs \ contended : SoleCopy(j)

(* The statements that end processOne are not fenced, and yet: as long as  *)
(* the job has not been contended, the copy in the process agrees with the *)
(* row it is about to overwrite (or the row is gone with its route).       *)
Agrees(c) ==
    \/ status[c.job] = "deleted"
    \/ status[c.job] = "processing" /\ attempts[c.job] = c.attempts

CopiesAreCurrent == \A c \in Copies : c.job \notin contended => Agrees(c)

(* Until somebody contends for it, a job is in one pair of hands at most,  *)
(* and those know the row as it is.                                        *)
OneCurrentCopy == SoleHolder /\ CopiesAreCurrent

(* A recipient sees a message twice only if the job was contended, or if   *)
(* the worker could not write down that MAX had accepted it.               *)
DuplicateHasCause ==
    \A j \in Jobs : accepted[j] > 1 => j \in contended \cup unconfirmed

(* Only an operator's retry of a row whose payload housekeeping has wiped  *)
(* sends the "no text" placeholder: no late copy reopens a wiped row, and  *)
(* none is claimed again as stale.                                         *)
NoHollowMessage == hollow \subseteq revived

(* A finished row is reopened, and an attempt count falls back, only when  *)
(* the job was contended.                                                  *)
FinishedIsFinal ==
    [][\A j \in Jobs \ contended' :
          /\ status[j] \in {"completed", "dead_letter"} => status'[j] \in {status[j], "deleted"}
          /\ attempts'[j] < attempts[j] => status'[j] = "deleted"]_vars

(* Every job in the queue is settled in the end. *)
EveryJobSettles ==
    \A j \in Jobs : status[j] \in {"pending", "retry", "processing"}
                    ~> status[j] \in {"completed", "dead_letter", "deleted"}

(* The loop comes back to its tickers: however full stale copies make the  *)
(* channel, the send it sits in ends.  Only goroutines make room, so none  *)
(* of them may wait for the loop.                                          *)
LoopComesBack == claimed # {} ~> claimed = {}

-----------------------------------------------------------------------------
(* The queue keeps the promise of AtLeastOnce. *)

Stage(s) == CASE s \in {"pending", "retry", "processing"} -> "open"
              [] s = "completed"   -> "done"
              [] s = "dead_letter" -> "dead"
              [] s = "deleted"     -> "removed"
              [] OTHER             -> "none"

Promise == INSTANCE AtLeastOnce
    WITH Messages <- Jobs,
         stage <- [j \in Jobs |-> Stage(status[j])],
         received <- accepted,
         tries <- failedRuns,
         disturbed <- contended \cup unconfirmed

ImplementsPromise == Promise!ASpec

-----------------------------------------------------------------------------
(* What the documents say and the code does not do. *)

(* docs/project-context.md:57: "Permanent/exhausted -> `dead_letter`". *)
PermanentGoesDead ==
    [][\A w \in Slots :
          pc[w] = "reschedule" /\ pc'[w] = "report" /\ result[w] = "permanent_error"
          => status'[held[w].job] \in {"dead_letter", "deleted"}]_vars
=============================================================================
