------------------------------ MODULE Pipeline ------------------------------
(***************************************************************************)
(* From Telegram to MAX: the webhook of the bridge and its transactions    *)
(* (Ingress), and behind them the queue as AtLeastOnce describes it, which *)
(* DeliveryWorker implements.  The two processes meet in the rows of       *)
(* delivery_jobs: a committed transaction puts them in, the worker settles *)
(* them, and a deleted route takes its rows with it.                       *)
(***************************************************************************)
EXTENDS Ingress

CONSTANT MaxAttempts

ASSUME MaxAttemptsIsInt == MaxAttempts \in Int

VARIABLES stage, received, tries, disturbed    \* of the jobs, see AtLeastOnce

queueVars == <<stage, received, tries, disturbed>>
pipeVars  == <<vars, queueVars>>

(* The first and the second job queued for a route and an update. *)
Jobs == Pairs \X {1, 2}

Queue == INSTANCE AtLeastOnce WITH Messages <- Jobs

JobsOfRoute(r) == {j \in Jobs : j[1][1] = r}

PInit == Init /\ Queue!AInit

-----------------------------------------------------------------------------
(* The rows a step of the bridge commits: `queued' tells how many a pair   *)
(* has had, and counts to 2.                                               *)
Inserted == {j \in Jobs : queued[j[1]] < j[2] /\ j[2] <= queued'[j[1]]}

BridgeSteps(A) == A /\ Queue!Accept(Inserted) /\ UNCHANGED disturbed

DeleteRouteAndJobs(r) ==
    /\ OperatorDeletesRoute(r)
    /\ Queue!Remove({j \in JobsOfRoute(r) : Queue!Stored(j)})
    /\ UNCHANGED disturbed

-----------------------------------------------------------------------------
(* The worker.  MAX takes a message, or a pass over it fails. *)

Try(j) ==
    /\ Queue!Deliver(j) \/ (tries[j] < MaxAttempts /\ Queue!Fail(j))
    /\ UNCHANGED <<vars, disturbed>>

TryOpen(j) == stage[j] = "open" /\ received[j] = 0 /\ Try(j)

(* A mutant: a success is logged and not written to the row. *)
NeverComplete_M(j) ==
    /\ stage[j] = "open"
    /\ Queue!GiveUp(j)
    /\ UNCHANGED <<vars, disturbed>>

Settle(j) ==
    /\ stage[j] = "open"
    /\ Queue!Finish(j) \/ Queue!GiveUp(j)
    /\ UNCHANGED <<vars, disturbed>>

(* A copy is sent once more, because nobody heard that MAX took it or the  *)
(* row is settled behind its back, or it overwrites a row that is settled. *)
StaleCopy(j) ==
    \/ (received[j] > 0 \/ stage[j] # "open") /\ Try(j)
    \/ /\ Queue!Settled(j)
       /\ Queue!Finish(j) \/ Queue!GiveUp(j)
       /\ UNCHANGED <<vars, disturbed>>

(* The lease runs out under a living copy and StaleTick requeues the job,  *)
(* or nobody gets to write down that MAX took it.                          *)
Disturb(j) ==
    /\ stage[j] # "none"
    /\ disturbed' = disturbed \cup {j}
    /\ UNCHANGED <<vars, stage, received, tries>>

(* The operator's retry, or a disturbed copy's reschedule, of a settled row. *)
PutBack(j) ==
    /\ Queue!Reopen(j)
    /\ disturbed' = disturbed \cup {j}
    /\ UNCHANGED vars

RetireAny_M(S) ==
    /\ S # {} /\ S \subseteq {j \in Jobs : Queue!Stored(j)}
    /\ Queue!Remove(S)
    /\ UNCHANGED <<vars, disturbed>>

(* Housekeeping, and the operator clearing the completed. *)
Retire(S) ==
    /\ S # {} /\ S \subseteq {j \in Jobs : Queue!Settled(j)}
    /\ Queue!Remove(S)
    /\ UNCHANGED <<vars, disturbed>>

WorkerStep == \E j \in Jobs : TryOpen(j) \/ Settle(j)

Contention == \E j \in Jobs : Disturb(j) \/ PutBack(j) \/ StaleCopy(j)

PNext ==
    \/ BridgeSteps(Progress \/ Fault \/ Crash \/ Connect)
    \/ BridgeSteps(Disconnect \/ \E c \in Chats : OperatorDisablesGroup(c))
    \/ BridgeSteps(\E S \in SUBSET Pairs : PruneDedupe(S))
    \/ \E r \in RouteIds : DeleteRouteAndJobs(r)
    \/ WorkerStep
    \/ Contention
    \/ \E S \in SUBSET Jobs : Retire(S)

PSpec == PInit /\ [][PNext]_pipeVars

(* EveryJobSettles of DeliveryWorker: open jobs are tried, and written     *)
(* down as what the tries have made of them.                               *)
PFairness == Fairness /\ WF_pipeVars(WorkerStep)

-----------------------------------------------------------------------------
(* Properties. *)

JobsFor(r, u) == {j \in Jobs : j[1] = <<r, u>> /\ stage[j] # "none"}

(* The end-to-end promise of a 200 (README.md:9, at-least-once): whoever   *)
(* wanted the update all along has it, is about to get it, or cost the     *)
(* worker all its attempts; only a deleted route takes messages with it.   *)
NothingLost ==
    \A u \in Updates : inbox[u] = "acked" =>
        \A r \in owed[u] : \E j \in JobsFor(r, u) :
            \/ received[j] > 0 \/ stage[j] = "open" \/ tries[j] >= MaxAttempts
            \/ routeState[r] = "deleted"

(* One person gets one update twice for three reasons only.  Its job was   *)
(* disturbed: put back by the operator, claimed again as stale under a     *)
(* living copy, or accepted without anybody writing that down.  Or it had  *)
(* two jobs, because the dedupe record of the first one expired, or        *)
(* because the route was deleted and added again: the dedupe key is about  *)
(* the route's id (docs/adr/0001-architecture.md:39).                      *)
SentAgain(j) == received[j] > 1

SentTwice(i, j) ==
    /\ i # j /\ received[i] > 0 /\ received[j] > 0
    /\ i[1][2] = j[1][2] /\ UserOf[i[1][1]] = UserOf[j[1][1]]

TwiceHasCause ==
    /\ \A j \in Jobs : SentAgain(j) => j \in disturbed
    /\ \A i, j \in Jobs : SentTwice(i, j) =>
          \/ i[1] \in pruned
          \/ routeState[i[1][1]] = "deleted" \/ routeState[j[1][1]] = "deleted"

SettledFor(u) ==
    \A r \in owed[u] : \E j \in JobsFor(r, u) : stage[j] # "open"

(* An update is acknowledged in the end, and every message it owes is      *)
(* delivered, dead or gone with its route.                                 *)
EveryUpdateSettles ==
    \A u \in Updates : inbox[u] = "open" ~> inbox[u] = "acked" /\ SettledFor(u)
=============================================================================
