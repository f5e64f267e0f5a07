----------------------- MODULE DeliveryPromiseProofs -----------------------
(***************************************************************************)
(* When two goroutines can work on one job, why a recipient can get a      *)
(* message twice or empty, and that the queue implements AtLeastOnce.      *)
(***************************************************************************)
EXTENDS DeliveryWorkerProofs

(* Where a copy can sit. *)
LEMMA WhereCopiesAre ==
    ASSUME NEW j
    PROVE  InProcess(j) <=> InClaimed(j) \/ InChannel(j) \/ InSlots(j)
  BY DEF InProcess, InClaimed, InChannel, InSlots, Holds, Copies

(* The goroutine that has written its row keeps no copy of it. *)
LEMMA CopyLeaves ==
    ASSUME TypeOK, NEW w \in Slots, NEW j, Complete(w) \/ Reschedule(w), held[w].job = j, SoleCopy(j)
    PROVE  \A c \in Copies' : c.job # j
  <1>1. Holds(w, j) /\ InSlots(j)
    BY DEF Complete, Reschedule, Holds, Working, DoneWithJob, InSlots
  <1>2. ~InClaimed(j) /\ ~InChannel(j) /\ \A v \in Slots : Holds(v, j) => v = w
    BY <1>1 DEF SoleCopy
  <1>3. /\ claimed' = claimed /\ ChannelCopies' = ChannelCopies /\ held' = held
        /\ pc' = [pc EXCEPT ![w] = "report"]
    BY DEF Complete, Reschedule, Goto, ChannelCopies
  <1>4. \A v \in Slots : Working(v)' => Working(v) /\ v # w
    BY <1>3 DEF Working, DoneWithJob, TypeOK, ProcessTypeOK
  <1> QED
    BY <1>2, <1>3, <1>4 DEF Copies, InClaimed, InChannel, Holds

-----------------------------------------------------------------------------
(* One step keeps the copies of a job single, unless the loop claims it a  *)
(* second time.                                                            *)
LEMMA SoleStep ==
    ASSUME TypeOK, [Next]_vars, NEW j, SoleCopy(j),
           \A S \in SUBSET Claimable : ClaimTick(S) /\ j \in S => ~InProcess(j)
    PROVE  SoleCopy(j)'
  <1> USE DEF Holds, Working, DoneWithJob
  <1>1. ASSUME NEW S \in SUBSET Claimable, ClaimTick(S)
        PROVE  SoleCopy(j)'
    <2>1. claimed = {} /\ claimed' = {CopyOf(i) : i \in S} /\ UNCHANGED <<jobsCh, pc, held>>
      BY <1>1 DEF ClaimTick
    <2>2. \A c, d \in claimed' : c.job = j /\ d.job = j => c = d
      BY <2>1 DEF CopyOf
    <2>3. CASE j \in S
      <3>1. ~InChannel(j) /\ ~InSlots(j)
        BY <1>1, <2>3, WhereCopiesAre
      <3> QED
        BY <2>1, <2>2, <3>1 DEF SoleCopy, InChannel, InSlots, ChannelCopies
    <2>4. CASE j \notin S
      <3>1. \A c \in claimed' : c.job # j
        BY <2>1, <2>4 DEF CopyOf
      <3> QED
        BY <2>1, <3>1 DEF SoleCopy, InClaimed, InChannel, InSlots, ChannelCopies
    <2> QED
      BY <2>3, <2>4
  <1>2. ASSUME NEW c \in claimed, PushClaimed(c)
        PROVE  SoleCopy(j)'
    <2>1. /\ claimed' = claimed \ {c} /\ jobsCh' = Append(jobsCh, c) /\ UNCHANGED <<pc, held>>
          /\ Len(jobsCh') = Len(jobsCh) + 1 /\ jobsCh'[Len(jobsCh) + 1] = c
          /\ \A i \in 1 .. Len(jobsCh) : jobsCh'[i] = jobsCh[i]
      BY <1>2 DEF PushClaimed, TypeOK, ProcessTypeOK
    <2>2. Len(jobsCh) \in Nat
      BY DEF TypeOK, ProcessTypeOK
    <2>3. CASE c.job = j
      <3>1. InClaimed(j) /\ ~InChannel(j) /\ ~InSlots(j)
        BY <2>3 DEF SoleCopy, InClaimed
      <3>2. \A i \in 1 .. Len(jobsCh) : jobsCh[i].job # j
        BY <3>1 DEF InChannel, ChannelCopies
      <3>3. \A i, k \in 1 .. Len(jobsCh') : jobsCh'[i].job = j /\ jobsCh'[k].job = j => i = k
        BY <2>1, <2>2, <3>2
      <3>4. \A d \in claimed' : d.job # j
        BY <2>1, <2>3 DEF SoleCopy
      <3>5. ~InSlots(j)' /\ ~InClaimed(j)'
        BY <2>1, <3>1, <3>4 DEF InSlots, InClaimed
      <3>6. \A w, v \in Slots : Holds(w, j)' /\ Holds(v, j)' => w = v
        BY <2>1 DEF SoleCopy
      <3> QED
        BY <3>3, <3>4, <3>5, <3>6 DEF SoleCopy
    <2>4. CASE c.job # j
      <3>1. \A i \in 1 .. Len(jobsCh') : jobsCh'[i].job = j => i \in 1 .. Len(jobsCh) /\ jobsCh[i].job = j
        BY <2>1, <2>2, <2>4
      <3>2. \A i, k \in 1 .. Len(jobsCh') : jobsCh'[i].job = j /\ jobsCh'[k].job = j => i = k
        BY <3>1 DEF SoleCopy
      <3>3. InChannel(j)' => InChannel(j)
        BY <3>1 DEF InChannel, ChannelCopies
      <3>4. (InClaimed(j)' => InClaimed(j)) /\ (InSlots(j)' <=> InSlots(j))
        BY <2>1 DEF InClaimed, InSlots
      <3>5. \A c1, d1 \in claimed' : c1.job = j /\ d1.job = j => c1 = d1
        BY <2>1 DEF SoleCopy
      <3>6. \A w, v \in Slots : Holds(w, j)' /\ Holds(v, j)' => w = v
        BY <2>1 DEF SoleCopy
      <3> QED
        BY <3>2, <3>3, <3>4, <3>5, <3>6 DEF SoleCopy
    <2> QED
      BY <2>3, <2>4
  <1>3. ASSUME NEW w \in Slots, Receive(w)
        PROVE  SoleCopy(j)'
    <2>1. /\ Len(jobsCh) > 0 /\ Head(jobsCh) = jobsCh[1]
          /\ Len(jobsCh') = Len(jobsCh) - 1
          /\ \A i \in 1 .. Len(jobsCh') : i + 1 \in 1 .. Len(jobsCh) /\ jobsCh'[i] = jobsCh[i + 1]
          /\ claimed' = claimed
      BY <1>3 DEF Receive, TypeOK, ProcessTypeOK
    <2>2. /\ ~Working(w) /\ Working(w)' /\ held'[w] = Head(jobsCh)
          /\ \A v \in Slots \ {w} : Working(v)' = Working(v) /\ held'[v] = held[v]
      BY <1>3 DEF Receive, TypeOK, ProcessTypeOK
    <2>3. Len(jobsCh) \in Nat
      BY DEF TypeOK, ProcessTypeOK
    <2>4. \A i, k \in 1 .. Len(jobsCh') : jobsCh'[i].job = j /\ jobsCh'[k].job = j => i = k
      <3> SUFFICES ASSUME NEW i \in 1 .. Len(jobsCh'), NEW k \in 1 .. Len(jobsCh'),
                          jobsCh'[i].job = j, jobsCh'[k].job = j
                   PROVE  i = k
        OBVIOUS
      <3>1. i + 1 = k + 1
        BY <2>1 DEF SoleCopy
      <3> QED
        BY <2>1, <2>3, <3>1
    <2>5. InChannel(j)' => InChannel(j)
      BY <2>1 DEF InChannel, ChannelCopies
    <2>6. InClaimed(j)' <=> InClaimed(j)
      BY <2>1 DEF InClaimed
    <2>7. CASE Head(jobsCh).job = j
      <3>1. InChannel(j)
        BY <2>1, <2>3, <2>7 DEF InChannel, ChannelCopies
      <3>2. ~InSlots(j) /\ ~InClaimed(j)
        BY <3>1 DEF SoleCopy
      <3>3. \A v \in Slots : Holds(v, j)' => v = w
        BY <2>2, <3>2 DEF InSlots
      <3>4. ~InChannel(j)'
        <4> SUFFICES ASSUME NEW i \in 1 .. Len(jobsCh'), jobsCh'[i].job = j
                     PROVE  FALSE
          BY DEF InChannel, ChannelCopies
        <4>1. i + 1 = 1
          BY <2>1, <2>3, <2>7 DEF SoleCopy
        <4> QED
          BY <2>1, <2>3, <4>1
      <3>5. \A c, d \in claimed' : c.job = j /\ d.job = j => c = d
        BY <2>1 DEF SoleCopy
      <3> QED
        BY <2>4, <2>6, <3>2, <3>3, <3>4, <3>5 DEF SoleCopy
    <2>8. CASE Head(jobsCh).job # j
      <3>1. \A v \in Slots : Holds(v, j)' => Holds(v, j)
        BY <2>2, <2>8
      <3>2. InSlots(j)' => InSlots(j)
        BY <3>1 DEF InSlots
      <3>3. \A c, d \in claimed' : c.job = j /\ d.job = j => c = d
        BY <2>1 DEF SoleCopy
      <3> QED
        BY <2>4, <2>5, <2>6, <3>1, <3>2, <3>3 DEF SoleCopy
    <2> QED
      BY <2>7, <2>8
  <1>4. ASSUME UNCHANGED <<claimed, jobsCh>>, \A v \in Slots : Holds(v, j)' => Holds(v, j)
        PROVE  SoleCopy(j)'
    BY <1>4 DEF SoleCopy, InClaimed, InChannel, InSlots, ChannelCopies
  <1>5. ASSUME NEW w \in Slots, SlotStep(w) \/ SlotFault(w), ~Receive(w)
        PROVE  SoleCopy(j)'
    <2>1. UNCHANGED <<claimed, jobsCh>>
      BY <1>5 DEF SlotStep, SlotFault, Admit, Refuse, Send, MaxAccepts, MediaFails, MaxRefuses,
                  ReplyArrives, ReplyLost, LogSuccess, Complete, CompleteFails, LogFailure,
                  Reschedule, RescheduleFails, Report, FailRun
    <2>2. Working(w)' => Working(w) /\ held' = held
      BY <1>5 DEF SlotStep, SlotFault, Admit, Refuse, Send, MaxAccepts, MediaFails, MaxRefuses,
                  ReplyArrives, ReplyLost, LogSuccess, Complete, CompleteFails, LogFailure,
                  Reschedule, RescheduleFails, Report, Release, FailRun, Goto, TypeOK, ProcessTypeOK
    <2>3. \A v \in Slots \ {w} : Working(v)' => Working(v) /\ held'[v] = held[v]
      BY <1>5 DEF SlotStep, SlotFault, Admit, Refuse, Send, MaxAccepts, MediaFails, MaxRefuses,
                  ReplyArrives, ReplyLost, LogSuccess, Complete, CompleteFails, LogFailure,
                  Reschedule, RescheduleFails, Report, Release, FailRun, Goto, TypeOK, ProcessTypeOK
    <2>4. \A v \in Slots : Holds(v, j)' => Holds(v, j)
      BY <2>2, <2>3
    <2> QED
      BY <1>4, <2>1, <2>4
  <1>6. ASSUME Crash
        PROVE  SoleCopy(j)'
    <2>1. claimed' = {} /\ jobsCh' = <<>> /\ \A v \in Slots : ~Working(v)'
      BY <1>6 DEF Crash, ProcessDown
    <2>2. 1 .. Len(jobsCh') = {}
      BY <2>1
    <2> QED
      BY <2>1, <2>2 DEF SoleCopy, InClaimed, InChannel, InSlots, ChannelCopies
  <1>7. ASSUME \/ \E S \in SUBSET Claimable : ClaimAnswerLost(S)
               \/ \E i \in Jobs : \/ Enqueue(i) \/ BackoffEnds(i) \/ LeaseLapses(i)
                                  \/ LeaseOverrun(i) \/ OperatorRetry(i)
               \/ \E r \in Routes : OperatorDeleteRoute(r)
               \/ \E S \in SUBSET Jobs : Housekeeping(S)
               \/ StaleTick \/ OperatorClearCompleted \/ BreakerCools \/ Restart \/ UNCHANGED vars
        PROVE  SoleCopy(j)'
    <2>1. UNCHANGED <<claimed, jobsCh, pc, held>>
      BY <1>7 DEF ClaimAnswerLost, Enqueue, BackoffEnds, LeaseLapses, LeaseOverrun, OperatorRetry,
                  OperatorDeleteRoute, Housekeeping, StaleTick, OperatorClearCompleted, BreakerCools,
                  Restart, vars, processVars
    <2> QED
      BY <1>4, <2>1
  <1> QED
    BY <1>1, <1>2, <1>3, <1>5, <1>6, <1>7 DEF Next, Progress, Fault, Admin

-----------------------------------------------------------------------------
(* As long as nobody contends for the job, its row follows its copy. *)
LEMMA RowFollowsCopy ==
    ASSUME TypeOK, CopiesAreCurrent, [Next]_vars, NEW c \in Copies, c.job \notin contended'
    PROVE  \/ Agrees(c)'
           \/ \E w \in Slots : (Complete(w) \/ Reschedule(w)) /\ held[w].job = c.job
  <1>1. c.job \in Jobs /\ Agrees(c) /\ InProcess(c.job)
    BY CopiesAreCopies, HistoryGrows DEF CopiesAreCurrent, InProcess
  <1>2. RowMoves(c.job)
    BY <1>1, EveryRowMoves
  <1>3. ~(StaleTick /\ c.job \in Stale)
    BY <1>1 DEF StaleTick
  <1>4. ~OperatorRetry(c.job)
    BY DEF OperatorRetry
  <1>5. CASE status'[c.job] = status[c.job] /\ attempts'[c.job] = attempts[c.job]
    BY <1>1, <1>5 DEF Agrees
  <1>6. CASE status'[c.job] = "deleted"
    BY <1>6 DEF Agrees
  <1> QED
    BY <1>1, <1>2, <1>3, <1>4, <1>5, <1>6 DEF RowMoves, Agrees

(* Inductive: the two of them need each other. *)
LEMMA ContentionStep ==
    ASSUME TypeOK, SoleHolder, CopiesAreCurrent, [Next]_vars
    PROVE  SoleHolder' /\ CopiesAreCurrent'
  <1>1. ASSUME NEW S \in SUBSET Claimable, ClaimTick(S), NEW j \in S, j \notin contended
        PROVE  ~InProcess(j)
    <2>1. status[j] \in {"pending", "retry"}
      BY DEF Claimable
    <2> QED
      BY <1>1, <2>1 DEF InProcess, CopiesAreCurrent, Agrees
  <1>2. ASSUME NEW j \in Jobs \ contended'
        PROVE  SoleCopy(j)'
    <2>1. j \notin contended /\ SoleCopy(j)
      BY HistoryGrows DEF SoleHolder
    <2> QED
      BY <1>1, <2>1, SoleStep
  <1>3. ASSUME NEW c \in Copies', c.job \notin contended'
        PROVE  Agrees(c)'
    <2>1. CASE c \in Copies
      <3>1. c.job \in Jobs /\ c.job \notin contended
        BY <1>3, <2>1, CopiesAreCopies, HistoryGrows
      <3>2. SoleCopy(c.job)
        BY <3>1 DEF SoleHolder
      <3>3. ~\E w \in Slots : (Complete(w) \/ Reschedule(w)) /\ held[w].job = c.job
        BY <3>2, CopyLeaves
      <3> QED
        BY <1>3, <2>1, <3>3, RowFollowsCopy
    <2>2. ASSUME NEW S \in SUBSET Claimable, ClaimTick(S), NEW j \in S, c = CopyOf(j)
          PROVE  Agrees(c)'
      <3>1. c.job = j /\ c.attempts = attempts[j] /\ j \in Jobs
        BY <2>2 DEF CopyOf, Claimable
      <3>2. status'[j] = "processing" /\ attempts'[j] = attempts[j]
        BY <2>2, <3>1 DEF ClaimTick, ClaimJobs
      <3> QED
        BY <3>1, <3>2 DEF Agrees
    <2> QED
      BY <2>1, <2>2, CopiesStep
  <1> QED
    BY <1>2, <1>3 DEF SoleHolder, CopiesAreCurrent

LEMMA ContentionInit == Init => SoleHolder /\ CopiesAreCurrent /\ Copies = {}
  <1> SUFFICES ASSUME Init PROVE SoleHolder /\ CopiesAreCurrent /\ Copies = {}
    OBVIOUS
  <1>1. claimed = {} /\ jobsCh = <<>> /\ \A w \in Slots : ~Working(w)
    BY DEF Init, Working, DoneWithJob
  <1>2. 1 .. Len(jobsCh) = {}
    BY <1>1
  <1>3. Copies = {}
    BY <1>1, <1>2 DEF Copies, ChannelCopies
  <1>4. ASSUME NEW j
        PROVE  SoleCopy(j)
    BY <1>1, <1>2 DEF SoleCopy, InClaimed, InChannel, InSlots, ChannelCopies, Holds
  <1> QED
    BY <1>3, <1>4 DEF SoleHolder, CopiesAreCurrent

(* At most one goroutine works on a job, and what it is about to write     *)
(* agrees with the row, until the operator retries the job or StaleTick    *)
(* requeues it under a living copy.  Nothing else (crashes, restarts, lost *)
(* answers, failed statements, deletions) can bring two copies about.      *)
THEOREM OneHolder == Spec => []OneCurrentCopy
  <1>1. TypeOK /\ OneCurrentCopy /\ [Next]_vars => OneCurrentCopy'
    BY ContentionStep DEF OneCurrentCopy
  <1>2. Init => OneCurrentCopy
    BY ContentionInit DEF OneCurrentCopy
  <1> QED
    BY <1>1, <1>2, TypeCorrect, PTL DEF Spec

-----------------------------------------------------------------------------
(* A step that reopens a finished row, or takes an attempt back, contends. *)
LEMMA FinalStep ==
    ASSUME TypeOK, SoleHolder, CopiesAreCurrent, [Next]_vars, NEW j \in Jobs \ contended'
    PROVE  /\ status[j] \in {"completed", "dead_letter"} => status'[j] \in {status[j], "deleted"}
           /\ attempts'[j] < attempts[j] => status'[j] = "deleted"
  <1>1. RowMoves(j) /\ attempts[j] \in Int
    BY EveryRowMoves DEF TypeOK, TableTypeOK
  <1>2. ~OperatorRetry(j)
    BY DEF OperatorRetry
  <1>3. ~(j \in Stale /\ status[j] \in {"completed", "dead_letter"})
    BY DEF Stale
  <1>4. ASSUME NEW w \in Slots, Complete(w) \/ Reschedule(w), held[w].job = j, status[j] # "deleted"
        PROVE  status[j] = "processing" /\ attempts[j] = held[w].attempts
    <2>1. held[w] \in Copies
      BY <1>4 DEF Complete, Reschedule, Copies, Working, DoneWithJob
    <2>2. j \notin contended
      BY HistoryGrows
    <2> QED
      BY <1>4, <2>1, <2>2 DEF CopiesAreCurrent, Agrees
  <1> QED
    BY <1>1, <1>2, <1>3, <1>4 DEF RowMoves

(* A finished row stays finished and attempts never fall back, unless the  *)
(* job has been contended.                                                 *)
THEOREM FinishedStaysFinished == Spec => FinishedIsFinal
  <1>1. TypeOK /\ OneCurrentCopy /\ [Next]_vars
        => [\A j \in Jobs \ contended' :
              /\ status[j] \in {"completed", "dead_letter"} => status'[j] \in {status[j], "deleted"}
              /\ attempts'[j] < attempts[j] => status'[j] = "deleted"]_vars
    BY FinalStep DEF OneCurrentCopy
  <1> QED
    BY <1>1, TypeCorrect, OneHolder, PTL DEF Spec, FinishedIsFinal

-----------------------------------------------------------------------------
Open == {"pending", "retry", "processing"}

(* MAX accepts at one place of the program. *)
LEMMA WhoAccepts ==
    ASSUME [Next]_vars
    PROVE  UNCHANGED <<accepted, hollow>> \/ \E w \in Slots : MaxAccepts(w)
  <1> USE DEF historyVars
  <1>1. ASSUME NEW S \in SUBSET Claimable, ClaimTick(S) \/ ClaimAnswerLost(S)
        PROVE  UNCHANGED <<accepted, hollow>>
    BY <1>1 DEF ClaimTick, ClaimAnswerLost
  <1>2. CASE (\E c \in claimed : PushClaimed(c)) \/ StaleTick
    BY <1>2 DEF PushClaimed, StaleTick
  <1>3. ASSUME NEW i \in Jobs,
               \/ Enqueue(i) \/ BackoffEnds(i) \/ LeaseLapses(i)
               \/ LeaseOverrun(i) \/ OperatorRetry(i)
        PROVE  UNCHANGED <<accepted, hollow>>
    BY <1>3 DEF Enqueue, BackoffEnds, LeaseLapses, LeaseOverrun, OperatorRetry
  <1>4. CASE (\E r \in Routes : OperatorDeleteRoute(r)) \/ (\E S \in SUBSET Jobs : Housekeeping(S))
    BY <1>4 DEF OperatorDeleteRoute, Housekeeping
  <1>5. CASE OperatorClearCompleted \/ BreakerCools \/ Restart \/ Crash \/ UNCHANGED vars
    BY <1>5 DEF OperatorClearCompleted, BreakerCools, Restart, Crash, vars
  <1>6. ASSUME NEW w \in Slots, SlotStep(w) \/ SlotFault(w), ~MaxAccepts(w)
        PROVE  UNCHANGED <<accepted, hollow>>
    BY <1>6 DEF SlotStep, SlotFault, Receive, Admit, Refuse, Send, MediaFails, MaxRefuses,
                ReplyArrives, ReplyLost, LogSuccess, Complete, CompleteFails, LogFailure,
                Reschedule, RescheduleFails, Report, FailRun
  <1> QED
    BY <1>1, <1>2, <1>3, <1>4, <1>5, <1>6 DEF Next, Progress, Fault, Admin

(* Whoever has MAX accept a job works on it. *)
LEMMA AcceptsItsOwn ==
    ASSUME TypeOK, NEW w \in Slots, MaxAccepts(w), NEW j \in Jobs
    PROVE  /\ held[w].job # j => accepted'[j] = accepted[j]
           /\ held[w].job = j => /\ Holds(w, j) /\ Holds(w, j)' /\ pc'[w] \in AfterAccept
                                 /\ held[w] \in Copies
                                 /\ accepted[j] = 0 => accepted'[j] = 1
  <1>1. held[w].job \in Jobs
    BY HeldIsCopy DEF MaxAccepts
  <1>2. accepted' = [accepted EXCEPT ![held[w].job] = IF @ = 0 THEN 1 ELSE 2]
    BY DEF MaxAccepts
  <1>3. Working(w) /\ pc' = [pc EXCEPT ![w] = "replying"] /\ held' = held
    BY DEF MaxAccepts, Goto, Working, DoneWithJob
  <1>4. pc'[w] = "replying"
    BY <1>3 DEF TypeOK, ProcessTypeOK
  <1> QED
    BY <1>1, <1>2, <1>3, <1>4
       DEF Holds, Working, DoneWithJob, Copies, AfterAccept, TypeOK, HistoryTypeOK

-----------------------------------------------------------------------------
(* Inductive: a job MAX has accepted, and of which nothing went wrong, is  *)
(* with the goroutine that had it accepted, or out of everybody's hands.   *)
WithItsSender(j)  == \E w \in Slots : Holds(w, j) /\ pc[w] \in AfterAccept
OutOfHands(j)     == status[j] \in {"completed", "deleted"} /\ ~InProcess(j)
SentOnce(j)       == accepted[j] = 0 \/ (accepted[j] = 1 /\ (WithItsSender(j) \/ OutOfHands(j)))
OneMessage        == \A j \in Jobs \ (contended \cup unconfirmed) : SentOnce(j)

(* Between the acceptance and the row, a goroutine either goes on to write *)
(* the row or leaves the job unconfirmed.                                  *)
LEMMA SenderStep ==
    ASSUME TypeOK, OneCurrentCopy, [Next]_vars, NEW j \in Jobs, j \notin contended \cup unconfirmed',
           WithItsSender(j)
    PROVE  WithItsSender(j)' \/ OutOfHands(j)'
  <1> PICK w \in Slots : Holds(w, j) /\ pc[w] \in AfterAccept
    BY DEF WithItsSender
  <1> USE DEF Holds, AfterAccept
  <1>1. CASE pc'[w] = pc[w] /\ held'[w] = held[w]
    BY <1>1 DEF WithItsSender, Working, DoneWithJob
  <1>2. CASE ReplyArrives(w) \/ LogSuccess(w)
    <2>1. pc'[w] \in {"logSuccess", "complete"} /\ held' = held
      BY <1>2 DEF ReplyArrives, LogSuccess, Goto, TypeOK, ProcessTypeOK
    <2> QED
      BY <2>1 DEF WithItsSender, Working, DoneWithJob
  <1>3. CASE Complete(w)
    <2>1. SoleCopy(j)
      BY DEF OneCurrentCopy, SoleHolder
    <2>2. ~InProcess(j)'
      BY <1>3, <2>1, CopyLeaves DEF InProcess
    <2>3. held[w] \in Copies
      BY DEF Copies
    <2>4. status[j] \in {"processing", "deleted"}
      BY <2>3 DEF OneCurrentCopy, CopiesAreCurrent, Agrees
    <2>5. MarkJobCompleted(j)
      BY <1>3 DEF Complete
    <2>6. status'[j] \in {"completed", "deleted"}
      BY <2>4, <2>5 DEF MarkJobCompleted, RowExists, RowStatus, TypeOK, TableTypeOK
    <2> QED
      BY <2>2, <2>6 DEF OutOfHands
  <1>4. ~ReplyLost(w) /\ ~CompleteFails(w)
    BY DEF ReplyLost, CompleteFails
  <1>5. ~Crash
    BY DEF Crash
  <1>6. ~\/ Receive(w) \/ Admit(w) \/ Refuse(w) \/ Send(w) \/ MaxAccepts(w)
         \/ \E r \in Failures : MediaFails(w, r) \/ MaxRefuses(w, r)
         \/ LogFailure(w) \/ Reschedule(w) \/ Report(w) \/ RescheduleFails(w)
    BY DEF Receive, Admit, Refuse, Send, MaxAccepts, MediaFails, MaxRefuses, LogFailure, Reschedule,
           Report, RescheduleFails
  <1> QED
    BY <1>1, <1>2, <1>3, <1>4, <1>5, <1>6, OwnSteps DEF SlotStep, SlotFault

LEMMA OutStaysOut ==
    ASSUME TypeOK, [Next]_vars, NEW j \in Jobs, ~OperatorRetry(j), OutOfHands(j)
    PROVE  OutOfHands(j)'
  <1>1. \A S \in SUBSET Claimable : j \notin S
    BY DEF OutOfHands, Claimable
  <1>2. ~InProcess(j)'
    <2> SUFFICES ASSUME NEW c \in Copies', c.job = j
                 PROVE  FALSE
      BY DEF InProcess
    <2> QED
      BY <1>1, CopiesStep DEF OutOfHands, InProcess, CopyOf
  <1>3. ~\E w \in Slots : (Complete(w) \/ Reschedule(w)) /\ held[w].job = j
    BY DEF OutOfHands, InProcess, Copies, Complete, Reschedule, Working, DoneWithJob
  <1>4. j \notin Stale
    BY DEF OutOfHands, Stale
  <1>5. status'[j] \in {"completed", "deleted"}
    BY <1>3, <1>4, EveryRowMoves DEF RowMoves, OutOfHands
  <1> QED
    BY <1>2, <1>5 DEF OutOfHands

(* Whoever is about to have a job accepted that MAX has already accepted   *)
(* is a second copy, or works on a job that was put back.                  *)
LEMMA SecondHasCause ==
    ASSUME TypeOK, OneCurrentCopy, OneMessage, NEW w \in Slots, MaxAccepts(w)
    PROVE  accepted[held[w].job] > 0 => held[w].job \in contended \cup unconfirmed
  <1> SUFFICES ASSUME NEW j \in Jobs \ (contended \cup unconfirmed), held[w].job = j
               PROVE  accepted[j] = 0
    BY HeldIsCopy DEF MaxAccepts
  <1>1. Holds(w, j) /\ pc[w] = "sending" /\ held[w] \in Copies
    BY AcceptsItsOwn DEF MaxAccepts
  <1>2. ~OutOfHands(j)
    BY <1>1 DEF OutOfHands, InProcess
  <1>3. ~WithItsSender(j)
    BY <1>1 DEF OneCurrentCopy, SoleHolder, SoleCopy, WithItsSender, AfterAccept
  <1> QED
    BY <1>2, <1>3 DEF OneMessage, SentOnce

LEMMA OneMessageStep ==
    ASSUME TypeOK, OneCurrentCopy, OneMessage, [Next]_vars
    PROVE  OneMessage'
  <1> SUFFICES ASSUME NEW j \in Jobs, j \notin contended', j \notin unconfirmed'
               PROVE  SentOnce(j)'
    BY DEF OneMessage
  <1>1. j \notin contended /\ j \notin unconfirmed
    BY HistoryGrows
  <1>2. SentOnce(j)
    BY <1>1 DEF OneMessage
  <1>3. CASE accepted'[j] = accepted[j]
    <2>1. ~OperatorRetry(j)
      BY DEF OperatorRetry
    <2> QED
      BY <1>1, <1>2, <1>3, <2>1, SenderStep, OutStaysOut DEF SentOnce
  <1>4. ASSUME NEW w \in Slots, MaxAccepts(w), held[w].job = j
        PROVE  SentOnce(j)'
    <2>1. accepted[j] = 0
      BY <1>1, <1>2, <1>4, SecondHasCause DEF SentOnce
    <2>2. accepted'[j] = 1 /\ Holds(w, j)' /\ pc'[w] \in AfterAccept
      BY <1>4, <2>1, AcceptsItsOwn
    <2> QED
      BY <2>2 DEF SentOnce, WithItsSender
  <1> QED
    BY <1>3, <1>4, WhoAccepts, AcceptsItsOwn

LEMMA OneMessageHolds == Spec => []OneMessage
  <1>1. Init => OneMessage
    BY DEF Init, OneMessage, SentOnce
  <1>2. TypeOK /\ OneCurrentCopy /\ OneMessage /\ [Next]_vars => OneMessage'
    BY OneMessageStep
  <1> QED
    BY <1>1, <1>2, TypeCorrect, OneHolder, PTL DEF Spec

(* A message goes out twice only after an operator's retry, after a lease  *)
(* that ran out under a living copy, or after an acceptance that could not *)
(* be written down: nothing else the system does sends a second one.       *)
THEOREM DuplicatesAreExplained == Spec => []DuplicateHasCause
  <1>1. TypeOK /\ OneMessage => DuplicateHasCause
    BY DEF OneMessage, SentOnce, DuplicateHasCause, TypeOK, HistoryTypeOK
  <1> QED
    BY <1>1, TypeCorrect, OneMessageHolds, PTL

-----------------------------------------------------------------------------
(* Only housekeeping empties a row, and only an INSERT makes one. *)
LEMMA WhoWipes ==
    ASSUME TypeOK, [Next]_vars, NEW j \in Jobs, RowExists(j)'
    PROVE  \/ payload'[j]
           \/ RowExists(j) /\ payload'[j] = payload[j]
           \/ \E S \in SUBSET Jobs : Housekeeping(S) /\ WipePayloads(S) /\ j \in S
  <1> DEFINE Same == RowExists(j) /\ payload'[j] = payload[j]
  <1> USE DEF TypeOK, TableTypeOK, RowExists, RowStatus
  <1>1. ASSUME NEW S \in SUBSET Claimable, ClaimTick(S) \/ ClaimAnswerLost(S)
        PROVE  Same
    <2>1. ClaimJobs(S)
      BY <1>1 DEF ClaimTick, ClaimAnswerLost
    <2> QED
      BY <2>1 DEF ClaimJobs, Claimable
  <1>2. ASSUME StaleTick
        PROVE  Same
    <2>1. RequeueStaleProcessing
      BY <1>2 DEF StaleTick
    <2> QED
      BY <2>1 DEF RequeueStaleProcessing, Stale
  <1>3. ASSUME NEW i \in Jobs, Enqueue(i)
        PROVE  payload'[j] \/ Same
    <2>1. InsertJob(i)
      BY <1>3 DEF Enqueue
    <2> QED
      BY <2>1 DEF InsertJob
  <1>4. ASSUME \/ \E i \in Jobs : \/ BackoffEnds(i) \/ LeaseLapses(i) \/ LeaseOverrun(i)
                                  \/ OperatorRetry(i)
               \/ (\E c \in claimed : PushClaimed(c)) \/ BreakerCools \/ Restart \/ Crash
               \/ UNCHANGED vars
        PROVE  Same
    BY <1>4 DEF BackoffEnds, BecomeDue, LeaseLapses, LeaseOverrun, LeaseRunsOut, OperatorRetry,
                RetryJobNow, PushClaimed, BreakerCools, Restart, Crash, vars, tableVars
  <1>5. ASSUME NEW S \in SUBSET Jobs, DeleteRows(S)
        PROVE  Same
    BY <1>5 DEF DeleteRows
  <1>6. ASSUME (\E r \in Routes : OperatorDeleteRoute(r)) \/ OperatorClearCompleted
        PROVE  Same
    BY <1>5, <1>6 DEF OperatorDeleteRoute, OperatorClearCompleted, Completed
  <1>7. ASSUME NEW S \in SUBSET Jobs, Housekeeping(S)
        PROVE  Same \/ (WipePayloads(S) /\ j \in S)
    <2>1. CASE WipePayloads(S)
      BY <2>1 DEF WipePayloads
    <2>2. CASE PruneAttempts(S)
      BY <2>2 DEF PruneAttempts
    <2> QED
      BY <1>5, <1>7, <2>1, <2>2 DEF Housekeeping
  <1>8. ASSUME NEW w \in Slots, Complete(w)
        PROVE  Same
    BY <1>8 DEF Complete, MarkJobCompleted
  <1>9. ASSUME NEW w \in Slots, Reschedule(w)
        PROVE  Same
    <2>1. MarkJobRetryOrDead(held[w].job, held[w].attempts + 1, result[w] = "temporary_error")
      BY <1>9 DEF Reschedule
    <2>2. payload' = payload /\ (status'[j] = status[j] \/ (held[w].job = j /\ RowExists(j)))
      BY <2>1 DEF MarkJobRetryOrDead, MarkDead, MarkRetry
    <2> QED
      BY <2>2
  <1>10. ASSUME NEW w \in Slots, SlotStep(w) \/ SlotFault(w), ~Complete(w), ~Reschedule(w)
         PROVE  Same
    BY <1>10
       DEF SlotStep, SlotFault, Receive, Admit, Refuse, Send, MaxAccepts, MediaFails, MaxRefuses,
           ReplyArrives, ReplyLost, CompleteFails, RescheduleFails, Report, FailRun,
           LogSuccess, LogFailure, RecordAttempt, tableVars
  <1> DEFINE Wiped == \E S \in SUBSET Jobs : Housekeeping(S) /\ WipePayloads(S) /\ j \in S
             Known == payload'[j] \/ Same \/ Wiped
  <1>11. ASSUME NEW S \in SUBSET Jobs, Housekeeping(S)
         PROVE  Known
    BY <1>7, <1>11
  <1>12. (Same => Known) /\ (payload'[j] => Known)
    OBVIOUS
  <1>13. Known
    <2> HIDE DEF Same, Known, TypeOK, TableTypeOK, RowExists, RowStatus
    <2>1. ASSUME NEW w \in Slots, SlotStep(w) \/ SlotFault(w)
          PROVE  Known
      BY <1>8, <1>9, <1>10, <1>12, <2>1
    <2>2. ASSUME NEW i \in Jobs, Enqueue(i)
          PROVE  Known
      BY <1>3, <1>12, <2>2
    <2> QED
      BY <1>1, <1>2, <1>4, <1>6, <1>11, <1>12, <2>1, <2>2 DEF Next, Progress, Fault, Admin
  <1> QED
    BY <1>13

(* Inductive: a row that was wiped is completed and nobody holds a copy of *)
(* it, so that no copy is made of it and no late statement reopens it,     *)
(* contended or not, until the operator does.                              *)
Whole(j) ==
    /\ j \notin hollow
    /\ \A c \in Copies : c.job = j => c.whole
    /\ RowExists(j) => payload[j] \/ (status[j] = "completed" /\ OutOfHands(j))

WholeUntilRevived == \A j \in Jobs \ revived : Whole(j)

LEMMA WholeStep ==
    ASSUME TypeOK, WholeUntilRevived, [Next]_vars
    PROVE  WholeUntilRevived'
  <1> SUFFICES ASSUME NEW j \in Jobs, j \notin revived'
               PROVE  Whole(j)'
    BY DEF WholeUntilRevived
  <1>1. j \notin revived
    BY HistoryGrows
  <1>2. Whole(j)
    BY <1>1 DEF WholeUntilRevived
  <1>3. j \notin hollow'
    <2>1. ASSUME NEW w \in Slots, MaxAccepts(w)
          PROVE  j \notin hollow'
      <3>1. hollow' = IF held[w].whole THEN hollow ELSE hollow \cup {held[w].job}
        BY <2>1 DEF MaxAccepts
      <3>2. held[w] \in Copies
        BY <2>1 DEF MaxAccepts, Copies, Working, DoneWithJob
      <3> QED
        BY <1>2, <3>1, <3>2 DEF Whole
    <2> QED
      BY <1>2, <2>1, WhoAccepts DEF Whole
  <1>4. ASSUME NEW c \in Copies', c.job = j
        PROVE  c.whole
    <2>1. ASSUME NEW S \in SUBSET Claimable, NEW i \in S, c = CopyOf(i)
          PROVE  c.whole
      <3>1. i = j /\ c.whole = payload[j] /\ status[j] \in {"pending", "retry"}
        BY <1>4, <2>1 DEF CopyOf, Claimable
      <3> QED
        BY <1>2, <3>1 DEF Whole, RowExists, RowStatus
    <2> QED
      BY <1>2, <1>4, <2>1, CopiesStep DEF Whole
  <1>5. ASSUME RowExists(j)', ~payload'[j]
        PROVE  status'[j] = "completed" /\ OutOfHands(j)'
    <2>1. CASE RowExists(j) /\ payload'[j] = payload[j]
      <3>1. status[j] = "completed" /\ OutOfHands(j)
        BY <1>2, <1>5, <2>1 DEF Whole
      <3>2. ~OperatorRetry(j)
        BY <1>5, <2>1 DEF OperatorRetry
      <3>3. OutOfHands(j)'
        BY <3>1, <3>2, OutStaysOut
      <3> QED
        BY <1>5, <3>3 DEF OutOfHands, RowExists, RowStatus
    <2>2. ASSUME NEW S \in SUBSET Jobs, Housekeeping(S), WipePayloads(S), j \in S
          PROVE  status'[j] = "completed" /\ OutOfHands(j)'
      <3>1. status[j] = "completed" /\ status' = status
        BY <2>2 DEF WipePayloads
      <3>2. ~InProcess(j) /\ UNCHANGED <<claimed, jobsCh, pc, held>>
        BY <2>2 DEF Housekeeping, Aged, processVars
      <3>3. OutOfHands(j)
        BY <3>1, <3>2 DEF OutOfHands
      <3>4. ~OperatorRetry(j)
        BY <1>5, <2>2 DEF OperatorRetry, Housekeeping, RetryJobNow, Aged
      <3> QED
        BY <3>1, <3>3, <3>4, OutStaysOut
    <2> QED
      BY <1>5, <2>1, <2>2, WhoWipes
  <1> QED
    BY <1>3, <1>4, <1>5 DEF Whole

(* The placeholder goes out instead of the message only for a job that the *)
(* operator retried after housekeeping had wiped its row: an overrun       *)
(* lease, a late copy or a crash never brings a wiped row back.            *)
THEOREM MessagesAreWhole == Spec => []NoHollowMessage
  <1>1. Init => WholeUntilRevived
    BY ContentionInit DEF Init, TableInit, WholeUntilRevived, Whole, RowExists, RowStatus
  <1>2. TypeOK /\ WholeUntilRevived /\ [Next]_vars => WholeUntilRevived'
    BY WholeStep
  <1>3. TypeOK /\ WholeUntilRevived => NoHollowMessage
    BY DEF WholeUntilRevived, Whole, NoHollowMessage, TypeOK, HistoryTypeOK
  <1> QED
    BY <1>1, <1>2, <1>3, TypeCorrect, PTL DEF Spec

-----------------------------------------------------------------------------
(* The refinement of AtLeastOnce. *)

(* Inductive: there is no copy of a job that was never queued. *)
CopiesHaveRows == \A c \in Copies : status[c.job] # "none"

LEMMA RowsStayKnown ==
    ASSUME TypeOK, CopiesHaveRows, [Next]_vars
    PROVE  CopiesHaveRows'
  <1> SUFFICES ASSUME NEW c \in Copies'
               PROVE  status'[c.job] # "none"
    BY DEF CopiesHaveRows
  <1>1. c.job \in Jobs /\ status[c.job] # "none"
    <2>1. ASSUME NEW S \in SUBSET Claimable, NEW i \in S, c = CopyOf(i)
          PROVE  c.job \in Jobs /\ status[c.job] # "none"
      BY <2>1 DEF CopyOf, Claimable
    <2> QED
      BY <2>1, CopiesStep, CopiesAreCopies DEF CopiesHaveRows
  <1> QED
    BY <1>1, EveryRowMoves DEF RowMoves

Backing == /\ HonestSlots /\ NoFalseSuccess
           /\ AttemptsBacked /\ DeadLetterEarned
           /\ CopiesHaveRows

LEMMA BackingHolds == Spec => []Backing
  <1>1. Init => Backing
    <2> SUFFICES ASSUME Init PROVE Backing
      OBVIOUS
    <2>1. Copies = {} /\ \A w \in Slots : pc[w] = "idle"
      BY ContentionInit DEF Init
    <2>2. \A j \in Jobs : status[j] = "none" /\ attempts[j] = 0 /\ failedRuns[j] = 0 /\ attemptLog[j] = {}
      BY DEF Init, TableInit
    <2> QED
      BY <2>1, <2>2 DEF Backing, HonestSlots, NoFalseSuccess, AttemptsBacked, DeadLetterEarned,
                        CopiesHaveRows, AfterAccept
  <1>2. TypeOK /\ TypeOK' /\ Backing /\ [Next]_vars => Backing'
    BY HonestStep, AttemptsStep, RowsStayKnown DEF Backing
  <1> QED
    BY <1>1, <1>2, TypeCorrect, PTL DEF Spec

LEMMA PromiseInit == Init => Promise!AInit
  <1> SUFFICES ASSUME Init PROVE Promise!AInit
    OBVIOUS
  <1>1. [j \in Jobs |-> Stage(status[j])] = [j \in Jobs |-> "none"]
    <2>1. Stage("none") = "none"
      BY DEF Stage
    <2>2. \A j \in Jobs : status[j] = "none"
      BY DEF Init, TableInit
    <2> QED
      BY <2>1, <2>2
  <1>2. /\ accepted = [j \in Jobs |-> 0] /\ failedRuns = [j \in Jobs |-> 0]
        /\ contended \cup unconfirmed = {}
    BY DEF Init
  <1> QED
    BY <1>1, <1>2, Zenon DEF Promise!AInit

(* A step that leaves the history alone is what it does to the stages. *)
LEMMA StagesTell ==
    ASSUME UNCHANGED <<accepted, failedRuns>>
    PROVE  /\ (\A j \in Jobs : Stage(status'[j]) = Stage(status[j])) => Promise!AMove
           /\ \A i \in Jobs :
                 /\ Stage(status'[i]) = "done" /\ (\A j \in Jobs \ {i} : Stage(status'[j]) = Stage(status[j]))
                    /\ Promise!Stored(i) /\ accepted[i] > 0 => Promise!Finish(i)
                 /\ Stage(status'[i]) = "dead" /\ (\A j \in Jobs \ {i} : Stage(status'[j]) = Stage(status[j]))
                    /\ Promise!Stored(i) /\ failedRuns[i] >= MaxAttempts => Promise!GiveUp(i)
                 /\ Stage(status'[i]) = "open" /\ (\A j \in Jobs \ {i} : Stage(status'[j]) = Stage(status[j]))
                    /\ Promise!Settled(i) => Promise!Reopen(i)
           /\ \A S \in SUBSET Jobs :
                 /\ (\A j \in Jobs : Stage(status'[j]) = IF j \in S THEN "open" ELSE Stage(status[j]))
                    /\ (\A j \in S : Stage(status[j]) = "none") => Promise!Accept(S)
                 /\ (\A j \in Jobs : Stage(status'[j]) = IF j \in S THEN "removed" ELSE Stage(status[j]))
                    /\ (\A j \in S : Promise!Stored(j)) => Promise!Remove(S)
  BY DEF Promise!AMove, Promise!Finish, Promise!GiveUp, Promise!Reopen, Promise!Accept, Promise!Remove

LEMMA StagesOf ==
    /\ \A s \in Open : Stage(s) = "open"
    /\ Stage("completed") = "done" /\ Stage("dead_letter") = "dead"
    /\ Stage("deleted") = "removed" /\ Stage("none") = "none"
  BY DEF Stage, Open

(* The steps of processOne before anything is written. *)
LEMMA PassStep ==
    ASSUME TypeOK, Backing, OneCurrentCopy, OneMessage, NEW w \in Slots, SlotStep(w) \/ SlotFault(w),
           ~LogSuccess(w), ~Complete(w), ~LogFailure(w), ~Reschedule(w)
    PROVE  Promise!AMove
  <1>1. CASE MaxAccepts(w)
    <2>1. held[w] \in Copies /\ held[w].job \in Jobs
      BY <1>1, HeldIsCopy DEF MaxAccepts, Copies, Working, DoneWithJob
    <2>2. Stage(status[held[w].job]) # "none"
      <3>1. status[held[w].job] \in RowStatus \cup {"deleted"}
        BY <2>1 DEF Backing, CopiesHaveRows, TypeOK, TableTypeOK
      <3> QED
        BY <3>1, StagesOf DEF RowStatus, Open
    <2>3. /\ accepted' = [accepted EXCEPT ![held[w].job] = IF @ = 0 THEN 1 ELSE 2]
          /\ status' = status /\ failedRuns' = failedRuns
      BY <1>1 DEF MaxAccepts, tableVars
    <2>4. accepted[held[w].job] > 0 => held[w].job \in contended \cup unconfirmed
      BY <1>1, <2>1, SecondHasCause
    <2>5. PICK m \in Jobs : m = held[w].job
      BY <2>1
    <2>6. Promise!Deliver(m)
      BY <2>2, <2>3, <2>4, <2>5 DEF Promise!Deliver
    <2> QED
      BY <2>6 DEF Promise!AMove
  <1>2. ASSUME NEW r, FailRun(w, r), accepted' = accepted, Working(w)
        PROVE  Promise!AMove
    <2>1. held[w] \in Copies /\ held[w].job \in Jobs
      BY <1>2, HeldIsCopy DEF Copies, Working, DoneWithJob
    <2>2. Stage(status[held[w].job]) # "none"
      <3>1. status[held[w].job] \in RowStatus \cup {"deleted"}
        BY <2>1 DEF Backing, CopiesHaveRows, TypeOK, TableTypeOK
      <3> QED
        BY <3>1, StagesOf DEF RowStatus, Open
    <2>3. /\ failedRuns' = [failedRuns EXCEPT ![held[w].job] = @ + 1]
          /\ status' = status
      BY <1>2 DEF FailRun, tableVars
    <2>4. Promise!Fail(held[w].job)
      BY <1>2, <2>1, <2>2, <2>3 DEF Promise!Fail
    <2> QED
      BY <2>1, <2>4 DEF Promise!AMove
  <1>3. CASE Refuse(w) \/ ReplyLost(w) \/ \E r \in Failures : MediaFails(w, r) \/ MaxRefuses(w, r)
    BY <1>2, <1>3 DEF Refuse, ReplyLost, MediaFails, MaxRefuses, Working, DoneWithJob
  <1>4. CASE \/ Receive(w) \/ Admit(w) \/ Send(w) \/ ReplyArrives(w) \/ Report(w)
             \/ CompleteFails(w) \/ RescheduleFails(w)
    <2>1. UNCHANGED <<status, accepted, failedRuns>>
      BY <1>4 DEF Receive, Admit, Send, ReplyArrives, Report, CompleteFails, RescheduleFails,
                  tableVars, historyVars
    <2> QED
      BY <2>1 DEF Promise!AMove
  <1> QED
    BY <1>1, <1>3, <1>4 DEF SlotStep, SlotFault

(* The steps that change rows, and those that change nothing. *)
LEMMA RowStep ==
    ASSUME TypeOK, Backing, OneCurrentCopy, OneMessage, [Next]_vars, UNCHANGED <<accepted, failedRuns>>
    PROVE  Promise!AMove
  <1> DEFINE Same(S) == \A j \in Jobs \ S : Stage(status'[j]) = Stage(status[j])
  <1>1. ASSUME Same({})
        PROVE  Promise!AMove
    BY <1>1, StagesTell
  <1>2. ASSUME NEW S \in SUBSET Claimable, ClaimTick(S) \/ ClaimAnswerLost(S)
        PROVE  Same({})
    <2>1. ClaimJobs(S) /\ S \subseteq Claimable
      BY <1>2 DEF ClaimTick, ClaimAnswerLost
    <2>2. \A j \in Jobs : status'[j] = status[j] \/ (status[j] \in Open /\ status'[j] \in Open)
      BY <2>1 DEF ClaimJobs, Claimable, Open
    <2> QED
      BY <2>2, StagesOf
  <1>3. ASSUME StaleTick
        PROVE  Same({})
    <2>1. \A j \in Jobs : status'[j] = status[j] \/ (status[j] \in Open /\ status'[j] \in Open)
      BY <1>3 DEF StaleTick, RequeueStaleProcessing, Stale, Open
    <2> QED
      BY <2>1, StagesOf
  <1>4. ASSUME UNCHANGED status
        PROVE  Same({})
    BY <1>4
  <1>5. ASSUME NEW i \in Jobs, Enqueue(i)
        PROVE  Promise!Accept({i})
    <2>1. status[i] = "none" /\ status' = [status EXCEPT ![i] = "pending"]
      BY <1>5 DEF Enqueue, InsertJob
    <2>2. \A j \in Jobs : Stage(status'[j]) = IF j \in {i} THEN "open" ELSE Stage(status[j])
      BY <2>1, StagesOf DEF Open, TypeOK, TableTypeOK
    <2> QED
      BY <2>1, <2>2, StagesOf, StagesTell
  <1>6. ASSUME NEW S \in SUBSET Jobs, DeleteRows(S)
        PROVE  Promise!Remove(S)
    <2>1. \A j \in S : Promise!Stored(j)
      BY <1>6, StagesOf DEF DeleteRows, RowExists, RowStatus, Promise!Stored, Promise!Settled, Open
    <2>2. \A j \in Jobs : Stage(status'[j]) = IF j \in S THEN "removed" ELSE Stage(status[j])
      BY <1>6, StagesOf DEF DeleteRows
    <2> QED
      BY <2>1, <2>2, StagesTell
  <1>7. ASSUME NEW i \in Jobs, RowExists(i), status' = [status EXCEPT ![i] = "retry"]
        PROVE  Promise!Reopen(i) \/ Same({})
    <2>1. Stage(status'[i]) = "open" /\ \A j \in Jobs \ {i} : Stage(status'[j]) = Stage(status[j])
      BY <1>7, StagesOf DEF Open, TypeOK, TableTypeOK
    <2>2. Stage(status[i]) = "open" \/ Promise!Settled(i)
      BY <1>7, StagesOf DEF RowExists, RowStatus, Promise!Settled, Open
    <2>3. CASE Stage(status[i]) = "open"
      BY <2>1, <2>3
    <2>4. CASE Promise!Settled(i)
      BY <2>1, <2>4, StagesTell
    <2> QED
      BY <2>2, <2>3, <2>4
  <1>8. ASSUME NEW i \in Jobs, RowExists(i)
        PROVE  Promise!Stored(i)
    BY <1>8, StagesOf DEF RowExists, RowStatus, Promise!Stored, Promise!Settled, Open
  <1>9. ASSUME NEW w \in Slots, Complete(w)
        PROVE  Promise!Finish(held[w].job) \/ Same({})
    <2>1. MarkJobCompleted(held[w].job) /\ pc[w] = "complete" /\ held[w].job \in Jobs
      BY <1>9, HeldIsCopy DEF Complete
    <2>2. CASE RowExists(held[w].job)
      <3>1. accepted[held[w].job] > 0
        BY <2>1 DEF Backing, HonestSlots, AfterAccept
      <3>2. status' = [status EXCEPT ![held[w].job] = "completed"]
        BY <2>1, <2>2 DEF MarkJobCompleted
      <3>3. Stage(status'[held[w].job]) = "done" /\ Same({held[w].job})
        BY <2>1, <3>2, StagesOf DEF TypeOK, TableTypeOK
      <3> QED
        BY <1>8, <2>1, <2>2, <3>1, <3>3, StagesTell
    <2>3. CASE ~RowExists(held[w].job)
      BY <2>1, <2>3 DEF MarkJobCompleted
    <2> QED
      BY <2>2, <2>3
  <1>10. ASSUME NEW w \in Slots, Reschedule(w)
         PROVE  Promise!GiveUp(held[w].job) \/ Promise!Reopen(held[w].job) \/ Same({})
    <2>1. /\ MarkJobRetryOrDead(held[w].job, held[w].attempts + 1, result[w] = "temporary_error")
          /\ pc[w] = "reschedule" /\ held[w].job \in Jobs /\ held[w].attempts \in Int
      BY <1>10, HeldIsCopy DEF Reschedule
    <2>2. CASE RowExists(held[w].job) /\ MarkDead(held[w].job, held[w].attempts + 1)
      <3>1. failedRuns[held[w].job] >= MaxAttempts
        <4>1. held[w].attempts + 1 <= failedRuns[held[w].job]
          BY <2>1 DEF Backing, AttemptsBacked
        <4>2. held[w].attempts + 1 >= MaxAttempts
          BY <2>2 DEF MarkDead
        <4> QED
          BY <2>1, <4>1, <4>2, MaxAttemptsIsInt DEF TypeOK, HistoryTypeOK
      <3>2. status' = [status EXCEPT ![held[w].job] = "dead_letter"]
        BY <2>2 DEF MarkDead
      <3>3. Stage(status'[held[w].job]) = "dead" /\ Same({held[w].job})
        BY <2>1, <3>2, StagesOf DEF TypeOK, TableTypeOK
      <3> QED
        BY <1>8, <2>1, <2>2, <3>1, <3>3, StagesTell
    <2>3. CASE RowExists(held[w].job) /\ status' = [status EXCEPT ![held[w].job] = "retry"]
      BY <1>7, <2>1, <2>3
    <2>4. CASE ~RowExists(held[w].job)
      BY <2>1, <2>4 DEF MarkJobRetryOrDead
    <2> QED
      BY <2>1, <2>2, <2>3, <2>4 DEF MarkJobRetryOrDead, MarkRetry
  <1> HIDE DEF Same
  <1>11. ASSUME NEW w \in Slots, SlotStep(w) \/ SlotFault(w)
         PROVE  Promise!AMove
    <2>1. CASE Complete(w) \/ Reschedule(w)
      <3>1. held[w].job \in Jobs
        BY <2>1, HeldIsCopy DEF Complete, Reschedule
      <3> QED
        BY <1>1, <1>9, <1>10, <2>1, <3>1 DEF Promise!AMove
    <2>2. CASE LogSuccess(w) \/ LogFailure(w)
      <3>1. UNCHANGED status
        BY <2>2 DEF LogSuccess, LogFailure, RecordAttempt, tableVars
      <3> QED
        BY <1>1, <1>4, <3>1
    <2> QED
      BY <1>11, <2>1, <2>2, PassStep
  <1>12. ASSUME NEW i \in Jobs, OperatorRetry(i)
         PROVE  Promise!AMove
    <2>1. RowExists(i) /\ status' = [status EXCEPT ![i] = "retry"]
      BY <1>12 DEF OperatorRetry, RetryJobNow
    <2> QED
      BY <1>1, <1>7, <2>1 DEF Promise!AMove
  <1>13. ASSUME \/ (\E r \in Routes : OperatorDeleteRoute(r)) \/ OperatorClearCompleted
                \/ \E S \in SUBSET Jobs : Housekeeping(S)
         PROVE  Promise!AMove
    <2>1. UNCHANGED status \/ \E S \in SUBSET Jobs : DeleteRows(S)
      BY <1>13 DEF OperatorDeleteRoute, OperatorClearCompleted, Completed, Housekeeping,
                   WipePayloads, PruneAttempts
    <2> QED
      BY <1>1, <1>4, <1>6, <2>1 DEF Promise!AMove
  <1>14. ASSUME NEW i \in Jobs, Enqueue(i)
         PROVE  Promise!AMove
    <2>1. {i} \in SUBSET Jobs
      OBVIOUS
    <2> QED
      BY <1>5, <1>14, <2>1 DEF Promise!AMove
  <1>15. ASSUME \/ (\E c \in claimed : PushClaimed(c)) \/ Restart \/ Crash \/ BreakerCools
                \/ UNCHANGED vars
                \/ \E i \in Jobs : BackoffEnds(i) \/ LeaseLapses(i) \/ LeaseOverrun(i)
         PROVE  UNCHANGED status
    BY <1>15 DEF PushClaimed, Restart, Crash, BreakerCools, vars, tableVars, BackoffEnds, BecomeDue,
                 LeaseLapses, LeaseOverrun, LeaseRunsOut
  <1> QED
    BY <1>1, <1>2, <1>3, <1>4, <1>11, <1>12, <1>13, <1>14, <1>15 DEF Next, Progress, Fault, Admin

LEMMA PromiseStep ==
    ASSUME TypeOK, Backing, OneCurrentCopy, OneMessage, [Next]_vars
    PROVE  Promise!AMove
  <1> DEFINE Quiet == UNCHANGED <<accepted, failedRuns>>
  <1> USE DEF historyVars
  <1>1. ASSUME NEW S \in SUBSET Claimable, ClaimTick(S) \/ ClaimAnswerLost(S)
        PROVE  Quiet
    BY <1>1 DEF ClaimTick, ClaimAnswerLost
  <1>2. ASSUME (\E c \in claimed : PushClaimed(c)) \/ StaleTick
        PROVE  Quiet
    BY <1>2 DEF PushClaimed, StaleTick
  <1>3. ASSUME NEW i \in Jobs,
               \/ Enqueue(i) \/ BackoffEnds(i) \/ LeaseLapses(i)
               \/ LeaseOverrun(i) \/ OperatorRetry(i)
        PROVE  Quiet
    BY <1>3 DEF Enqueue, BackoffEnds, LeaseLapses, LeaseOverrun, OperatorRetry
  <1>4. ASSUME (\E r \in Routes : OperatorDeleteRoute(r)) \/ (\E S \in SUBSET Jobs : Housekeeping(S))
        PROVE  Quiet
    BY <1>4 DEF OperatorDeleteRoute, Housekeeping
  <1>5. ASSUME OperatorClearCompleted \/ BreakerCools \/ Restart \/ Crash \/ UNCHANGED vars
        PROVE  Quiet
    BY <1>5 DEF OperatorClearCompleted, BreakerCools, Restart, Crash, vars
  <1>6. ASSUME NEW w \in Slots, LogSuccess(w) \/ Complete(w) \/ LogFailure(w) \/ Reschedule(w)
        PROVE  Quiet
    BY <1>6 DEF LogSuccess, Complete, LogFailure, Reschedule
  <1>7. Quiet => Promise!AMove
    BY RowStep
  <1>8. ASSUME NEW w \in Slots, SlotStep(w) \/ SlotFault(w)
        PROVE  Promise!AMove
    BY <1>6, <1>7, <1>8, PassStep
  <1> HIDE DEF Quiet
  <1> QED
    BY <1>1, <1>2, <1>3, <1>4, <1>5, <1>7, <1>8 DEF Next, Progress, Fault, Admin

(* The whole machinery of claims, leases, copies and unfenced statements   *)
(* is an implementation of AtLeastOnce: a message leaves the queue only    *)
(* delivered, dead after its attempts, or removed with its row, and it is  *)
(* delivered a second time only once it has been disturbed.                *)
THEOREM QueueKeepsItsPromise == Spec => ImplementsPromise
  <1>1. TypeOK /\ Backing /\ OneCurrentCopy /\ OneMessage /\ [Next]_vars
        => [Promise!ANext]_(Promise!avars)
    <2> SUFFICES ASSUME TypeOK, Backing, OneCurrentCopy, OneMessage, [Next]_vars
                 PROVE  Promise!ANext
      OBVIOUS
    <2>1. contended \cup unconfirmed \subseteq Jobs
      BY DEF TypeOK, HistoryTypeOK
    <2>2. contended \cup unconfirmed \subseteq contended' \cup unconfirmed'
      BY <2>1, HistoryGrows
    <2> QED
      BY <2>2, PromiseStep DEF Promise!ANext
  <1> QED
    BY <1>1, PromiseInit, TypeCorrect, BackingHolds, OneHolder, OneMessageHolds, PTL
       DEF Spec, ImplementsPromise, Promise!ASpec
=============================================================================
