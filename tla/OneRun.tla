------------------------------- MODULE OneRun -------------------------------
(***************************************************************************)
(* One pass of processOne behind the breaker and the limiter, as the       *)
(* queue's model DeliveryWorker takes it to be; its actions have the names *)
(* they have there.  MAX accepts the message at most once, a success is    *)
(* reported only if MAX accepted it and answered, and a failure may hide   *)
(* an acceptance only if the answer was lost.                              *)
(***************************************************************************)

VARIABLES step,       \* "prepare", "sending", "replying", "over" or "dead"
          outcome,    \* what the pass reports
          taken       \* MAX has accepted the message

rvars == <<step, outcome, taken>>

RFailures == {"temporary_error", "permanent_error"}

RInit ==
    /\ step = "prepare"
    /\ outcome = "none"
    /\ taken = FALSE

Send ==
    /\ step = "prepare" /\ step' = "sending"
    /\ UNCHANGED <<outcome, taken>>

MediaFails ==
    /\ step = "prepare" /\ step' = "over"
    /\ outcome' \in RFailures
    /\ UNCHANGED taken

MaxAccepts ==
    /\ step = "sending" /\ step' = "replying"
    /\ taken' = TRUE
    /\ UNCHANGED outcome

MaxRefuses ==
    /\ step = "sending" /\ step' = "over"
    /\ outcome' \in RFailures
    /\ UNCHANGED taken

ReplyArrives ==
    /\ step = "replying" /\ step' = "over"
    /\ outcome' = "success"
    /\ UNCHANGED taken

ReplyLost ==
    /\ step = "replying" /\ step' = "over"
    /\ outcome' = "temporary_error"
    /\ UNCHANGED taken

ProcessDies ==
    /\ step # "over" /\ step' = "dead"
    /\ UNCHANGED <<outcome, taken>>

RNext == Send \/ MediaFails \/ MaxAccepts \/ MaxRefuses \/ ReplyArrives \/ ReplyLost \/ ProcessDies

RSpec == RInit /\ [][RNext]_rvars
=============================================================================
