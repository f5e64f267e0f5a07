--------------------------- MODULE CircuitBreaker ---------------------------
(***************************************************************************)
(* internal/delivery/circuit.go.  Every method holds the mutex from its    *)
(* first line to its last, so each is one atomic step.  openUntil is kept  *)
(* as what Allow sees of it: it lies ahead (open) or behind.               *)
(***************************************************************************)
EXTENDS Integers

CONSTANT Threshold    \* NewWorker passes 20

ASSUME ThresholdIsPositive == Threshold \in Nat \ {0}

VARIABLES consecutiveFailures, open

breakerVars == <<consecutiveFailures, open>>

BreakerTypeOK ==
    /\ consecutiveFailures \in 0 .. Threshold - 1
    /\ open \in BOOLEAN

BreakerInit ==
    /\ consecutiveFailures = 0
    /\ open = FALSE

Allow == ~open

MarkSuccess ==
    /\ consecutiveFailures' = 0
    /\ open' = FALSE

(* A mutant: the count goes on after the breaker has opened. *)
MarkFailureUnreset_M ==
    /\ consecutiveFailures' = consecutiveFailures + 1
    /\ open' = (open \/ consecutiveFailures + 1 >= Threshold)

(* The failure that reaches the threshold (re)opens the breaker for a full *)
(* cooldown and starts the count afresh; any other only counts.            *)
MarkFailure ==
    \/ /\ consecutiveFailures + 1 >= Threshold
       /\ open' = TRUE
       /\ consecutiveFailures' = 0
    \/ /\ consecutiveFailures + 1 < Threshold
       /\ consecutiveFailures' = consecutiveFailures + 1
       /\ UNCHANGED open

(* now() passes openUntil. *)
CooldownElapses ==
    /\ open
    /\ open' = FALSE
    /\ UNCHANGED consecutiveFailures
=============================================================================
