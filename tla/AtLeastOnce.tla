----------------------------- MODULE AtLeastOnce -----------------------------
(***************************************************************************)
(* What the queue promises a sender (README.md: "durable delivery          *)
(* (at-least-once, retry, DLQ, lease recovery)"), with no word about       *)
(* leases, copies or goroutines.  A message in custody is open until it is *)
(* settled: done, which it may be only once the recipient has it, or dead, *)
(* which costs at least MaxAttempts failed tries.  An operator, or a       *)
(* delivery that overlaps another one, may open it again.  "At least once" *)
(* is no licence to repeat: a second delivery needs a disturbed message.   *)
(***************************************************************************)
EXTENDS Integers

CONSTANTS Messages, MaxAttempts

VARIABLES stage,       \* where the message stands
          received,    \* how often the recipient has it: 0, 1 or 2 (2 is "more than once")
          tries,       \* failed tries so far
          disturbed    \* messages of which something went wrong that may send them again

avars == <<stage, received, tries, disturbed>>

Stages == {"none", "open", "done", "dead", "removed"}

AInit ==
    /\ stage = [m \in Messages |-> "none"]
    /\ received = [m \in Messages |-> 0]
    /\ tries = [m \in Messages |-> 0]
    /\ disturbed = {}

(* The messages of one transaction. *)
Accept(M) ==
    /\ M \subseteq {m \in Messages : stage[m] = "none"}
    /\ stage' = [m \in Messages |-> IF m \in M THEN "open" ELSE stage[m]]
    /\ UNCHANGED <<received, tries>>

Deliver(m) ==
    /\ stage[m] # "none"
    /\ received[m] > 0 => m \in disturbed
    /\ received' = [received EXCEPT ![m] = IF @ = 0 THEN 1 ELSE 2]
    /\ UNCHANGED <<stage, tries>>

Fail(m) ==
    /\ stage[m] # "none"
    /\ tries' = [tries EXCEPT ![m] = @ + 1]
    /\ UNCHANGED <<stage, received>>

Settled(m) == stage[m] \in {"done", "dead"}
Stored(m)  == stage[m] = "open" \/ Settled(m)

Finish(m) ==
    /\ Stored(m) /\ received[m] > 0
    /\ stage' = [stage EXCEPT ![m] = "done"]
    /\ UNCHANGED <<received, tries>>

GiveUp(m) ==
    /\ Stored(m) /\ tries[m] >= MaxAttempts
    /\ stage' = [stage EXCEPT ![m] = "dead"]
    /\ UNCHANGED <<received, tries>>

Reopen(m) ==
    /\ Settled(m)
    /\ stage' = [stage EXCEPT ![m] = "open"]
    /\ UNCHANGED <<received, tries>>

Remove(M) ==
    /\ M \subseteq {m \in Messages : Stored(m)}
    /\ stage' = [m \in Messages |-> IF m \in M THEN "removed" ELSE stage[m]]
    /\ UNCHANGED <<received, tries>>

AMove ==
    \/ \E M \in SUBSET Messages : Accept(M) \/ Remove(M)
    \/ \E m \in Messages : Deliver(m) \/ Fail(m) \/ Finish(m) \/ GiveUp(m) \/ Reopen(m)
    \/ UNCHANGED <<stage, received, tries>>

(* Whatever moves, a message may be disturbed by it, and stays so. *)
ANext == AMove /\ disturbed \subseteq disturbed'

ASpec == AInit /\ [][ANext]_avars

=============================================================================
