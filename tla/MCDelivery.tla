----------------------------- MODULE MCDelivery -----------------------------
(* DeliveryWorker for TLC, with a budget for what may go wrong. *)
EXTENDS DeliveryWorker, TLC

CONSTANTS j1, j2, r1, u1,
          Mishaps,       \* the kinds of mishap this instance allows
          MaxMishaps     \* and how many of them, all kinds together

VARIABLE spent    \* mishaps so far

mcVars == <<vars, spent>>

OneRoute == [j \in Jobs |-> r1]
OneUser  == [j \in Jobs |-> u1]

\* Goroutines are interchangeable, and so are jobs of one route.
Symmetry == Permutations(Slots) \cup Permutations(Jobs)

Spend(kind) ==
    /\ kind \in Mishaps
    /\ spent < MaxMishaps
    /\ spent' = spent + 1

MCInit == Init /\ spent = 0

Enqueued == {j \in Jobs : status[j] # "none"}

\* j1 comes first, and j2 only where nothing else goes wrong.
Comes(j) == j \in Enqueued' \ Enqueued

MCNext ==
    \/ Progress /\ ~Comes(j2) /\ UNCHANGED spent
    \/ Progress /\ Comes(j2) /\ j1 \in Enqueued /\ spent = 0 /\ spent' = MaxMishaps
    \/ \E j \in Jobs : LeaseOverrun(j) /\ Spend("overrun")
    \/ Crash /\ Spend("crash")
    \/ \E S \in SUBSET Claimable : ClaimAnswerLost(S) /\ Spend("database")
    \/ \E w \in Slots : (CompleteFails(w) \/ RescheduleFails(w)) /\ Spend("database")
    \/ \E w \in Slots : ReplyLost(w) /\ Spend("reply")
    \/ Admin /\ Spend("admin")

MCSpec == MCInit /\ [][MCNext]_mcVars
MCFairSpec == MCSpec /\ Fairness
=============================================================================
