------------------------------ MODULE MCIngress ------------------------------
(* Ingress for TLC: one chat, two users, and a budget for what may go wrong. *)
EXTENDS Ingress, TLC

CONSTANTS c1, u1, u2, r1, r2, r3, m1, m2,
          Mishaps, MaxMishaps

VARIABLE spent

mcVars == <<vars, spent>>

AllInOneChat == [r \in RouteIds |-> c1]
Owners       == [r \in RouteIds |-> IF r = r1 THEN u1 ELSE u2]
Modes        == [r \in RouteIds |->
                   IF r = r1 THEN "all" ELSE IF r = r2 THEN "text_only" ELSE "mentions_only"]
Human        == [chat |-> c1, bot |-> FALSE, text |-> TRUE, mention |-> FALSE]
BotMention   == [chat |-> c1, bot |-> TRUE, text |-> FALSE, mention |-> TRUE]
Messages     == [m \in Updates |-> IF m = m1 THEN Human ELSE BotMention]

Symmetry == Permutations(Requests)

Spend(kind) ==
    /\ kind \in Mishaps
    /\ spent < MaxMishaps
    /\ spent' = spent + 1

MCInit == Init /\ spent = 0

MCNext ==
    \/ Progress /\ UNCHANGED spent
    \/ Connect /\ UNCHANGED spent
    \/ Fault /\ Spend("fault")
    \/ Crash /\ Spend("crash")
    \/ Admin /\ Spend("admin")
    \/ \E S \in SUBSET Pairs : PruneDedupe(S) /\ Spend("prune")

MCSpec == MCInit /\ [][MCNext]_mcVars
MCFairSpec == MCSpec /\ Fairness
=============================================================================
