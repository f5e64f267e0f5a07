---------------------------- MODULE MCOnboarding ----------------------------
(* Onboarding for TLC: one chat, two users, two invites of different scopes, *)
(* and a budget for what may go wrong.  The worker's reports cost nothing,   *)
(* and are left out where no answer depends on the column they write.        *)
EXTENDS Onboarding, TLC

CONSTANTS c1, u1, u2, r1, r2, i1, i2,
          Mishaps, MaxMishaps

VARIABLE spent

mcVars == <<vars, spent>>

AllInOneChat == [r \in RouteIds |-> c1]
Owners       == [r \in RouteIds |-> IF r = r1 THEN u1 ELSE u2]
GroupInvite  == [type |-> "group", chat |-> c1]
RouteInvite  == [type |-> "route", source |-> r1]
ScopesOf     == [i \in Invites |-> IF i = i1 THEN GroupInvite ELSE RouteInvite]
EntityScope  == [type |-> "entity"]
EntityFirst  == [i \in Invites |-> IF i = i1 THEN EntityScope ELSE GroupInvite]
Link(u, i)   == [user |-> u, code |-> i]
Rivals       == {Link(u1, i1), Link(u2, i1)}
BothWays     == Rivals \cup {Link(u2, i2)}
Each         == {Link(u1, i1), Link(u2, i2)}

Symmetry == Permutations(Requests)

Spend(kind) ==
    /\ kind \in Mishaps
    /\ spent < MaxMishaps
    /\ spent' = spent + 1

MCInit == Init /\ spent = 0

MCNext ==
    \/ Progress /\ UNCHANGED spent
    \/ (\E i \in Invites : CreateInvite(i)) /\ UNCHANGED spent
    \/ "report" \in Mishaps /\ (\E r \in RouteIds : WorkerReports(r)) /\ UNCHANGED spent
    \/ Fault /\ Spend("fault")
    \/ Crash /\ Spend("crash")
    \/ Admin /\ Spend("admin")

MCSpec == MCInit /\ [][MCNext]_mcVars
MCFairSpec == MCSpec /\ Fairness
=============================================================================
