----------------------------- MODULE MCPipeline -----------------------------
(* Pipeline for TLC: the directory and the budget of MCIngress. *)
EXTENDS MCIngress, Pipeline

mcpVars == <<pipeVars, spent>>

AllModes == [r \in RouteIds |-> "all"]

\* Everybody is linked, and all but r3, the route of a second try, are there.
Furnished ==
    /\ groups = Chats /\ offGroups = {}
    /\ member = [u \in Users |-> "active"] /\ blocked = {}
    /\ routeState = [r \in RouteIds |-> IF r = r3 THEN "unborn" ELSE "enabled"]

MCPInit == Furnished /\ BridgeInit /\ Queue!AInit /\ spent = 0

MCPNext ==
    \/ BridgeSteps(Progress \/ Connect) /\ UNCHANGED spent
    \/ WorkerStep /\ UNCHANGED spent
    \/ BridgeSteps(Fault) /\ Spend("fault")
    \/ BridgeSteps(Crash) /\ Spend("crash")
    \/ BridgeSteps(Disconnect \/ \E c \in Chats : OperatorDisablesGroup(c)) /\ Spend("admin")
    \/ (\E r \in RouteIds : DeleteRouteAndJobs(r)) /\ Spend("admin")
    \/ BridgeSteps(\E S \in SUBSET Pairs : PruneDedupe(S)) /\ Spend("prune")
    \/ (\E j \in Jobs : Disturb(j) \/ PutBack(j)) /\ Spend("contention")
    \* What a stale copy does to a disturbed job is part of the disturbance.
    \/ (\E j \in disturbed : StaleCopy(j)) /\ UNCHANGED spent
    \/ (\E j \in Jobs \ disturbed : StaleCopy(j)) /\ Spend("contention")
    \/ (\E S \in SUBSET Jobs : Retire(S)) /\ Spend("retire")

MCPSpec == MCPInit /\ [][MCPNext]_mcpVars
MCPFairSpec == MCPSpec /\ PFairness
=============================================================================
