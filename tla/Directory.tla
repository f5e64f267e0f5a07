------------------------------ MODULE Directory ------------------------------
(***************************************************************************)
(* The tables telegram_groups, max_users and routes, and the statements    *)
(* internal/storage/store.go runs on them: who is connected to what.       *)
(* Every operator is one statement, or one transaction nobody sees half of.*)
(*                                                                         *)
(* A route id stands for a row that has one chat, one user and one filter  *)
(* for all its life, since no statement changes them.  A pair of chat and  *)
(* user may own several ids: a route deleted and added again is another.   *)
(***************************************************************************)

CONSTANTS Chats, Users, RouteIds,
          ChatOf, UserOf         \* routes.telegram_chat_id, .max_user_id

ASSUME RoutesAreRows ==
    /\ ChatOf \in [RouteIds -> Chats]
    /\ UserOf \in [RouteIds -> Users]

VARIABLES groups,      \* the chats telegram_groups has a row for
          offGroups,   \* those with is_enabled = false
          member,      \* per user: no row, is_active, or not is_active
          blocked,     \* users with is_blocked
          routeState   \* per route: "unborn", "enabled", "paused" or "deleted"

directoryVars == <<groups, offGroups, member, blocked, routeState>>

DirectoryTypeOK ==
    /\ groups \in SUBSET Chats
    /\ offGroups \in SUBSET groups
    /\ member \in [Users -> {"none", "active", "removed"}]
    /\ blocked \in SUBSET Users
    /\ routeState \in [RouteIds -> {"unborn", "enabled", "paused", "deleted"}]

DirectoryInit ==
    /\ groups = {}
    /\ offGroups = {}
    /\ member = [u \in Users |-> "none"]
    /\ blocked = {}
    /\ routeState = [r \in RouteIds |-> "unborn"]

Live(r)     == routeState[r] \in {"enabled", "paused"}
Taken(c, u) == \E r \in RouteIds : Live(r) /\ ChatOf[r] = c /\ UserOf[r] = u

(* The rows the SELECT of EnqueueTelegramUpdate joins.  Whether the group  *)
(* is enabled is not among its conditions.                                 *)
Routable(r) ==
    /\ routeState[r] = "enabled"
    /\ member[UserOf[r]] = "active"
    /\ UserOf[r] \notin blocked

-----------------------------------------------------------------------------
AddTelegramGroup(c) ==
    /\ groups' = groups \cup {c}
    /\ UNCHANGED <<offGroups, member, blocked, routeState>>

RemoveAnyGroup_M(c) ==
    /\ offGroups' = offGroups \cup {c}
    /\ UNCHANGED <<groups, member, blocked, routeState>>

RemoveGroup(c) ==
    /\ c \in groups
    /\ offGroups' = offGroups \cup {c}
    /\ UNCHANGED <<groups, member, blocked, routeState>>

(* A user who comes back is active again; is_blocked keeps its value. *)
UpsertLinkedUser(u) ==
    /\ member' = [member EXCEPT ![u] = "active"]
    /\ UNCHANGED <<groups, offGroups, blocked, routeState>>

SetUserBlocked(u, on) ==
    /\ member[u] # "none"
    /\ blocked' = IF on THEN blocked \cup {u} ELSE blocked \ {u}
    /\ UNCHANGED <<groups, offGroups, member, routeState>>

(* Two updates, one transaction. *)
RemoveUser(u) ==
    /\ member[u] # "none"
    /\ member' = [member EXCEPT ![u] = "removed"]
    /\ routeState' = [r \in RouteIds |->
                        IF UserOf[r] = u /\ Live(r) THEN "paused" ELSE routeState[r]]
    /\ UNCHANGED <<groups, offGroups, blocked>>

(* Both foreign keys have to hold, and the pair has to be free.  (And an   *)
(* id has to be left: RouteIds bounds how often a pair is added.)          *)
NewIds(c, u) == {r \in RouteIds : routeState[r] = "unborn" /\ ChatOf[r] = c /\ UserOf[r] = u}

CanCreateRoute(c, u) ==
    c \in groups /\ member[u] # "none" /\ ~Taken(c, u) /\ NewIds(c, u) # {}

CreateRoute(c, u) ==
    /\ CanCreateRoute(c, u)
    /\ \E r \in NewIds(c, u) : routeState' = [routeState EXCEPT ![r] = "enabled"]
    /\ UNCHANGED <<groups, offGroups, member, blocked>>

(* The route of another user, for this one.  A pair that is taken keeps    *)
(* its row, paused or not; a source that is gone gives nothing to copy.    *)
CloneRouteToUser(source, u) ==
    IF Live(source) /\ CanCreateRoute(ChatOf[source], u)
    THEN CreateRoute(ChatOf[source], u)
    ELSE UNCHANGED directoryVars

UpdateRouteState(r, state) ==
    /\ Live(r)
    /\ routeState' = [routeState EXCEPT ![r] = state]
    /\ UNCHANGED <<groups, offGroups, member, blocked>>

DeleteRoute(r) ==
    /\ Live(r)
    /\ routeState' = [routeState EXCEPT ![r] = "deleted"]
    /\ UNCHANGED <<groups, offGroups, member, blocked>>
=============================================================================
