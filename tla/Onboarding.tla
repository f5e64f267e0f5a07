------------------------------ MODULE Onboarding ------------------------------
(***************************************************************************)
(* POST /webhooks/max: handleMaxWebhook turns "/link <code>" into a linked *)
(* user, in steps that are each committed on their own: consume the        *)
(* invite, upsert the user, add the routes of the invite's scope, send a   *)
(* greeting, record how that went.  Several requests run at a time, MAX    *)
(* sends a link again until it is answered with 204, and an operator       *)
(* creates and revokes invites meanwhile.                                  *)
(*                                                                         *)
(* ConsumeInvite holds the invite's row from its SELECT ... FOR UPDATE to  *)
(* its commit; a request at "delete" is one that holds it.                 *)
(***************************************************************************)
EXTENDS Directory, Integers, FiniteSets

CONSTANTS Invites,
          ScopeOf,      \* invites.scope_type and .scope_id
          Links,        \* the messages "/link <code>" users may send
          Requests,     \* requests the bridge can be serving at the same time
          NoLink

Scopes ==
         [type : {"group"}, chat : Chats]
    \cup [type : {"route"}, source : RouteIds]
    \cup [type : {"entity"}]

ASSUME InvitesHaveScope == ScopeOf \in [Invites -> Scopes]
ASSUME LinksAreMessages == Links \in SUBSET [user : Users, code : Invites]
ASSUME NoLinkIsNone == NoLink \notin Links

VARIABLES invite,      \* per invite: no row yet, open, used or revoked (row deleted)
          expired,     \* invites whose expires_at has passed
          inbox,       \* links sent and not yet answered
          pc,          \* per request: the next thing the handler does
          serving,     \* per request: the link
          outcome,     \* per request: how its greeting went
          lastStatus   \* max_users.last_delivery_status

requestVars == <<pc, serving, outcome>>

(* History. *)
VARIABLES consumers,   \* per invite: the users whose requests consumed it
          linked,      \* per invite: how often a user was linked with it: 0, 1 or 2 (more)
          greeted,     \* per invite: how often MAX delivered its greeting: 0, 1 or 2 (more)
          toldRevoked, \* invites the operator was told are revoked
          byOperator   \* routes the operator added

historyVars == <<consumers, linked, greeted, toldRevoked, byOperator>>

vars == <<directoryVars, invite, expired, inbox, requestVars, lastStatus, historyVars>>

Locations == {"idle", "lookup", "delete", "upsert", "routes", "greet", "status", "reply"}
Results   == {"success", "temporary_error", "permanent_error"}
Outcomes  == {"never"} \cup Results

TypeOK ==
    /\ DirectoryTypeOK
    /\ invite \in [Invites -> {"none", "open", "used", "revoked"}]
    /\ expired \in SUBSET Invites
    /\ inbox \in SUBSET Links
    /\ pc \in [Requests -> Locations]
    /\ serving \in [Requests -> Links \cup {NoLink}]
    /\ \A h \in Requests : pc[h] = "idle" <=> serving[h] = NoLink
    /\ outcome \in [Requests -> Outcomes]
    /\ lastStatus \in [Users -> Outcomes]
    /\ consumers \in [Invites -> SUBSET Users]
    /\ linked \in [Invites -> 0 .. 2]
    /\ greeted \in [Invites -> 0 .. 2]
    /\ toldRevoked \in SUBSET Invites
    /\ byOperator \in SUBSET RouteIds

Init ==
    /\ DirectoryInit
    /\ invite = [i \in Invites |-> "none"]
    /\ expired = {}
    /\ inbox = {}
    /\ pc = [h \in Requests |-> "idle"]
    /\ serving = [h \in Requests |-> NoLink]
    /\ outcome = [h \in Requests |-> "never"]
    /\ lastStatus = [u \in Users |-> "never"]
    /\ consumers = [i \in Invites |-> {}]
    /\ linked = [i \in Invites |-> 0]
    /\ greeted = [i \in Invites |-> 0]
    /\ toldRevoked = {}
    /\ byOperator = {}

OneMore(n) == IF n < 2 THEN n + 1 ELSE n

-----------------------------------------------------------------------------
(* One request. *)

GoTo(h, place) == pc' = [pc EXCEPT ![h] = place]

UserSends(l) ==
    /\ l \in Links \ inbox
    /\ inbox' = inbox \cup {l}
    /\ UNCHANGED <<directoryVars, invite, expired, requestVars, lastStatus, historyVars>>

Arrive(h, l) ==
    /\ pc[h] = "idle" /\ l \in inbox
    /\ GoTo(h, "lookup")
    /\ serving' = [serving EXCEPT ![h] = l]
    /\ UNCHANGED <<directoryVars, invite, expired, inbox, outcome, lastStatus, historyVars>>

Locked(i) == \E h \in Requests : pc[h] = "delete" /\ serving[h].code = i
Valid(i)  == invite[i] = "open" /\ i \notin expired

FindInviteUnlocked_M(h) ==
    /\ pc[h] = "lookup"
    /\ Valid(serving[h].code)
    /\ GoTo(h, "delete")
    /\ UNCHANGED <<directoryVars, invite, expired, inbox, serving, outcome, lastStatus, historyVars>>

FindInvite(h) ==
    /\ pc[h] = "lookup"
    /\ ~Locked(serving[h].code) /\ Valid(serving[h].code)
    /\ GoTo(h, "delete")
    /\ UNCHANGED <<directoryVars, invite, expired, inbox, serving, outcome, lastStatus, historyVars>>

IgnoreAndGoOn_M(h) ==
    /\ pc[h] = "lookup"
    /\ ~Locked(serving[h].code) /\ ~Valid(serving[h].code)
    /\ GoTo(h, "upsert")
    /\ UNCHANGED <<directoryVars, invite, expired, inbox, serving, outcome, lastStatus, historyVars>>

IgnoreWithError_M(h) ==
    /\ pc[h] = "lookup"
    /\ ~Locked(serving[h].code) /\ ~Valid(serving[h].code)
    /\ GoTo(h, "idle")
    /\ serving' = [serving EXCEPT ![h] = NoLink]
    /\ UNCHANGED <<directoryVars, invite, expired, inbox, outcome, lastStatus, historyVars>>

(* Not found, used, revoked or expired: 204, and nothing else. *)
Ignore(h) ==
    /\ pc[h] = "lookup"
    /\ ~Locked(serving[h].code) /\ ~Valid(serving[h].code)
    /\ GoTo(h, "reply")
    /\ UNCHANGED <<directoryVars, invite, expired, inbox, serving, outcome, lastStatus, historyVars>>

DeleteInvite(h) ==
    LET i == serving[h].code IN
    /\ invite' = [invite EXCEPT ![i] = "used"]
    /\ consumers' = [consumers EXCEPT ![i] = @ \cup {serving[h].user}]

ConsumeInvite(h) ==
    /\ pc[h] = "delete"
    /\ DeleteInvite(h)
    /\ GoTo(h, "upsert")
    /\ UNCHANGED <<directoryVars, expired, inbox, serving, outcome, lastStatus,
                   linked, greeted, toldRevoked, byOperator>>

LinkUser(h) ==
    /\ UpsertLinkedUser(serving[h].user)
    /\ linked' = [linked EXCEPT ![serving[h].code] = OneMore(@)]

Upsert(h) ==
    /\ pc[h] = "upsert"
    /\ LinkUser(h)
    /\ GoTo(h, "routes")
    /\ UNCHANGED <<invite, expired, inbox, serving, outcome, lastStatus,
                   consumers, greeted, toldRevoked, byOperator>>

AddRoutesByDefault_M(scope, u) ==
    IF scope.type = "route"
    THEN CloneRouteToUser(scope.source, u)
    ELSE \/ \E c \in Chats : CreateRoute(c, u)
         \/ (\A c \in Chats : ~CanCreateRoute(c, u)) /\ UNCHANGED directoryVars

(* What the scope adds; an error of either statement is ignored. *)
AddRoutes(scope, u) ==
    CASE scope.type = "group" /\ CanCreateRoute(scope.chat, u) -> CreateRoute(scope.chat, u)
      [] scope.type = "route" -> CloneRouteToUser(scope.source, u)
      [] OTHER -> UNCHANGED directoryVars

BindRoutes(h) ==
    /\ pc[h] = "routes"
    /\ AddRoutes(ScopeOf[serving[h].code], serving[h].user)
    /\ GoTo(h, "greet")
    /\ UNCHANGED <<invite, expired, inbox, serving, outcome, lastStatus, historyVars>>

(* MAX delivers the greeting or does not, and the handler hears of it or   *)
(* takes the silence for a failure.                                        *)
Greet(h) ==
    /\ pc[h] = "greet"
    /\ GoTo(h, "status")
    /\ \E delivered, heard \in BOOLEAN :
          /\ greeted' = [greeted EXCEPT ![serving[h].code] = IF delivered THEN OneMore(@) ELSE @]
          /\ outcome' = [outcome EXCEPT ![h] =
                            IF delivered /\ heard THEN "success" ELSE "temporary_error"]
    /\ UNCHANGED <<directoryVars, invite, expired, inbox, serving, lastStatus,
                   consumers, linked, toldRevoked, byOperator>>

RecordStatus(h) ==
    /\ pc[h] = "status"
    /\ lastStatus' = [lastStatus EXCEPT ![serving[h].user] = outcome[h]]
    /\ GoTo(h, "reply")
    /\ UNCHANGED <<directoryVars, invite, expired, inbox, serving, outcome, historyVars>>

LeaveUnclean_M(h) ==
    /\ GoTo(h, "idle")
    /\ outcome' = [outcome EXCEPT ![h] = "never"]
    /\ UNCHANGED serving

Leave(h) ==
    /\ GoTo(h, "idle")
    /\ serving' = [serving EXCEPT ![h] = NoLink]
    /\ outcome' = [outcome EXCEPT ![h] = "never"]

Reply(h) ==
    /\ pc[h] = "reply"
    /\ inbox' = inbox \ {serving[h]}
    /\ Leave(h)
    /\ UNCHANGED <<directoryVars, invite, expired, lastStatus, historyVars>>

RequestStep(h) ==
    \/ FindInvite(h) \/ Ignore(h) \/ ConsumeInvite(h) \/ Upsert(h) \/ BindRoutes(h)
    \/ Greet(h) \/ RecordStatus(h) \/ Reply(h)

-----------------------------------------------------------------------------
(* What may go wrong. *)

(* Any error of ConsumeInvite, the database's too, is answered with 204. *)
ConsumeFails(h) ==
    /\ pc[h] \in {"lookup", "delete"}
    /\ GoTo(h, "reply")
    /\ UNCHANGED <<directoryVars, invite, expired, inbox, serving, outcome, lastStatus, historyVars>>

ConsumeAnswerLost(h) ==
    /\ pc[h] = "delete"
    /\ DeleteInvite(h)
    /\ GoTo(h, "reply")
    /\ UNCHANGED <<directoryVars, expired, inbox, serving, outcome, lastStatus,
                   linked, greeted, toldRevoked, byOperator>>

(* 500, and MAX sends the link again. *)
UpsertFails(h) ==
    /\ pc[h] = "upsert"
    /\ LinkUser(h) \/ UNCHANGED <<directoryVars, linked>>
    /\ Leave(h)
    /\ UNCHANGED <<invite, expired, inbox, lastStatus, consumers, greeted, toldRevoked, byOperator>>

BindRoutesFails(h) ==
    /\ pc[h] = "routes"
    /\ GoTo(h, "greet")
    /\ UNCHANGED <<directoryVars, invite, expired, inbox, serving, outcome, lastStatus, historyVars>>

RecordStatusFails(h) ==
    /\ pc[h] = "status"
    /\ GoTo(h, "reply")
    /\ UNCHANGED <<directoryVars, invite, expired, inbox, serving, outcome, lastStatus, historyVars>>

ReplyLost(h) ==
    /\ pc[h] = "reply"
    /\ Leave(h)
    /\ UNCHANGED <<directoryVars, invite, expired, inbox, lastStatus, historyVars>>

Crash ==
    /\ \E h \in Requests : pc[h] # "idle"
    /\ pc' = [h \in Requests |-> "idle"]
    /\ serving' = [h \in Requests |-> NoLink]
    /\ outcome' = [h \in Requests |-> "never"]
    /\ UNCHANGED <<directoryVars, invite, expired, inbox, lastStatus, historyVars>>

-----------------------------------------------------------------------------
(* The operator, and time. *)

CreateInvite(i) ==
    /\ invite[i] = "none"
    /\ invite' = [invite EXCEPT ![i] = "open"]
    /\ UNCHANGED <<directoryVars, expired, inbox, requestVars, lastStatus, historyVars>>

RevokeWithoutWaiting_M(i) ==
    /\ invite[i] # "none"
    /\ invite' = [invite EXCEPT ![i] = IF @ = "open" THEN "revoked" ELSE @]
    /\ toldRevoked' = toldRevoked \cup {i}
    /\ UNCHANGED <<directoryVars, expired, inbox, requestVars, lastStatus,
                   consumers, linked, greeted, byOperator>>

(* Deletes the row, if there still is one, and reports success either way. *)
RevokeInvite(i) ==
    /\ invite[i] # "none" /\ ~Locked(i)
    /\ invite' = [invite EXCEPT ![i] = IF @ = "open" THEN "revoked" ELSE @]
    /\ toldRevoked' = toldRevoked \cup {i}
    /\ UNCHANGED <<directoryVars, expired, inbox, requestVars, lastStatus,
                   consumers, linked, greeted, byOperator>>

InviteExpires(i) ==
    /\ invite[i] = "open" /\ i \notin expired
    /\ expired' = expired \cup {i}
    /\ UNCHANGED <<directoryVars, invite, inbox, requestVars, lastStatus, historyVars>>

OperatorAddsRoute(c, u) ==
    /\ CreateRoute(c, u)
    /\ byOperator' = byOperator \cup {r \in RouteIds : routeState'[r] # routeState[r]}
    /\ UNCHANGED <<invite, expired, inbox, requestVars, lastStatus,
                   consumers, linked, greeted, toldRevoked>>

OtherDirectoryChange ==
    /\ \/ \E c \in Chats : c \notin groups /\ AddTelegramGroup(c)
       \/ \E u \in Users : RemoveUser(u)
       \/ \E r \in RouteIds : DeleteRoute(r)
    /\ UNCHANGED <<invite, expired, inbox, requestVars, lastStatus, historyVars>>

-----------------------------------------------------------------------------
(* The worker writes the status of a route's user too, after every message *)
(* it sent or gave back.  The job it came with may be older than the       *)
(* route's deletion.                                                       *)
WorkerReports(r) ==
    /\ routeState[r] # "unborn"
    /\ \E result \in Results : lastStatus' = [lastStatus EXCEPT ![UserOf[r]] = result]
    /\ UNCHANGED <<directoryVars, invite, expired, inbox, requestVars, historyVars>>

-----------------------------------------------------------------------------
Progress ==
    \/ \E l \in Links : UserSends(l)
    \/ \E h \in Requests, l \in Links : Arrive(h, l)
    \/ \E h \in Requests : RequestStep(h)

Fault ==
    \E h \in Requests : \/ ConsumeFails(h) \/ ConsumeAnswerLost(h) \/ UpsertFails(h)
                        \/ BindRoutesFails(h) \/ RecordStatusFails(h) \/ ReplyLost(h)

Admin ==
    \/ \E i \in Invites : RevokeInvite(i) \/ InviteExpires(i)
    \/ \E c \in Chats, u \in Users : OperatorAddsRoute(c, u)
    \/ OtherDirectoryChange

Next ==
    \/ Progress \/ Fault \/ Crash \/ Admin
    \/ \E i \in Invites : CreateInvite(i)
    \/ \E r \in RouteIds : WorkerReports(r)

Spec == Init /\ [][Next]_vars

(* MAX sends a link again until it is answered; a handler goes on.         *)
Fairness ==
    /\ \A l \in Links : SF_vars(\E h \in Requests : Arrive(h, l))
    /\ \A h \in Requests : SF_vars(RequestStep(h))

-----------------------------------------------------------------------------
(* Properties. *)

(* An invite is good for one user and one greeting, whoever sends its code *)
(* at the same time and however often MAX repeats a link (ConsumeInvite's  *)
(* FOR UPDATE).                                                            *)
OneUsePerInvite ==
    \A i \in Invites : Cardinality(consumers[i]) <= 1 /\ linked[i] <= 1 /\ greeted[i] <= 1

(* Once the operator was told an invite is revoked nobody consumes it.     *)
RevokedIsFinal ==
    [][\A i \in Invites : i \in toldRevoked => consumers'[i] = consumers[i]]_vars

(* Who has not consumed an invite has no row, no route and no message,     *)
(* neither a greeting nor one of the worker's, whatever codes he sends     *)
(* (docs/project-context.md:49).                                           *)
StrangersStayOut ==
    \A u \in Users :
        (\A i \in Invites : u \notin consumers[i])
        => member[u] = "none" /\ lastStatus[u] = "never" /\ \A r \in RouteIds : UserOf[r] = u => ~Live(r)

(* The chat an invite's scope gives access to. *)
Grants(i, c) ==
    LET s == ScopeOf[i] IN
    \/ s.type = "group" /\ s.chat = c
    \/ s.type = "route" /\ ChatOf[s.source] = c

(* A route was added by the operator or by an invite of that scope which   *)
(* the route's own user consumed.                                          *)
RoutesAreGranted ==
    \A r \in RouteIds : Live(r) =>
        \/ r \in byOperator
        \/ \E i \in Invites : UserOf[r] \in consumers[i] /\ Grants(i, ChatOf[r])

(* Every link a user sends is answered in the end. *)
EveryLinkAnswered == \A l \in Links : l \in inbox ~> l \notin inbox

(* docs/project-context.md:50: "Valid link: consume invite + link user +   *)
(* test send + status update".  An invite is not consumed for nothing.     *)
ConsumedMeansLinked ==
    \A i \in Invites :
        consumers[i] # {} /\ (\A h \in Requests : pc[h] = "upsert" => serving[h].code # i)
        => linked[i] > 0
===============================================================================
