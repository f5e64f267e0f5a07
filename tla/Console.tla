------------------------------- MODULE Console -------------------------------
(***************************************************************************)
(* The operator's terminal interface (internal/tui): a Bubble Tea program. *)
(* Update turns the model and one message, a key or the result of an       *)
(* earlier command, into the next model and at most one command.  Commands *)
(* (load a section, run an action, load the options of the route picker)   *)
(* run beside each other; their results come back in any order, whatever   *)
(* the operator has done in the meantime.                                  *)
(*                                                                         *)
(* The tables behind the lists are changed by everybody, so a load may     *)
(* return any list.  Texts, the typing of a name and the cursor of the     *)
(* main menu are left out; positions count from 1.                         *)
(***************************************************************************)
EXTENDS Integers, Sequences

CONSTANTS Sections,     \* the sections the operator visits
          Ids,          \* ids of records
          OptionIds,    \* those the route picker may offer
          Slots,        \* bound: commands on their way at the same time
          None

AllSections == {"Dashboard", "Telegram Groups", "MAX Users", "Invites", "Routes",
                "Delivery Queue", "Health Checks", "Logs", "Settings"}

ASSUME KnownSections == Sections \in SUBSET AllSections

Action(id, dangerous, fields) == [id |-> id, dangerous |-> dangerous, fields |-> fields]

SectionActions(s) ==
    CASE s = "Telegram Groups" -> <<Action("group_probe_all", FALSE, 0)>>
      [] s = "Invites"         -> <<Action("invite_create", FALSE, 1)>>
      [] s = "Routes"          -> <<Action("route_add", FALSE, 0)>>
      [] s = "Delivery Queue"  -> <<Action("queue_clear_completed", TRUE, 0)>>
      [] OTHER                 -> <<>>

RowActions(s) ==
    CASE s = "Telegram Groups" -> <<Action("group_probe", FALSE, 0), Action("group_disable", TRUE, 0)>>
      [] s = "MAX Users"       -> <<Action("user_block", FALSE, 0), Action("user_unblock", FALSE, 0),
                                    Action("user_rename", FALSE, 1), Action("user_test", FALSE, 0),
                                    Action("user_remove", TRUE, 0)>>
      [] s = "Invites"         -> <<Action("invite_revoke", TRUE, 0)>>
      [] s = "Routes"          -> <<Action("route_pause", FALSE, 0), Action("route_resume", FALSE, 0),
                                    Action("route_delete", TRUE, 0)>>
      [] s = "Delivery Queue"  -> <<Action("queue_retry", FALSE, 0)>>
      [] OTHER                 -> <<>>

Back == Action("__back", FALSE, 0)

(* What a list may hold: up to two records, in any order. *)
Lists(S) == {l \in UNION {[1 .. n -> S] : n \in 0 .. 2} : \A i, j \in DOMAIN l : l[i] = l[j] => i = j}

Record(s, id)      == [kind |-> "record", section |-> s, id |-> id]
SectionEntry(act)  == [kind |-> "action", action |-> act]
BackEntry          == [kind |-> "back"]

BuildEntries(s, list) ==
    [i \in DOMAIN list |-> Record(s, list[i])]
    \o [i \in DOMAIN SectionActions(s) |-> SectionEntry(SectionActions(s)[i])]
    \o <<BackEntry>>

ActionsOf(S)  == {Back} \cup UNION {{SectionActions(s)[i] : i \in DOMAIN SectionActions(s)}
                                    \cup {RowActions(s)[i] : i \in DOMAIN RowActions(s)} : s \in S}
Entries       == {Record(s, id) : s \in Sections, id \in Ids}
                 \cup {SectionEntry(a) : a \in ActionsOf(Sections)} \cup {BackEntry}

NoPicker == [stage |-> 0, index |-> 1, groups |-> <<>>, users |-> <<>>, selected |-> None]
NoForm   == [action |-> Back, entry |-> BackEntry, index |-> 1, ret |-> "sections"]

VARIABLES model,     \* Model
          cmds,      \* commands on their way
          opened,    \* history: the record the action menu was opened for
          reloaded   \* history: a list has been replaced since

vars == <<model, cmds, opened, reloaded>>

Modes == {"sections", "rows", "actions", "form", "confirm", "picker"}

Load(s)        == [type |-> "load", section |-> s]
Run(act, e)    == [type |-> "run", action |-> act, entry |-> e]
AddRoute(g, u) == [type |-> "add", group |-> g, user |-> u]
LoadOptions    == [type |-> "options"]

Commands ==
    {Load(s) : s \in Sections} \cup {Run(a, e) : a \in ActionsOf(Sections), e \in Entries}
    \cup {AddRoute(g, u) : g, u \in OptionIds} \cup {LoadOptions}

Cursors == Nat \ {0}

Forms    == [action : ActionsOf(Sections), entry : Entries, index : Cursors,
             ret : {"sections", "rows", "actions"}]
Pendings == [action : ActionsOf(Sections), entry : Entries, ret : {"rows", "actions"}]
Pickers  == [stage : {0, 1}, index : Cursors, groups : Seq(OptionIds), users : Seq(OptionIds),
             selected : OptionIds \cup {None}]
Models   == [mode : Modes, section : Sections \cup {None},
             rows : Seq(Entries), rowIndex : Cursors,
             actions : Seq(ActionsOf(Sections)), actionIndex : Cursors,
             form : Forms, pending : Pendings \cup {None}, confirmIndex : {1, 2},
             picker : Pickers]

(* None stands for nil: no command, nothing to confirm, no group selected. *)
ASSUME NoneIsNothing == None \notin Commands /\ None \notin Pendings /\ None \notin OptionIds

TypeOK ==
    /\ model \in Models
    /\ cmds \in [Slots -> Commands \cup {None}]
    /\ opened \in Entries \cup {None}
    /\ reloaded \in BOOLEAN

Init ==
    /\ model = [mode |-> "sections", section |-> None, rows |-> <<>>, rowIndex |-> 1,
                actions |-> <<>>, actionIndex |-> 1, form |-> NoForm,
                pending |-> None, confirmIndex |-> 1, picker |-> NoPicker]
    /\ cmds = [k \in Slots |-> None]
    /\ opened = None
    /\ reloaded = FALSE

history == <<opened, reloaded>>

Issue(cmd) == \E k \in Slots : cmds[k] = None /\ cmds' = [cmds EXCEPT ![k] = cmd]

MovesUnbounded_M(i, n) == {j \in {i - 1, i + 1} : j > i => j <= n}

(* Keys "up" and "down" in a list of n. *)
Moves(i, n) == {j \in {i - 1, i + 1} : j >= 1 /\ (j > i => j <= n)}

Silent(m) == model' = m /\ UNCHANGED <<cmds, history>>
-----------------------------------------------------------------------------
(* The main menu and a section's list. *)

OpenSection(s) ==
    /\ model.mode = "sections"
    /\ model' = [model EXCEPT !.mode = "rows", !.section = s, !.rows = <<>>, !.rowIndex = 1,
                              !.actions = <<>>, !.actionIndex = 1,
                              !.pending = None, !.confirmIndex = 1, !.picker = NoPicker]
    /\ Issue(Load(s))
    /\ UNCHANGED history

LeaveSection ==
    /\ model.mode = "rows"
    /\ Silent([model EXCEPT !.mode = "sections"])

MoveInRows ==
    /\ model.mode = "rows"
    /\ \E i \in Moves(model.rowIndex, Len(model.rows)) : Silent([model EXCEPT !.rowIndex = i])

Refresh ==
    /\ model.mode = "rows"
    /\ Issue(Load(model.section))
    /\ UNCHANGED <<model, history>>

SubmitFromRows_M(m, act, entry, ret) ==
    IF act.dangerous /\ ret = "actions"
    THEN Silent([m EXCEPT !.pending = [action |-> act, entry |-> entry, ret |-> ret],
                          !.confirmIndex = 1, !.mode = "confirm"])
    ELSE /\ model' = [m EXCEPT !.mode = "rows"]
         /\ Issue(Run(act, entry))
         /\ UNCHANGED history

(* An action that needs no form is confirmed first if it is dangerous. *)
Submit(m, act, entry, ret) ==
    IF act.dangerous
    THEN Silent([m EXCEPT !.pending = [action |-> act, entry |-> entry, ret |-> ret],
                          !.confirmIndex = 1, !.mode = "confirm"])
    ELSE /\ model' = IF ret = "actions"
                     THEN [m EXCEPT !.mode = "rows", !.actions = <<>>, !.actionIndex = 1]
                     ELSE [m EXCEPT !.mode = "rows"]
         /\ Issue(Run(act, entry))
         /\ UNCHANGED history

OpenPicker ==
    /\ model' = [model EXCEPT !.mode = "picker", !.picker = NoPicker]
    /\ Issue(LoadOptions)
    /\ UNCHANGED history

OpenForm(act, entry) ==
    Silent([model EXCEPT !.mode = "form",
                         !.form = [action |-> act, entry |-> entry, index |-> 1, ret |-> model.mode]])

StartAction(act, entry) ==
    CASE act.id = "route_add" /\ model.mode = "rows" -> OpenPicker
      [] act.fields > 0 -> OpenForm(act, entry)
      [] OTHER -> Submit(model, act, entry, model.mode)

OpenMenu(entry) ==
    /\ model' = [model EXCEPT !.mode = "actions", !.actionIndex = 1,
                              !.actions = Append(RowActions(model.section), Back)]
    /\ opened' = entry
    /\ reloaded' = FALSE
    /\ UNCHANGED cmds

ChooseRow ==
    /\ model.mode = "rows" /\ model.rows # <<>>
    /\ LET entry == model.rows[model.rowIndex] IN
       \/ entry.kind = "back"   /\ Silent([model EXCEPT !.mode = "sections"])
       \/ entry.kind = "action" /\ StartAction(entry.action, entry)
       \/ entry.kind = "record" /\ OpenMenu(entry)

-----------------------------------------------------------------------------
(* The action menu of a record. *)

CloseMenu(m) == [m EXCEPT !.mode = "rows", !.actions = <<>>, !.actionIndex = 1]

LeaveMenu == model.mode = "actions" /\ Silent(CloseMenu(model))

MoveRowsInMenu_M ==
    /\ model.mode = "actions"
    /\ \/ \E i \in Moves(model.actionIndex, Len(model.actions)) : Silent([model EXCEPT !.actionIndex = i])
       \/ \E i \in Moves(model.rowIndex, Len(model.rows)) : Silent([model EXCEPT !.rowIndex = i])

MoveInMenu ==
    /\ model.mode = "actions"
    /\ \E i \in Moves(model.actionIndex, Len(model.actions)) : Silent([model EXCEPT !.actionIndex = i])

ChooseAction ==
    /\ model.mode = "actions" /\ model.actions # <<>>
    /\ LET act == model.actions[model.actionIndex] IN
       IF act = Back THEN Silent(CloseMenu(model)) ELSE StartAction(act, model.rows[model.rowIndex])

-----------------------------------------------------------------------------
(* The form: its fields, then "save", then "back". *)

SaveAt == model.form.action.fields + 1

LeaveForm ==
    /\ model.mode = "form"
    /\ Silent([model EXCEPT !.mode = model.form.ret, !.form = NoForm])

MoveInForm ==
    /\ model.mode = "form"
    /\ \E i \in Moves(model.form.index, SaveAt + 1) : Silent([model EXCEPT !.form.index = i])

ChooseInForm ==
    /\ model.mode = "form"
    /\ \/ model.form.index = SaveAt + 1 /\ LeaveForm
       \/ model.form.index < SaveAt - 1 /\ Silent([model EXCEPT !.form.index = @ + 1])
       \/ /\ model.form.index = SaveAt
          /\ Submit([model EXCEPT !.form = NoForm], model.form.action, model.form.entry, model.form.ret)

-----------------------------------------------------------------------------
(* The confirmation: 1 is "do it", 2 is "back". *)

Decline ==
    /\ model.mode = "confirm"
    /\ Silent([model EXCEPT !.pending = None, !.confirmIndex = 2,
                            !.mode = IF model.pending = None THEN "rows" ELSE model.pending.ret])

MoveInConfirm ==
    /\ model.mode = "confirm"
    /\ \E i \in Moves(model.confirmIndex, 2) : Silent([model EXCEPT !.confirmIndex = i])

Execute ==
    LET p == model.pending
        m == [model EXCEPT !.pending = None, !.mode = "rows", !.confirmIndex = 1]
    IN  /\ model.mode = "confirm"
        /\ IF p = None
           THEN Silent([model EXCEPT !.mode = "rows"])
           ELSE /\ model' = IF p.ret = "actions" THEN CloseMenu(m) ELSE m
                /\ Issue(Run(p.action, p.entry))
                /\ UNCHANGED history

(* "esc", or "enter" on the second line; "y", or "enter" on the first. *)
AnswerConfirm == Decline \/ Execute

-----------------------------------------------------------------------------
(* The picker of route_add: a group, then a user. *)

Options == IF model.picker.stage = 0 THEN model.picker.groups ELSE model.picker.users

LeavePicker ==
    /\ model.mode = "picker"
    /\ Silent(IF model.picker.stage = 1
              THEN [model EXCEPT !.picker.stage = 0, !.picker.index = 1]
              ELSE [model EXCEPT !.picker = NoPicker, !.mode = "rows"])

MoveInPicker ==
    /\ model.mode = "picker"
    /\ \E i \in Moves(model.picker.index, Len(Options) + 1) : Silent([model EXCEPT !.picker.index = i])

ChooseInPicker ==
    /\ model.mode = "picker"
    /\ \/ model.picker.index = Len(Options) + 1 /\ LeavePicker
       \/ /\ model.picker.index <= Len(Options) /\ model.picker.stage = 0
          /\ Silent([model EXCEPT !.picker.selected = Options[model.picker.index],
                                  !.picker.stage = 1, !.picker.index = 1])
       \/ /\ model.picker.index <= Len(Options) /\ model.picker.stage = 1
          /\ Issue(AddRoute(model.picker.selected, Options[model.picker.index]))
          /\ model' = [model EXCEPT !.picker = NoPicker, !.mode = "rows"]
          /\ UNCHANGED history

-----------------------------------------------------------------------------
(* Results of commands. *)

Done(k) == cmds' = [cmds EXCEPT ![k] = None]

LoadFails(k) ==
    /\ cmds[k] # None /\ cmds[k].type = "load"
    /\ Done(k)
    /\ UNCHANGED <<model, history>>

Clamp(i, n) == IF i > n THEN n ELSE i

SectionLoadedUnclamped_M(s, list) ==
    IF s = model.section
    THEN /\ model' = [model EXCEPT !.rows = BuildEntries(s, list)]
         /\ reloaded' = TRUE
         /\ UNCHANGED opened
    ELSE UNCHANGED <<model, history>>

SectionLoadedAnyway_M(s, list) ==
    LET rows == BuildEntries(s, list) IN
    /\ model' = [model EXCEPT !.rows = rows, !.rowIndex = Clamp(@, Len(rows))]
    /\ reloaded' = TRUE
    /\ UNCHANGED opened

SectionLoaded(s, list) ==
    LET rows == BuildEntries(s, list) IN
    IF s = model.section
    THEN /\ model' = [model EXCEPT !.rows = rows, !.rowIndex = Clamp(@, Len(rows))]
         /\ reloaded' = TRUE
         /\ UNCHANGED opened
    ELSE UNCHANGED <<model, history>>

LoadArrives(k) ==
    /\ cmds[k] # None /\ cmds[k].type = "load"
    /\ Done(k)
    /\ \E list \in Lists(Ids) : SectionLoaded(cmds[k].section, list)

(* executeAction calls a service, with the id of the entry's row unless    *)
(* the action is about the section; without a row it is an error.          *)
Reaches(cmd) ==
    \/ cmd.action.id \in {"group_probe_all", "invite_create", "queue_clear_completed"}
    \/ cmd.entry.kind = "record"

(* Done or failed: either way the section on the screen is loaded again. *)
ActionDone(k) ==
    /\ cmds[k] # None /\ cmds[k].type \in {"run", "add"}
    /\ cmds' = [cmds EXCEPT ![k] = Load(model.section)]
    /\ UNCHANGED <<model, history>>

OptionsFail(k) ==
    /\ cmds[k] = LoadOptions
    /\ Done(k)
    /\ model' = [model EXCEPT !.mode = "rows"]
    /\ UNCHANGED history

OptionsArrive(k) ==
    /\ cmds[k] = LoadOptions
    /\ Done(k)
    /\ \E g, u \in Lists(OptionIds) :
          model' = [model EXCEPT !.picker = [stage |-> 0, index |-> 1, groups |-> g,
                                             users |-> u, selected |-> None]]
    /\ UNCHANGED history

-----------------------------------------------------------------------------
Key ==
    \/ \E s \in Sections : OpenSection(s)
    \/ LeaveSection \/ MoveInRows \/ Refresh \/ ChooseRow
    \/ LeaveMenu \/ MoveInMenu \/ ChooseAction
    \/ LeaveForm \/ MoveInForm \/ ChooseInForm
    \/ MoveInConfirm \/ AnswerConfirm
    \/ LeavePicker \/ MoveInPicker \/ ChooseInPicker

Result ==
    \E k \in Slots :
        LoadArrives(k) \/ LoadFails(k) \/ ActionDone(k) \/ OptionsArrive(k) \/ OptionsFail(k)

Next == Key \/ Result

Spec == Init /\ [][Next]_vars

-----------------------------------------------------------------------------
(* Properties. *)

(* The record whose menu is open, on the screen or behind a dialog. *)
MenuOpen ==
    \/ model.mode = "actions"
    \/ model.mode = "form" /\ model.form.ret = "actions"
    \/ model.mode = "confirm" /\ model.pending # None /\ model.pending.ret = "actions"

(* Update and View index lists that messages replace under an open menu or *)
(* dialog, and follow pointers that late results reset; neither panics.    *)
NeverOutOfRange ==
    /\ MenuOpen => model.rowIndex \in DOMAIN model.rows /\ model.actionIndex \in DOMAIN model.actions
    /\ model.mode = "rows" /\ model.rows # <<>> => model.rowIndex \in DOMAIN model.rows
    /\ model.mode = "confirm" => model.pending # None
    /\ model.picker.stage = 1 => model.picker.selected # None
    /\ model.mode = "picker" => model.picker.index <= Len(Options) + 1

Offers(entry, act) ==
    \/ entry = SectionEntry(act)
    \/ entry.kind = "record" /\ \E i \in DOMAIN RowActions(entry.section) : RowActions(entry.section)[i] = act

(* What reaches a service is an action of the section its record is from;  *)
(* another's id would be taken for one of its own.                         *)
ActionsFitTheirRecords ==
    \A k \in Slots :
        cmds[k] # None /\ cmds[k].type = "run" /\ Reaches(cmds[k])
        => Offers(cmds[k].entry, cmds[k].action)

Started(k) == cmds[k] = None /\ cmds'[k] # None /\ cmds'[k].type = "run"

(* A dangerous action runs only out of the confirmation, for the action    *)
(* and the record it displays, even if the list behind it has changed.     *)
DangerIsConfirmed ==
    [][\A k \in Slots : Started(k) /\ cmds'[k].action.dangerous =>
          /\ model.mode = "confirm"
          /\ model.pending.action = cmds'[k].action
          /\ model.pending.entry = cmds'[k].entry]_vars

(* An action chosen from a menu runs for the record the menu was opened    *)
(* for, unless the list was replaced under it.  (If it was, the cursor may *)
(* be on another record: updateActions looks the record up again.)         *)
MenuKeepsItsRecord ==
    [][\A k \in Slots : Started(k) /\ MenuOpen /\ ~reloaded => cmds'[k].entry = opened]_vars
=============================================================================
