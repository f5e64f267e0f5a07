---------------------------- MODULE ConsoleProofs ----------------------------
(***************************************************************************)
(* Proofs about Console, for any sections, records, options and number of  *)
(* commands on their way.                                                  *)
(***************************************************************************)
EXTENDS Console, TLAPS

(* The cursors stand on lines that exist, and what a mode follows is there. *)
CursorsInRange ==
    /\ IF model.rows = <<>> THEN model.rowIndex = 1 ELSE model.rowIndex \in 1 .. Len(model.rows)
    /\ MenuOpen => model.rows # <<>> /\ model.actionIndex \in 1 .. Len(model.actions)
    /\ model.picker.index <= Len(Options) + 1

NothingIsMissing ==
    /\ model.mode = "form" => model.form.ret # "sections"
    /\ model.mode = "confirm" => model.pending # None
    /\ model.picker.stage = 1 => model.picker.selected # None
    /\ model.mode # "sections" => model.section \in Sections
    /\ \A k \in Slots : cmds[k] # None => model.section \in Sections

ScreenInv == TypeOK /\ CursorsInRange /\ NothingIsMissing

-----------------------------------------------------------------------------
(* Lemmas about the operators. *)

LEMMA MovesType ==
    ASSUME NEW i \in Cursors, NEW n \in Nat, NEW j \in Moves(i, n)
    PROVE  /\ j \in Cursors
           /\ i \in 1 .. n => j \in 1 .. n
           /\ n = 0 => i # 1
<1>1. i \in Int /\ i >= 1 /\ n \in Int
  BY DEF Cursors
<1>2. j \in {i - 1, i + 1} /\ j >= 1 /\ (j > i => j <= n)
  BY DEF Moves
<1>. QED  BY <1>1, <1>2 DEF Cursors

LEMMA MovesCursor ==
    ASSUME NEW i \in Cursors, NEW n, NEW j \in Moves(i, n)
    PROVE  j \in Cursors
BY DEF Moves, Cursors

LEMMA BackIsAnAction == Back \in ActionsOf(Sections)
BY DEF ActionsOf

SectionActionNames == {"group_probe_all", "invite_create", "route_add", "queue_clear_completed"}
RowActionNames ==
    {"group_probe", "group_disable", "user_block", "user_unblock", "user_rename", "user_test",
     "user_remove", "invite_revoke", "route_pause", "route_resume", "route_delete", "queue_retry"}

ActionsNamed(names) == [id : names, dangerous : BOOLEAN, fields : Nat]

LEMMA SectionActionsAre ==
    ASSUME NEW s
    PROVE  SectionActions(s) \in Seq(ActionsNamed(SectionActionNames))
<1>. DEFINE Probe  == <<Action("group_probe_all", FALSE, 0)>>
            Create == <<Action("invite_create", FALSE, 1)>>
            Add    == <<Action("route_add", FALSE, 0)>>
            Clear  == <<Action("queue_clear_completed", TRUE, 0)>>
            All    == Seq(ActionsNamed(SectionActionNames))
<1>1. SectionActions(s) \in {Probe, Create, Add, Clear, <<>>}
  BY DEF SectionActions
<1>2. Probe \in All /\ Create \in All /\ Add \in All /\ Clear \in All
  BY DEF Action, ActionsNamed, SectionActionNames
<1>3. <<>> \in All
  OBVIOUS
<1>. HIDE DEF Probe, Create, Add, Clear, All
<1>4. SectionActions(s) \in All
  BY <1>1, <1>2, <1>3
<1>. QED  BY <1>4 DEF All

LEMMA RowActionsAre ==
    ASSUME NEW s
    PROVE  RowActions(s) \in Seq(ActionsNamed(RowActionNames))
<1>. DEFINE Groups == <<Action("group_probe", FALSE, 0), Action("group_disable", TRUE, 0)>>
            Users  == <<Action("user_block", FALSE, 0), Action("user_unblock", FALSE, 0),
                        Action("user_rename", FALSE, 1), Action("user_test", FALSE, 0),
                        Action("user_remove", TRUE, 0)>>
            Invite == <<Action("invite_revoke", TRUE, 0)>>
            Routes == <<Action("route_pause", FALSE, 0), Action("route_resume", FALSE, 0),
                        Action("route_delete", TRUE, 0)>>
            Queued == <<Action("queue_retry", FALSE, 0)>>
            All    == Seq(ActionsNamed(RowActionNames))
<1>1. RowActions(s) \in {Groups, Users, Invite, Routes, Queued, <<>>}
  BY DEF RowActions
<1>2. Groups \in All /\ Invite \in All /\ Queued \in All
  BY DEF Action, ActionsNamed, RowActionNames
<1>3. Users \in All
  BY DEF Action, ActionsNamed, RowActionNames
<1>4. Routes \in All
  BY DEF Action, ActionsNamed, RowActionNames
<1>5. <<>> \in All
  OBVIOUS
<1>. HIDE DEF Groups, Users, Invite, Routes, Queued, All
<1>6. RowActions(s) \in All
  BY <1>1, <1>2, <1>3, <1>4, <1>5
<1>. QED  BY <1>6 DEF All

LEMMA SectionActionsType ==
    ASSUME NEW s \in Sections
    PROVE  /\ SectionActions(s) \in Seq(ActionsOf(Sections))
           /\ RowActions(s) \in Seq(ActionsOf(Sections))
<1>. DEFINE G(x) == {SectionActions(x)[i] : i \in DOMAIN SectionActions(x)}
                    \cup {RowActions(x)[i] : i \in DOMAIN RowActions(x)}
<1>1. \A i \in DOMAIN SectionActions(s) : SectionActions(s)[i] \in G(s)
  OBVIOUS
<1>2. \A i \in DOMAIN RowActions(s) : RowActions(s)[i] \in G(s)
  OBVIOUS
<1>3. ActionsOf(Sections) = {Back} \cup UNION {G(x) : x \in Sections}
  BY DEF ActionsOf
<1>. HIDE DEF G
<1>4. G(s) \subseteq ActionsOf(Sections)
  BY <1>3
<1>. QED  BY <1>1, <1>2, <1>4, SectionActionsAre, RowActionsAre

(* An action of a record is not one about the section, nor "back". *)
LEMMA RowActionsNeedRecords ==
    ASSUME NEW s, NEW i \in DOMAIN RowActions(s)
    PROVE  /\ RowActions(s)[i].id \notin SectionActionNames
           /\ RowActions(s)[i] # Back
<1>1. RowActions(s)[i] \in ActionsNamed(RowActionNames)
  BY RowActionsAre
<1>2. Back.id = "__back"
  BY DEF Back, Action
<1>. QED  BY <1>1, <1>2 DEF ActionsNamed, RowActionNames, SectionActionNames

LEMMA MenuType ==
    ASSUME NEW s \in Sections
    PROVE  /\ Append(RowActions(s), Back) \in Seq(ActionsOf(Sections))
           /\ 1 \in 1 .. Len(Append(RowActions(s), Back))
BY SectionActionsType, BackIsAnAction

EntriesOf(s) == {e \in Entries : e.kind = "record" => e.section = s}

LEMMA EntryKinds ==
    ASSUME NEW e \in Entries
    PROVE  /\ e.kind \in {"record", "action", "back"}
           /\ e.kind = "action" => e.action \in ActionsOf(Sections) /\ e = SectionEntry(e.action)
BY DEF Entries, Record, SectionEntry, BackEntry

LEMMA BackIsAnEntry == BackEntry \in Entries
BY DEF Entries

LEMMA ListsType ==
    ASSUME NEW S, NEW list \in Lists(S)
    PROVE  list \in Seq(S)
<1>1. PICK n \in 0 .. 2 : list \in [1 .. n -> S]
  BY DEF Lists
<1>. QED  BY <1>1

LEMMA BuildEntriesType ==
    ASSUME NEW s \in Sections, NEW list \in Lists(Ids)
    PROVE  /\ BuildEntries(s, list) \in Seq(EntriesOf(s))
           /\ Len(BuildEntries(s, list)) \in Nat \ {0}
           /\ BuildEntries(s, list) # <<>>
<1>. DEFINE A == [i \in DOMAIN list |-> Record(s, list[i])]
            B == [i \in DOMAIN SectionActions(s) |-> SectionEntry(SectionActions(s)[i])]
<1>1. list \in Seq(Ids)
  BY ListsType
<1>2. A \in Seq(EntriesOf(s)) /\ Len(A) \in Nat
  <2>1. \A i \in DOMAIN list : Record(s, list[i]) \in EntriesOf(s)
    BY <1>1 DEF Entries, EntriesOf, Record
  <2>. QED  BY <1>1, <2>1
<1>3. B \in Seq(EntriesOf(s)) /\ Len(B) \in Nat
  <2>1. \A i \in DOMAIN SectionActions(s) : SectionEntry(SectionActions(s)[i]) \in EntriesOf(s)
    BY SectionActionsType DEF Entries, EntriesOf, SectionEntry
  <2>. QED  BY SectionActionsType, <2>1
<1>4. <<BackEntry>> \in Seq(EntriesOf(s)) /\ Len(<<BackEntry>>) = 1
  BY BackIsAnEntry DEF EntriesOf, BackEntry
<1>5. BuildEntries(s, list) = A \o B \o <<BackEntry>>
  BY DEF BuildEntries
<1>. HIDE DEF A, B
<1>. QED  BY <1>2, <1>3, <1>4, <1>5

LEMMA CommandTypes ==
    /\ \A s \in Sections : Load(s) \in Commands
    /\ \A a \in ActionsOf(Sections), e \in Entries : Run(a, e) \in Commands
    /\ \A g, u \in OptionIds : AddRoute(g, u) \in Commands
    /\ LoadOptions \in Commands
    /\ \A c \in Commands : c # None /\ (c.type = "load" => c.section \in Sections)
<1>1. \A s \in Sections : Load(s) \in Commands
  BY DEF Commands
<1>2. \A a \in ActionsOf(Sections), e \in Entries : Run(a, e) \in Commands
  BY DEF Commands
<1>3. \A g, u \in OptionIds : AddRoute(g, u) \in Commands
  BY DEF Commands
<1>4. LoadOptions \in Commands
  BY DEF Commands
<1>5. ASSUME NEW c \in Commands
      PROVE  c # None /\ (c.type = "load" => c.section \in Sections)
  BY NoneIsNothing DEF Commands, Load, Run, AddRoute, LoadOptions
<1>. QED  BY <1>1, <1>2, <1>3, <1>4, <1>5

LEMMA IssueType ==
    ASSUME cmds \in [Slots -> Commands \cup {None}], NEW c \in Commands, Issue(c)
    PROVE  cmds' \in [Slots -> Commands \cup {None}]
BY DEF Issue

-----------------------------------------------------------------------------
(* Every step keeps the types. *)

LEMMA ModelUpdates ==
    ASSUME NEW m \in Models
    PROVE  /\ \A x \in Modes : [m EXCEPT !.mode = x] \in Models
           /\ \A x \in Sections \cup {None} : [m EXCEPT !.section = x] \in Models
           /\ \A x \in Seq(Entries) : [m EXCEPT !.rows = x] \in Models
           /\ \A x \in Cursors : [m EXCEPT !.rowIndex = x] \in Models
           /\ \A x \in Seq(ActionsOf(Sections)) : [m EXCEPT !.actions = x] \in Models
           /\ \A x \in Cursors : [m EXCEPT !.actionIndex = x] \in Models
           /\ \A x \in Forms : [m EXCEPT !.form = x] \in Models
           /\ \A x \in Pendings \cup {None} : [m EXCEPT !.pending = x] \in Models
           /\ \A x \in {1, 2} : [m EXCEPT !.confirmIndex = x] \in Models
           /\ \A x \in Pickers : [m EXCEPT !.picker = x] \in Models
<1>. DEFINE F == Seq(Entries)
            G == Seq(ActionsOf(Sections))
<1>. HIDE DEF F, G
<1>1. \A x \in Modes : [m EXCEPT !.mode = x] \in Models
  BY DEF Models
<1>2. \A x \in Sections \cup {None} : [m EXCEPT !.section = x] \in Models
  BY DEF Models
<1>3. \A x \in Seq(Entries) : [m EXCEPT !.rows = x] \in Models
  BY DEF Models
<1>4. \A x \in Cursors : [m EXCEPT !.rowIndex = x] \in Models
  BY DEF Models
<1>5. \A x \in Seq(ActionsOf(Sections)) : [m EXCEPT !.actions = x] \in Models
  BY DEF Models
<1>6. \A x \in Cursors : [m EXCEPT !.actionIndex = x] \in Models
  BY DEF Models
<1>7. \A x \in Forms : [m EXCEPT !.form = x] \in Models
  BY DEF Models
<1>8. \A x \in Pendings \cup {None} : [m EXCEPT !.pending = x] \in Models
  BY DEF Models
<1>9. \A x \in {1, 2} : [m EXCEPT !.confirmIndex = x] \in Models
  BY DEF Models
<1>10. \A x \in Pickers : [m EXCEPT !.picker = x] \in Models
  BY DEF Models
<1>. QED  BY <1>1, <1>2, <1>3, <1>4, <1>5, <1>6, <1>7, <1>8, <1>9, <1>10

LEMMA NothingTypes ==
    /\ NoPicker \in Pickers
    /\ NoForm \in Forms
    /\ 1 \in Cursors
    /\ <<>> \in Seq(Entries) /\ <<>> \in Seq(ActionsOf(Sections))
BY BackIsAnAction, BackIsAnEntry DEF NoPicker, NoForm, Pickers, Forms, Cursors

LEMMA SubmitType ==
    ASSUME cmds \in [Slots -> Commands \cup {None}], opened \in Entries \cup {None},
           reloaded \in BOOLEAN, NEW m \in Models, NEW act \in ActionsOf(Sections),
           NEW entry \in Entries, NEW ret \in {"rows", "actions"}, Submit(m, act, entry, ret)
    PROVE  TypeOK'
<1>1. CASE act.dangerous
  <2>. DEFINE p == [action |-> act, entry |-> entry, ret |-> ret]
  <2>1. p \in Pendings
    BY DEF Pendings
  <2>2. Silent([m EXCEPT !.pending = p, !.confirmIndex = 1, !.mode = "confirm"])
    BY <1>1 DEF Submit
  <2>. HIDE DEF p
  <2>3. model' \in Models
    BY <2>1, <2>2, ModelUpdates DEF Silent, Modes
  <2>. QED  BY <2>2, <2>3 DEF Silent, TypeOK, history
<1>2. CASE ~act.dangerous
  <2>1. /\ model' = IF ret = "actions"
                    THEN [m EXCEPT !.mode = "rows", !.actions = <<>>, !.actionIndex = 1]
                    ELSE [m EXCEPT !.mode = "rows"]
        /\ Issue(Run(act, entry)) /\ UNCHANGED history
    BY <1>2 DEF Submit
  <2>2. model' \in Models
    BY <2>1, ModelUpdates, NothingTypes DEF Modes
  <2>. QED  BY <2>1, <2>2, IssueType, CommandTypes DEF TypeOK, history
<1>. QED  BY <1>1, <1>2

LEMMA StartActionType ==
    ASSUME ScreenInv, NEW act \in ActionsOf(Sections), NEW entry \in Entries,
           model.mode \in {"rows", "actions"}, StartAction(act, entry)
    PROVE  TypeOK'
<1>. model \in Models /\ cmds \in [Slots -> Commands \cup {None}]
     /\ opened \in Entries \cup {None} /\ reloaded \in BOOLEAN
  BY DEF ScreenInv, TypeOK
<1>1. CASE OpenPicker
  <2>1. model' \in Models
    BY <1>1, ModelUpdates, NothingTypes DEF OpenPicker, Modes
  <2>. QED  BY <1>1, <2>1, IssueType, CommandTypes DEF OpenPicker, TypeOK, history
<1>2. CASE OpenForm(act, entry)
  <2>1. [action |-> act, entry |-> entry, index |-> 1, ret |-> model.mode] \in Forms
    BY DEF Forms, Cursors
  <2>2. model' \in Models
    BY <1>2, <2>1, ModelUpdates DEF OpenForm, Silent, Modes
  <2>. QED  BY <1>2, <2>2 DEF OpenForm, Silent, TypeOK, history
<1>3. CASE Submit(model, act, entry, model.mode)
  BY <1>3, SubmitType
<1>. QED  BY <1>1, <1>2, <1>3 DEF StartAction

LEMMA RowTypes ==
    ASSUME ScreenInv, model.rows # <<>>
    PROVE  model.rows[model.rowIndex] \in Entries
BY DEF ScreenInv, TypeOK, Models, CursorsInRange

LEMMA ActionTypes ==
    ASSUME ScreenInv, model.mode = "actions"
    PROVE  model.actions[model.actionIndex] \in ActionsOf(Sections)
BY DEF ScreenInv, TypeOK, Models, CursorsInRange, MenuOpen

LEMMA CloseMenuType ==
    ASSUME NEW m \in Models
    PROVE  CloseMenu(m) \in Models
BY ModelUpdates, NothingTypes DEF CloseMenu, Modes

LEMMA SilentType ==
    ASSUME TypeOK, NEW m \in Models, Silent(m)
    PROVE  TypeOK'
BY DEF TypeOK, Silent, history

LEMMA FieldTypes ==
    ASSUME TypeOK
    PROVE  /\ model.mode \in Modes /\ model.section \in Sections \cup {None}
           /\ model.rows \in Seq(Entries) /\ model.rowIndex \in Cursors
           /\ model.actions \in Seq(ActionsOf(Sections)) /\ model.actionIndex \in Cursors
           /\ model.form \in Forms /\ model.pending \in Pendings \cup {None}
           /\ model.confirmIndex \in {1, 2} /\ model.picker \in Pickers
BY DEF TypeOK, Models

LEMMA RowsTypes ==
    ASSUME ScreenInv,
           (\E s \in Sections : OpenSection(s)) \/ LeaveSection \/ MoveInRows \/ Refresh \/ ChooseRow
    PROVE  TypeOK'
<1>. TypeOK
  BY DEF ScreenInv
<1>1. ASSUME NEW s \in Sections, OpenSection(s)
      PROVE  TypeOK'
  <2>1. model' \in Models
    BY <1>1, ModelUpdates, NothingTypes DEF OpenSection, Modes, TypeOK
  <2>. QED  BY <1>1, <2>1, IssueType, CommandTypes DEF OpenSection, TypeOK, history
<1>2. CASE LeaveSection
  BY <1>2, ModelUpdates, SilentType DEF LeaveSection, Modes, TypeOK
<1>3. CASE MoveInRows
  <2>1. PICK i \in Moves(model.rowIndex, Len(model.rows)) : Silent([model EXCEPT !.rowIndex = i])
    BY <1>3 DEF MoveInRows
  <2>2. Len(model.rows) \in Nat
    BY FieldTypes
  <2>3. i \in Cursors
    BY <2>2, FieldTypes, MovesType
  <2>. QED  BY <2>1, <2>3, ModelUpdates, SilentType DEF TypeOK
<1>4. CASE Refresh
  BY <1>4, IssueType, CommandTypes DEF Refresh, ScreenInv, NothingIsMissing, TypeOK, history
<1>5. CASE ChooseRow
  <2>. DEFINE entry == model.rows[model.rowIndex]
  <2>1. entry \in Entries
    BY <1>5, RowTypes DEF ChooseRow
  <2>2. CASE Silent([model EXCEPT !.mode = "sections"])
    BY <2>2, ModelUpdates, SilentType DEF Modes, TypeOK
  <2>3. CASE entry.kind = "action" /\ StartAction(entry.action, entry)
    BY <1>5, <2>1, <2>3, EntryKinds, StartActionType DEF ChooseRow
  <2>4. CASE OpenMenu(entry)
    <3>1. model.section \in Sections
      BY <1>5 DEF ChooseRow, ScreenInv, NothingIsMissing
    <3>2. model' \in Models
      BY <2>4, <3>1, ModelUpdates, MenuType, NothingTypes DEF OpenMenu, Modes, TypeOK
    <3>. QED  BY <2>1, <2>4, <3>2 DEF OpenMenu, TypeOK
  <2>. QED  BY <1>5, <2>2, <2>3, <2>4 DEF ChooseRow
<1>. QED  BY <1>1, <1>2, <1>3, <1>4, <1>5

LEMMA MenuTypes ==
    ASSUME ScreenInv, LeaveMenu \/ MoveInMenu \/ ChooseAction
    PROVE  TypeOK'
<1>. TypeOK
  BY DEF ScreenInv
<1>1. CASE LeaveMenu
  BY <1>1, CloseMenuType, SilentType DEF LeaveMenu, TypeOK
<1>2. CASE MoveInMenu
  <2>1. PICK i \in Moves(model.actionIndex, Len(model.actions)) : Silent([model EXCEPT !.actionIndex = i])
    BY <1>2 DEF MoveInMenu
  <2>2. Len(model.actions) \in Nat
    BY FieldTypes
  <2>3. i \in Cursors
    BY <2>2, FieldTypes, MovesType
  <2>. QED  BY <2>1, <2>3, ModelUpdates, SilentType DEF TypeOK
<1>3. CASE ChooseAction
  <2>. DEFINE act   == model.actions[model.actionIndex]
              entry == model.rows[model.rowIndex]
  <2>1. act \in ActionsOf(Sections) /\ entry \in Entries
    BY <1>3, ActionTypes, RowTypes DEF ChooseAction, ScreenInv, CursorsInRange, MenuOpen
  <2>2. CASE Silent(CloseMenu(model))
    BY <2>2, CloseMenuType, SilentType DEF TypeOK
  <2>3. CASE StartAction(act, entry)
    BY <1>3, <2>1, <2>3, StartActionType DEF ChooseAction
  <2>. QED  BY <1>3, <2>2, <2>3 DEF ChooseAction
<1>. QED  BY <1>1, <1>2, <1>3

LEMMA FormTypes ==
    ASSUME ScreenInv, LeaveForm \/ MoveInForm \/ ChooseInForm
    PROVE  TypeOK'
<1>. TypeOK /\ model \in Models
  BY DEF ScreenInv, TypeOK
<1>. model.form \in Forms /\ model.form.index \in Cursors
  BY FieldTypes DEF Forms
<1>1. ASSUME NEW i \in Cursors, Silent([model EXCEPT !.form.index = i])
      PROVE  TypeOK'
  <2>1. [model.form EXCEPT !.index = i] \in Forms
    BY <1>1 DEF Forms
  <2>2. [model EXCEPT !.form = [model.form EXCEPT !.index = i]] \in Models
    BY <2>1, ModelUpdates
  <2>3. [model EXCEPT !.form.index = i] = [model EXCEPT !.form = [model.form EXCEPT !.index = i]]
    OBVIOUS
  <2>. QED  BY <1>1, <2>2, <2>3, SilentType
<1>2. CASE LeaveForm
  <2>1. model.form.ret \in Modes
    BY DEF Forms, Modes
  <2>. QED  BY <1>2, <2>1, ModelUpdates, NothingTypes, SilentType DEF LeaveForm
<1>3. CASE MoveInForm
  BY <1>1, <1>3, MovesCursor DEF MoveInForm
<1>4. CASE ChooseInForm
  <2>1. CASE model.form.index < SaveAt - 1 /\ Silent([model EXCEPT !.form.index = @ + 1])
    <3>1. model.form.index + 1 \in Cursors
      BY DEF Cursors
    <3>. QED  BY <1>1, <2>1, <3>1
  <2>2. CASE Submit([model EXCEPT !.form = NoForm], model.form.action, model.form.entry, model.form.ret)
    <3>1. [model EXCEPT !.form = NoForm] \in Models
      BY ModelUpdates, NothingTypes
    <3>2. /\ model.form.action \in ActionsOf(Sections) /\ model.form.entry \in Entries
          /\ model.form.ret \in {"rows", "actions"}
      BY <1>4 DEF ChooseInForm, Forms, ScreenInv, NothingIsMissing
    <3>. QED  BY <2>2, <3>1, <3>2, SubmitType DEF TypeOK
  <2>. QED  BY <1>2, <1>4, <2>1, <2>2 DEF ChooseInForm
<1>. QED  BY <1>2, <1>3, <1>4

LEMMA ConfirmTypes ==
    ASSUME ScreenInv, MoveInConfirm \/ AnswerConfirm
    PROVE  TypeOK'
<1>. TypeOK /\ model \in Models
  BY DEF ScreenInv, TypeOK
<1>1. CASE MoveInConfirm
  <2>1. PICK i \in Moves(model.confirmIndex, 2) : Silent([model EXCEPT !.confirmIndex = i])
    BY <1>1 DEF MoveInConfirm
  <2>2. i \in {1, 2}
    BY FieldTypes DEF Moves
  <2>. QED  BY <2>1, <2>2, ModelUpdates, SilentType
<1>2. model.pending # None => model.pending \in Pendings /\ model.pending.ret \in {"rows", "actions"}
  BY FieldTypes DEF Pendings
<1>3. CASE Decline
  <2>. DEFINE back == IF model.pending = None THEN "rows" ELSE model.pending.ret
  <2>1. back \in Modes
    BY <1>2 DEF Modes
  <2>2. Silent([model EXCEPT !.pending = None, !.confirmIndex = 2, !.mode = back])
    BY <1>3 DEF Decline
  <2>. HIDE DEF back
  <2>. QED  BY <2>1, <2>2, ModelUpdates, SilentType
<1>4. CASE Execute
  <2>. DEFINE m == [model EXCEPT !.pending = None, !.mode = "rows", !.confirmIndex = 1]
  <2>1. m \in Models
    BY ModelUpdates DEF Modes
  <2>. HIDE DEF m
  <2>2. CASE model.pending = None
    BY <1>4, <2>2, ModelUpdates, SilentType DEF Execute, Modes
  <2>3. CASE model.pending # None
    <3>1. /\ model' = IF model.pending.ret = "actions" THEN CloseMenu(m) ELSE m
          /\ Issue(Run(model.pending.action, model.pending.entry))
          /\ UNCHANGED history
      BY <1>4, <2>3 DEF Execute, m
    <3>2. model' \in Models
      BY <2>1, <3>1, CloseMenuType
    <3>3. Run(model.pending.action, model.pending.entry) \in Commands
      BY <1>2, <2>3, CommandTypes DEF Pendings
    <3>. QED  BY <3>1, <3>2, <3>3, IssueType DEF TypeOK, history
  <2>. QED  BY <2>2, <2>3
<1>. QED  BY <1>1, <1>3, <1>4 DEF AnswerConfirm

LEMMA PickerFields ==
    ASSUME model.picker \in Pickers
    PROVE  /\ model.picker.stage \in {0, 1} /\ model.picker.index \in Cursors
           /\ model.picker.selected \in OptionIds \cup {None}
           /\ Options \in Seq(OptionIds) /\ Len(Options) \in Nat
<1>1. /\ model.picker.stage \in {0, 1} /\ model.picker.index \in Cursors
      /\ model.picker.selected \in OptionIds \cup {None}
  BY DEF Pickers
<1>2. model.picker.groups \in Seq(OptionIds) /\ model.picker.users \in Seq(OptionIds)
  BY DEF Pickers
<1>. QED  BY <1>1, <1>2 DEF Options

LEMMA PickerUpdates ==
    ASSUME NEW p \in Pickers
    PROVE  /\ \A x \in {0, 1} : [p EXCEPT !.stage = x] \in Pickers
           /\ \A x \in Cursors : [p EXCEPT !.index = x] \in Pickers
           /\ \A x \in OptionIds : [p EXCEPT !.selected = x] \in Pickers
<1>1. \A x \in {0, 1} : [p EXCEPT !.stage = x] \in Pickers
  BY DEF Pickers
<1>2. \A x \in Cursors : [p EXCEPT !.index = x] \in Pickers
  BY DEF Pickers
<1>3. \A x \in OptionIds : [p EXCEPT !.selected = x] \in Pickers
  BY DEF Pickers
<1>. QED  BY <1>1, <1>2, <1>3

LEMMA PickerTypes ==
    ASSUME ScreenInv, LeavePicker \/ MoveInPicker \/ ChooseInPicker
    PROVE  TypeOK'
<1>. TypeOK /\ model \in Models
  BY DEF ScreenInv, TypeOK
<1>. DEFINE p == model.picker
<1>1. p \in Pickers
  BY FieldTypes
<1>2. ASSUME NEW q \in Pickers, Silent([model EXCEPT !.picker = q])
      PROVE  TypeOK'
  BY <1>2, ModelUpdates, SilentType
<1>3. CASE LeavePicker
  <2>1. CASE p.stage = 1
    <3>1. Silent([model EXCEPT !.picker = [p EXCEPT !.stage = 0, !.index = 1]])
      BY <1>3, <2>1 DEF LeavePicker
    <3>. QED  BY <1>1, <1>2, <3>1, PickerUpdates, NothingTypes
  <2>2. CASE p.stage # 1
    BY <1>3, <2>2, ModelUpdates, NothingTypes, SilentType DEF LeavePicker, Modes
  <2>. QED  BY <2>1, <2>2
<1>4. CASE MoveInPicker
  <2>1. PICK i \in Moves(p.index, Len(Options) + 1) : Silent([model EXCEPT !.picker.index = i])
    BY <1>4 DEF MoveInPicker
  <2>2. i \in Cursors
    BY <1>1, PickerFields, MovesCursor
  <2>3. Silent([model EXCEPT !.picker = [p EXCEPT !.index = i]])
    BY <2>1
  <2>. QED  BY <1>1, <1>2, <2>2, <2>3, PickerUpdates
<1>5. CASE ChooseInPicker
  <2>1. CASE p.index <= Len(Options) /\ p.stage = 0
    <3>. DEFINE g == Options[p.index]
    <3>1. g \in OptionIds
      BY <1>1, <2>1, PickerFields DEF Cursors
    <3>2. Silent([model EXCEPT !.picker.selected = g, !.picker.stage = 1, !.picker.index = 1])
      BY <1>1, <1>5, <2>1, PickerFields DEF ChooseInPicker
    <3>3. Silent([model EXCEPT !.picker = [p EXCEPT !.selected = g, !.stage = 1, !.index = 1]])
      BY <3>2
    <3>. HIDE DEF g
    <3>. QED  BY <1>1, <1>2, <3>1, <3>3, PickerUpdates, NothingTypes
  <2>2. CASE p.index <= Len(Options) /\ p.stage = 1
    <3>1. Options[p.index] \in OptionIds
      BY <1>1, <2>2, PickerFields DEF Cursors
    <3>2. p.selected \in OptionIds
      BY <1>1, <2>2, PickerFields DEF ScreenInv, NothingIsMissing
    <3>3. /\ Issue(AddRoute(p.selected, Options[p.index]))
          /\ model' = [model EXCEPT !.picker = NoPicker, !.mode = "rows"]
          /\ UNCHANGED history
      BY <1>1, <1>5, <2>2, PickerFields DEF ChooseInPicker, Cursors
    <3>4. model' \in Models
      BY <3>3, ModelUpdates, NothingTypes DEF Modes
    <3>5. AddRoute(p.selected, Options[p.index]) \in Commands
      BY <3>1, <3>2, CommandTypes
    <3>. QED  BY <3>3, <3>4, <3>5, IssueType DEF TypeOK, history
  <2>. QED  BY <1>3, <1>5, <2>1, <2>2 DEF ChooseInPicker
<1>. QED  BY <1>3, <1>4, <1>5

LEMMA ResultTypes ==
    ASSUME ScreenInv, Result
    PROVE  TypeOK'
<1>. TypeOK /\ model \in Models
  BY DEF ScreenInv, TypeOK
<1>. PICK k \in Slots : LoadArrives(k) \/ LoadFails(k) \/ ActionDone(k) \/ OptionsArrive(k) \/ OptionsFail(k)
  BY DEF Result
<1>1. Done(k) => cmds' \in [Slots -> Commands \cup {None}]
  BY DEF TypeOK, Done
<1>2. CASE LoadArrives(k)
  <2>1. PICK list \in Lists(Ids) : SectionLoaded(cmds[k].section, list)
    BY <1>2 DEF LoadArrives
  <2>2. CASE cmds[k].section = model.section
    <3>. DEFINE s    == cmds[k].section
                rows == BuildEntries(s, list)
    <3>1. s \in Sections
      BY <1>2, CommandTypes DEF LoadArrives, TypeOK
    <3>2. rows \in Seq(EntriesOf(s)) /\ Len(rows) \in Nat \ {0}
      BY <3>1, BuildEntriesType
    <3>3. rows \in Seq(Entries)
      BY <3>2 DEF EntriesOf
    <3>4. /\ model' = [model EXCEPT !.rows = rows, !.rowIndex = Clamp(model.rowIndex, Len(rows))]
          /\ reloaded' = TRUE /\ opened' = opened
      BY <2>1, <2>2 DEF SectionLoaded
    <3>5. Clamp(model.rowIndex, Len(rows)) \in Cursors
      BY <3>2, FieldTypes DEF Clamp, Cursors
    <3>. HIDE DEF rows
    <3>6. model' \in Models
      BY <3>3, <3>4, <3>5, ModelUpdates
    <3>. QED  BY <1>1, <1>2, <3>4, <3>6 DEF LoadArrives, TypeOK
  <2>3. CASE cmds[k].section # model.section
    BY <1>1, <1>2, <2>1, <2>3 DEF SectionLoaded, LoadArrives, TypeOK, history
  <2>. QED  BY <2>2, <2>3
<1>3. CASE LoadFails(k)
  BY <1>1, <1>3 DEF LoadFails, TypeOK, history
<1>4. CASE ActionDone(k)
  <2>1. Load(model.section) \in Commands
    BY <1>4, CommandTypes DEF ActionDone, ScreenInv, NothingIsMissing
  <2>. QED  BY <1>4, <2>1 DEF ActionDone, TypeOK, history
<1>5. CASE OptionsArrive(k)
  <2>1. PICK g \in Lists(OptionIds), u \in Lists(OptionIds) :
           model' = [model EXCEPT !.picker = [stage |-> 0, index |-> 1, groups |-> g,
                                              users |-> u, selected |-> None]]
    BY <1>5 DEF OptionsArrive
  <2>2. [stage |-> 0, index |-> 1, groups |-> g, users |-> u, selected |-> None] \in Pickers
    BY ListsType DEF Pickers, Cursors
  <2>3. model' \in Models
    BY <2>1, <2>2, ModelUpdates
  <2>. QED  BY <1>1, <1>5, <2>3 DEF OptionsArrive, TypeOK, history
<1>6. CASE OptionsFail(k)
  <2>1. model' \in Models
    BY <1>6, ModelUpdates DEF OptionsFail, Modes
  <2>. QED  BY <1>1, <1>6, <2>1 DEF OptionsFail, TypeOK, history
<1>. QED  BY <1>2, <1>3, <1>4, <1>5, <1>6

-----------------------------------------------------------------------------
(* Every step keeps the cursors in range, and nothing goes missing. *)

LEMMA SubmitScreen ==
    ASSUME ScreenInv, NEW m \in {model, [model EXCEPT !.form = NoForm]},
           NEW act \in ActionsOf(Sections), NEW entry \in Entries, NEW ret \in {"rows", "actions"},
           model.section \in Sections,
           ret = "actions" => model.rows # <<>> /\ model.actionIndex \in 1 .. Len(model.actions),
           Submit(m, act, entry, ret)
    PROVE  CursorsInRange' /\ NothingIsMissing'
<1>. model \in Models
  BY DEF ScreenInv, TypeOK
<1>1. CASE act.dangerous
  <2>. DEFINE p == [action |-> act, entry |-> entry, ret |-> ret]
  <2>1. p # None /\ p.ret = ret
    <3>1. p \in Pendings
      BY DEF Pendings
    <3>. QED  BY <3>1, NoneIsNothing
  <2>2. Silent([m EXCEPT !.pending = p, !.confirmIndex = 1, !.mode = "confirm"])
    BY <1>1 DEF Submit
  <2>. HIDE DEF p
  <2>3. CursorsInRange'
    BY <2>1, <2>2 DEF Silent, Models, ScreenInv, CursorsInRange, MenuOpen, Options
  <2>4. NothingIsMissing'
    BY <2>1, <2>2 DEF Silent, NoForm, Models, ScreenInv, NothingIsMissing
  <2>. QED  BY <2>3, <2>4
<1>2. CASE ~act.dangerous
  <2>1. model' = IF ret = "actions"
                 THEN [m EXCEPT !.mode = "rows", !.actions = <<>>, !.actionIndex = 1]
                 ELSE [m EXCEPT !.mode = "rows"]
    BY <1>2 DEF Submit
  <2>2. CursorsInRange'
    BY <2>1 DEF Models, ScreenInv, CursorsInRange, MenuOpen, Options
  <2>3. NothingIsMissing'
    BY <2>1 DEF Models, ScreenInv, NothingIsMissing
  <2>. QED  BY <2>2, <2>3
<1>. QED  BY <1>1, <1>2

LEMMA StartActionScreen ==
    ASSUME ScreenInv, NEW act \in ActionsOf(Sections), NEW entry \in Entries,
           model.mode \in {"rows", "actions"}, model.rows # <<>>, StartAction(act, entry)
    PROVE  CursorsInRange' /\ NothingIsMissing'
<1>. model \in Models
  BY DEF ScreenInv, TypeOK
<1>1. CASE OpenPicker
  <2>1. CursorsInRange'
    BY <1>1 DEF OpenPicker, NoPicker, Models, ScreenInv, CursorsInRange, MenuOpen, Options
  <2>2. NothingIsMissing'
    BY <1>1 DEF OpenPicker, NoPicker, Models, ScreenInv, NothingIsMissing
  <2>. QED  BY <2>1, <2>2
<1>2. CASE OpenForm(act, entry)
  <2>1. CursorsInRange'
    BY <1>2 DEF OpenForm, Silent, Models, ScreenInv, CursorsInRange, MenuOpen, Options
  <2>2. NothingIsMissing'
    BY <1>2 DEF OpenForm, Silent, Models, ScreenInv, NothingIsMissing
  <2>. QED  BY <2>1, <2>2
<1>3. CASE Submit(model, act, entry, model.mode)
  BY <1>3, SubmitScreen DEF ScreenInv, CursorsInRange, NothingIsMissing, MenuOpen
<1>. QED  BY <1>1, <1>2, <1>3 DEF StartAction

LEMMA RowsScreen ==
    ASSUME ScreenInv,
           (\E s \in Sections : OpenSection(s)) \/ LeaveSection \/ MoveInRows \/ Refresh \/ ChooseRow
    PROVE  CursorsInRange' /\ NothingIsMissing'
<1>. model \in Models
  BY DEF ScreenInv, TypeOK
<1>1. ASSUME NEW s \in Sections, OpenSection(s)
      PROVE  CursorsInRange' /\ NothingIsMissing'
  <2>. DEFINE m == [model EXCEPT !.mode = "rows", !.section = s, !.rows = <<>>, !.rowIndex = 1]
              n == [m EXCEPT !.actions = <<>>, !.actionIndex = 1, !.pending = None]
  <2>1. m \in Models
    BY ModelUpdates, NothingTypes DEF Modes
  <2>2. m.mode = "rows" /\ m.section = s /\ m.rows = <<>> /\ m.rowIndex = 1
    BY DEF Models
  <2>3. model' = [n EXCEPT !.confirmIndex = 1, !.picker = NoPicker]
    BY <1>1 DEF OpenSection
  <2>. HIDE DEF m
  <2>4. model'.mode = "rows" /\ model'.section = s /\ model'.rows = <<>> /\ model'.rowIndex = 1
    BY <2>1, <2>2, <2>3 DEF Models
  <2>5. model'.picker = NoPicker
    BY <2>1, <2>3 DEF Models
  <2>6. CursorsInRange'
    BY <2>4, <2>5 DEF NoPicker, CursorsInRange, MenuOpen, Options
  <2>7. NothingIsMissing'
    BY <2>4, <2>5 DEF NoPicker, NothingIsMissing
  <2>. QED  BY <2>6, <2>7
<1>2. CASE LeaveSection
  <2>1. CursorsInRange'
    BY <1>2 DEF LeaveSection, Silent, Models, ScreenInv, CursorsInRange, MenuOpen, Options
  <2>2. NothingIsMissing'
    BY <1>2 DEF LeaveSection, Silent, Models, ScreenInv, NothingIsMissing
  <2>. QED  BY <2>1, <2>2
<1>3. CASE MoveInRows
  <2>1. PICK i \in Moves(model.rowIndex, Len(model.rows)) : Silent([model EXCEPT !.rowIndex = i])
    BY <1>3 DEF MoveInRows
  <2>2. model.rows # <<>> /\ i \in 1 .. Len(model.rows)
    <3>1. Len(model.rows) \in Nat /\ (model.rows = <<>> => Len(model.rows) = 0)
      BY FieldTypes DEF ScreenInv
    <3>. QED  BY <3>1, FieldTypes, MovesType DEF ScreenInv, CursorsInRange
  <2>3. CursorsInRange'
    BY <1>3, <2>1, <2>2 DEF MoveInRows, Silent, Models, ScreenInv, CursorsInRange, MenuOpen, Options
  <2>4. NothingIsMissing'
    BY <2>1 DEF Silent, history, Models, ScreenInv, NothingIsMissing
  <2>. QED  BY <2>3, <2>4
<1>4. CASE Refresh
  <2>1. CursorsInRange'
    BY <1>4 DEF Refresh, history, Models, ScreenInv, CursorsInRange, MenuOpen, Options
  <2>2. NothingIsMissing'
    BY <1>4 DEF Refresh, history, Models, ScreenInv, NothingIsMissing
  <2>. QED  BY <2>1, <2>2
<1>5. CASE ChooseRow
  <2>. DEFINE entry == model.rows[model.rowIndex]
  <2>1. entry \in Entries
    BY <1>5, RowTypes DEF ChooseRow
  <2>2. CASE Silent([model EXCEPT !.mode = "sections"])
    <3>1. CursorsInRange'
      BY <2>2 DEF Silent, Models, ScreenInv, CursorsInRange, MenuOpen, Options
    <3>2. NothingIsMissing'
      BY <2>2 DEF Silent, Models, ScreenInv, NothingIsMissing
    <3>. QED  BY <3>1, <3>2
  <2>3. CASE entry.kind = "action" /\ StartAction(entry.action, entry)
    BY <1>5, <2>1, <2>3, EntryKinds, StartActionScreen DEF ChooseRow
  <2>4. CASE OpenMenu(entry)
    <3>1. model.section \in Sections
      BY <1>5 DEF ChooseRow, ScreenInv, NothingIsMissing
    <3>2. 1 \in 1 .. Len(Append(RowActions(model.section), Back))
      BY <3>1, MenuType
    <3>3. CursorsInRange'
      BY <1>5, <2>4, <3>2 DEF ChooseRow, OpenMenu, Models, ScreenInv, CursorsInRange, MenuOpen, Options
    <3>4. NothingIsMissing'
      BY <1>5, <2>4, <3>1 DEF OpenMenu, Models, ScreenInv, NothingIsMissing
    <3>. QED  BY <3>3, <3>4
  <2>. QED  BY <1>5, <2>2, <2>3, <2>4 DEF ChooseRow
<1>. QED  BY <1>1, <1>2, <1>3, <1>4, <1>5

LEMMA MenuScreen ==
    ASSUME ScreenInv, LeaveMenu \/ MoveInMenu \/ ChooseAction
    PROVE  CursorsInRange' /\ NothingIsMissing'
<1>. model \in Models
  BY DEF ScreenInv, TypeOK
<1>1. ASSUME model.mode = "actions", Silent(CloseMenu(model))
      PROVE  CursorsInRange' /\ NothingIsMissing'
  <2>1. CursorsInRange'
    BY <1>1 DEF CloseMenu, Silent, Models, ScreenInv, CursorsInRange, MenuOpen, Options
  <2>2. NothingIsMissing'
    BY <1>1 DEF CloseMenu, Silent, Models, ScreenInv, NothingIsMissing
  <2>. QED  BY <2>1, <2>2
<1>2. CASE LeaveMenu
  BY <1>1, <1>2 DEF LeaveMenu
<1>3. CASE MoveInMenu
  <2>1. PICK i \in Moves(model.actionIndex, Len(model.actions)) : Silent([model EXCEPT !.actionIndex = i])
    BY <1>3 DEF MoveInMenu
  <2>2. i \in 1 .. Len(model.actions)
    <3>1. Len(model.actions) \in Nat
      BY FieldTypes DEF ScreenInv
    <3>. QED  BY <1>3, <3>1, FieldTypes, MovesType DEF ScreenInv, CursorsInRange, MenuOpen, MoveInMenu
  <2>3. CursorsInRange'
    BY <1>3, <2>1, <2>2 DEF MoveInMenu, Silent, Models, ScreenInv, CursorsInRange, MenuOpen, Options
  <2>4. NothingIsMissing'
    BY <2>1 DEF Silent, history, Models, ScreenInv, NothingIsMissing
  <2>. QED  BY <2>3, <2>4
<1>4. CASE ChooseAction
  <2>. DEFINE act   == model.actions[model.actionIndex]
              entry == model.rows[model.rowIndex]
  <2>1. act \in ActionsOf(Sections) /\ entry \in Entries /\ model.rows # <<>>
    BY <1>4, ActionTypes, RowTypes DEF ChooseAction, ScreenInv, CursorsInRange, MenuOpen
  <2>2. CASE StartAction(act, entry)
    BY <1>4, <2>1, <2>2, StartActionScreen DEF ChooseAction
  <2>. QED  BY <1>1, <1>4, <2>2 DEF ChooseAction
<1>. QED  BY <1>2, <1>3, <1>4

LEMMA FormScreen ==
    ASSUME ScreenInv, LeaveForm \/ MoveInForm \/ ChooseInForm
    PROVE  CursorsInRange' /\ NothingIsMissing'
<1>. model \in Models
  BY DEF ScreenInv, TypeOK
<1>. model.form \in Forms
  BY FieldTypes DEF ScreenInv
<1>1. CASE LeaveForm
  <2>1. CursorsInRange'
    BY <1>1 DEF LeaveForm, Silent, Forms, NoForm, Models, ScreenInv, CursorsInRange, MenuOpen, Options
  <2>2. NothingIsMissing'
    BY <1>1 DEF LeaveForm, Silent, Forms, NoForm, Models, ScreenInv, NothingIsMissing
  <2>. QED  BY <2>1, <2>2
<1>2. ASSUME NEW i, model.mode = "form", Silent([model EXCEPT !.form.index = i])
      PROVE  CursorsInRange' /\ NothingIsMissing'
  <2>1. CursorsInRange'
    BY <1>2 DEF Silent, Forms, Models, ScreenInv, CursorsInRange, MenuOpen, Options
  <2>2. NothingIsMissing'
    BY <1>2 DEF Silent, Forms, Models, ScreenInv, NothingIsMissing
  <2>. QED  BY <2>1, <2>2
<1>3. CASE MoveInForm
  BY <1>2, <1>3 DEF MoveInForm
<1>4. CASE ChooseInForm
  <2>1. CASE Submit([model EXCEPT !.form = NoForm], model.form.action, model.form.entry, model.form.ret)
    <3>1. /\ model.form.action \in ActionsOf(Sections) /\ model.form.entry \in Entries
          /\ model.form.ret \in {"rows", "actions"} /\ model.section \in Sections
      BY <1>4 DEF ChooseInForm, Forms, ScreenInv, NothingIsMissing
    <3>2. model.form.ret = "actions" => model.rows # <<>> /\ model.actionIndex \in 1 .. Len(model.actions)
      BY <1>4 DEF ChooseInForm, ScreenInv, CursorsInRange, MenuOpen
    <3>. QED  BY <2>1, <3>1, <3>2, SubmitScreen
  <2>. QED  BY <1>1, <1>2, <1>4, <2>1 DEF ChooseInForm
<1>. QED  BY <1>1, <1>3, <1>4

LEMMA ConfirmScreen ==
    ASSUME ScreenInv, MoveInConfirm \/ AnswerConfirm
    PROVE  CursorsInRange' /\ NothingIsMissing'
<1>. model \in Models
  BY DEF ScreenInv, TypeOK
<1>0. AnswerConfirm => model.mode = "confirm" /\ model.pending \in Pendings /\ model.pending # None
  BY FieldTypes DEF AnswerConfirm, Decline, Execute, ScreenInv, NothingIsMissing
<1>1. CASE MoveInConfirm
  <2>1. PICK i : model.mode = "confirm" /\ Silent([model EXCEPT !.confirmIndex = i])
    BY <1>1 DEF MoveInConfirm
  <2>2. CursorsInRange'
    BY <2>1 DEF Silent, Models, ScreenInv, CursorsInRange, MenuOpen, Options
  <2>3. NothingIsMissing'
    BY <2>1 DEF Silent, Models, ScreenInv, NothingIsMissing
  <2>. QED  BY <2>2, <2>3
<1>2. CASE Decline
  <2>1. Silent([model EXCEPT !.pending = None, !.confirmIndex = 2, !.mode = model.pending.ret])
    BY <1>0, <1>2 DEF Decline, AnswerConfirm
  <2>2. model.pending.ret \in {"rows", "actions"}
    BY <1>0, <1>2 DEF AnswerConfirm, Pendings
  <2>3. CursorsInRange'
    BY <1>0, <1>2, <2>1, <2>2 DEF AnswerConfirm, Silent, Models, ScreenInv, CursorsInRange, MenuOpen, Options
  <2>4. NothingIsMissing'
    BY <1>0, <1>2, <2>1, <2>2 DEF AnswerConfirm, Silent, history, Models, ScreenInv, NothingIsMissing
  <2>. QED  BY <2>3, <2>4
<1>3. CASE Execute
  <2>. DEFINE m == [model EXCEPT !.pending = None, !.mode = "rows", !.confirmIndex = 1]
  <2>1. model' = IF model.pending.ret = "actions"
                 THEN [m EXCEPT !.mode = "rows", !.actions = <<>>, !.actionIndex = 1] ELSE m
    BY <1>0, <1>3 DEF AnswerConfirm, Execute, CloseMenu
  <2>2. CursorsInRange'
    BY <2>1 DEF Models, ScreenInv, CursorsInRange, MenuOpen, Options
  <2>3. NothingIsMissing'
    BY <1>0, <1>3, <2>1 DEF AnswerConfirm, Models, ScreenInv, NothingIsMissing
  <2>. QED  BY <2>2, <2>3
<1>. QED  BY <1>1, <1>2, <1>3 DEF AnswerConfirm

LEMMA PickerScreen ==
    ASSUME ScreenInv, LeavePicker \/ MoveInPicker \/ ChooseInPicker
    PROVE  CursorsInRange' /\ NothingIsMissing'
<1>. model \in Models
  BY DEF ScreenInv, TypeOK
<1>. DEFINE p == model.picker
<1>1. p \in Pickers /\ p.stage \in {0, 1} /\ p.index \in Cursors /\ Len(Options) \in Nat
  BY FieldTypes, PickerFields DEF ScreenInv
<1>2. p.groups \in Seq(OptionIds) /\ p.users \in Seq(OptionIds)
  BY <1>1 DEF Pickers
<1>3. ASSUME model.mode = "picker",
             NEW q \in Pickers, model' = [model EXCEPT !.picker = q],
             q.index <= (IF q.stage = 0 THEN Len(q.groups) ELSE Len(q.users)) + 1,
             q.stage = 1 => q.selected # None
      PROVE  CursorsInRange' /\ NothingIsMissing'
  <2>1. CursorsInRange'
    BY <1>3 DEF Models, ScreenInv, CursorsInRange, MenuOpen, Options
  <2>2. NothingIsMissing'
    BY <1>3 DEF Models, ScreenInv, NothingIsMissing
  <2>. QED  BY <2>1, <2>2
<1>4. ASSUME model.mode = "picker", model' = [model EXCEPT !.picker = NoPicker, !.mode = "rows"]
      PROVE  CursorsInRange' /\ NothingIsMissing'
  <2>1. CursorsInRange'
    BY <1>4 DEF NoPicker, Models, ScreenInv, CursorsInRange, MenuOpen, Options
  <2>2. NothingIsMissing'
    BY <1>4 DEF NoPicker, Models, ScreenInv, NothingIsMissing
  <2>. QED  BY <2>1, <2>2
<1>5. CASE LeavePicker
  <2>1. CASE p.stage = 1
    <3>. DEFINE q == [p EXCEPT !.stage = 0, !.index = 1]
    <3>1. q \in Pickers
      BY <1>1, PickerUpdates, NothingTypes
    <3>2. q.index = 1 /\ q.stage = 0 /\ q.groups = p.groups
      BY <1>1 DEF Pickers
    <3>3. Len(q.groups) \in Nat
      BY <1>2, <3>2
    <3>4. model.mode = "picker" /\ model' = [model EXCEPT !.picker = q]
      BY <1>5, <2>1 DEF LeavePicker, Silent
    <3>. HIDE DEF q
    <3>. QED  BY <1>3, <3>1, <3>2, <3>3, <3>4
  <2>2. CASE p.stage # 1
    BY <1>4, <1>5, <2>2 DEF LeavePicker, Silent
  <2>. QED  BY <2>1, <2>2
<1>6. CASE MoveInPicker
  <2>1. PICK i \in Moves(p.index, Len(Options) + 1) : Silent([model EXCEPT !.picker.index = i])
    BY <1>6 DEF MoveInPicker
  <2>. DEFINE q == [p EXCEPT !.index = i]
  <2>2. i \in Cursors /\ i <= Len(Options) + 1
    <3>1. p.index \in 1 .. (Len(Options) + 1)
      BY <1>1 DEF ScreenInv, CursorsInRange, Cursors
    <3>. QED  BY <1>1, <3>1, MovesType
  <2>3. q \in Pickers
    BY <1>1, <2>2, PickerUpdates
  <2>4. q.index = i /\ q.stage = p.stage /\ q.groups = p.groups /\ q.users = p.users /\ q.selected = p.selected
    BY <1>1 DEF Pickers
  <2>5. q.index <= (IF q.stage = 0 THEN Len(q.groups) ELSE Len(q.users)) + 1
    BY <2>2, <2>4 DEF Options
  <2>6. model.mode = "picker" /\ model' = [model EXCEPT !.picker = q]
    BY <1>6, <2>1 DEF MoveInPicker, Silent
  <2>7. q.stage = 1 => q.selected # None
    BY <2>4 DEF ScreenInv, NothingIsMissing
  <2>. HIDE DEF q
  <2>. QED  BY <1>3, <2>3, <2>5, <2>6, <2>7
<1>7. CASE ChooseInPicker
  <2>1. CASE p.index <= Len(Options) /\ p.stage = 0
    <3>. DEFINE g == Options[p.index]
                q == [p EXCEPT !.selected = g, !.stage = 1, !.index = 1]
    <3>1. g \in OptionIds
      BY <1>1, <2>1, PickerFields DEF Cursors
    <3>2. Silent([model EXCEPT !.picker.selected = g, !.picker.stage = 1, !.picker.index = 1])
      BY <1>1, <1>7, <2>1, PickerFields DEF ChooseInPicker
    <3>3. model.mode = "picker" /\ model' = [model EXCEPT !.picker = q]
      BY <1>7, <3>2 DEF ChooseInPicker, Silent
    <3>. HIDE DEF g
    <3>4. q \in Pickers
      BY <1>1, <3>1, PickerUpdates, NothingTypes
    <3>5. q.index = 1 /\ q.stage = 1 /\ q.users = p.users /\ q.selected = g
      BY <1>1 DEF Pickers
    <3>6. Len(q.users) \in Nat /\ q.selected # None
      BY <1>2, <3>1, <3>5, NoneIsNothing
    <3>. HIDE DEF q
    <3>. QED  BY <1>3, <3>3, <3>4, <3>5, <3>6
  <2>2. CASE p.index <= Len(Options) /\ p.stage = 1
    <3>1. model.mode = "picker" /\ model' = [model EXCEPT !.picker = NoPicker, !.mode = "rows"]
      BY <1>1, <1>7, <2>2, PickerFields DEF ChooseInPicker, Cursors
    <3>. QED  BY <1>4, <3>1
  <2>. QED  BY <1>5, <1>7, <2>1, <2>2 DEF ChooseInPicker
<1>. QED  BY <1>5, <1>6, <1>7

LEMMA ResultScreen ==
    ASSUME ScreenInv, Result
    PROVE  CursorsInRange' /\ NothingIsMissing'
<1>. TypeOK /\ model \in Models
  BY DEF ScreenInv, TypeOK
<1>. PICK k \in Slots : LoadArrives(k) \/ LoadFails(k) \/ ActionDone(k) \/ OptionsArrive(k) \/ OptionsFail(k)
  BY DEF Result
<1>1. cmds[k] # None /\ model.section \in Sections
  BY CommandTypes DEF LoadArrives, LoadFails, ActionDone, OptionsArrive, OptionsFail,
     ScreenInv, NothingIsMissing
<1>2. CASE UNCHANGED model
  <2>1. CursorsInRange'
    BY <1>2 DEF Models, ScreenInv, CursorsInRange, MenuOpen, Options
  <2>2. NothingIsMissing'
    BY <1>1, <1>2 DEF Models, ScreenInv, NothingIsMissing
  <2>. QED  BY <2>1, <2>2
<1>3. CASE LoadArrives(k)
  <2>1. PICK list \in Lists(Ids) : SectionLoaded(cmds[k].section, list)
    BY <1>3 DEF LoadArrives
  <2>2. CASE cmds[k].section = model.section
    <3>. DEFINE rows == BuildEntries(model.section, list)
    <3>1. rows # <<>> /\ Len(rows) \in Nat \ {0}
      BY <1>1, BuildEntriesType
    <3>2. model' = [model EXCEPT !.rows = rows, !.rowIndex = Clamp(model.rowIndex, Len(rows))]
      BY <2>1, <2>2 DEF SectionLoaded
    <3>3. Clamp(model.rowIndex, Len(rows)) \in 1 .. Len(rows)
      BY <3>1, FieldTypes DEF Clamp, Cursors
    <3>. HIDE DEF rows
    <3>4. CursorsInRange'
      BY <3>1, <3>2, <3>3 DEF Models, ScreenInv, CursorsInRange, MenuOpen, Options
    <3>5. NothingIsMissing'
      BY <1>1, <3>2 DEF Models, ScreenInv, NothingIsMissing
    <3>. QED  BY <3>4, <3>5
  <2>. QED  BY <1>2, <2>1, <2>2 DEF SectionLoaded
<1>4. CASE OptionsArrive(k)
  <2>1. PICK g \in Lists(OptionIds), u \in Lists(OptionIds) :
           model' = [model EXCEPT !.picker = [stage |-> 0, index |-> 1, groups |-> g,
                                              users |-> u, selected |-> None]]
    BY <1>4 DEF OptionsArrive
  <2>2. Len(g) \in Nat
    BY ListsType
  <2>3. CursorsInRange'
    BY <2>1, <2>2 DEF Models, ScreenInv, CursorsInRange, MenuOpen, Options
  <2>4. NothingIsMissing'
    BY <1>1, <2>1 DEF Models, ScreenInv, NothingIsMissing
  <2>. QED  BY <2>3, <2>4
<1>5. CASE OptionsFail(k)
  <2>1. CursorsInRange'
    BY <1>5 DEF OptionsFail, Models, ScreenInv, CursorsInRange, MenuOpen, Options
  <2>2. NothingIsMissing'
    BY <1>1, <1>5 DEF OptionsFail, Models, ScreenInv, NothingIsMissing
  <2>. QED  BY <2>1, <2>2
<1>. QED  BY <1>2, <1>3, <1>4, <1>5 DEF LoadFails, ActionDone

-----------------------------------------------------------------------------
LEMMA ScreenInit == Init => ScreenInv
<1>. SUFFICES ASSUME Init PROVE ScreenInv
  OBVIOUS
<1>1. model \in Models
  BY NothingTypes DEF Init, Models, Modes
<1>2. TypeOK
  BY <1>1 DEF Init, TypeOK
<1>3. CursorsInRange
  BY DEF Init, CursorsInRange, MenuOpen, Options, NoPicker
<1>4. NothingIsMissing
  BY DEF Init, NothingIsMissing, NoPicker
<1>. QED  BY <1>2, <1>3, <1>4 DEF ScreenInv

LEMMA ScreenStep == ScreenInv /\ [Next]_vars => ScreenInv'
<1>. SUFFICES ASSUME ScreenInv, [Next]_vars PROVE ScreenInv'
  OBVIOUS
<1>1. CASE Key
  <2>1. TypeOK'
    BY <1>1, RowsTypes, MenuTypes, FormTypes, ConfirmTypes, PickerTypes DEF Key
  <2>2. CursorsInRange' /\ NothingIsMissing'
    BY <1>1, RowsScreen, MenuScreen, FormScreen, ConfirmScreen, PickerScreen DEF Key
  <2>. QED  BY <2>1, <2>2 DEF ScreenInv
<1>2. CASE Result
  BY <1>2, ResultTypes, ResultScreen DEF ScreenInv
<1>3. CASE UNCHANGED vars
  BY <1>3 DEF vars, ScreenInv, TypeOK, CursorsInRange, NothingIsMissing, MenuOpen, Options
<1>. QED  BY <1>1, <1>2, <1>3 DEF Next

(* Whatever keys are pressed and however late results arrive, the model    *)
(* keeps its types: every cursor is on or after the first line, every row, *)
(* action, dialog and command is one the program can build.                *)
THEOREM ConsoleTypeCorrect == Spec => []TypeOK
<1>1. Spec => []ScreenInv
  BY ScreenInit, ScreenStep, PTL DEF Spec
<1>2. ScreenInv => TypeOK
  BY DEF ScreenInv
<1>. QED  BY <1>1, <1>2, PTL

(* No key and no late result makes Update or View index a list outside its *)
(* bounds or follow a nil pointer.                                         *)
THEOREM ConsoleNeverPanics == Spec => []NeverOutOfRange
<1>1. Spec => []ScreenInv
  BY ScreenInit, ScreenStep, PTL DEF Spec
<1>2. ScreenInv => NeverOutOfRange
  <2>. SUFFICES ASSUME ScreenInv PROVE NeverOutOfRange
    OBVIOUS
  <2>1. DOMAIN model.rows = 1 .. Len(model.rows) /\ DOMAIN model.actions = 1 .. Len(model.actions)
    BY FieldTypes DEF ScreenInv
  <2>. QED  BY <2>1 DEF ScreenInv, CursorsInRange, NothingIsMissing, NeverOutOfRange
<1>. QED  BY <1>1, <1>2, PTL

-----------------------------------------------------------------------------
(* What a step can start, and from where.                                  *)

LEMMA IssuedOnly ==
    ASSUME TypeOK, NEW c, Issue(c), NEW k \in Slots, Started(k)
    PROVE  cmds'[k] = c
BY DEF TypeOK, Issue, Started

(* A dangerous action runs only out of the confirmation that displays it.  *)
DangerStep ==
    \A k \in Slots : Started(k) /\ cmds'[k].action.dangerous =>
        /\ model.mode = "confirm"
        /\ model.pending.action = cmds'[k].action
        /\ model.pending.entry = cmds'[k].entry

LEMMA SubmitStarts ==
    ASSUME TypeOK, NEW m, NEW act, NEW entry, NEW ret, Submit(m, act, entry, ret),
           NEW k \in Slots, Started(k)
    PROVE  ~act.dangerous /\ cmds'[k] = Run(act, entry)
<1>1. CASE act.dangerous
  BY <1>1 DEF Submit, Silent, Started
<1>2. CASE ~act.dangerous
  BY <1>2, IssuedOnly DEF Submit
<1>. QED  BY <1>1, <1>2

LEMMA LoadsAreNotRuns ==
    /\ \A s : Load(s).type # "run"
    /\ \A g, u : AddRoute(g, u).type # "run"
    /\ LoadOptions.type # "run"
BY DEF Load, AddRoute, LoadOptions

(* The steps that start an action: a choice from the list or the menu, a   *)
(* form that is saved, a confirmation.                                     *)
LEMMA WhatStarts ==
    ASSUME TypeOK, [Next]_vars, NEW k \in Slots, Started(k)
    PROVE  \/ /\ model.mode = "rows" /\ model.rows # <<>>
              /\ LET e == model.rows[model.rowIndex] IN
                 e.kind = "action" /\ ~e.action.dangerous /\ cmds'[k] = Run(e.action, e)
           \/ /\ model.mode = "actions" /\ model.actions # <<>>
              /\ LET act == model.actions[model.actionIndex] IN
                 act # Back /\ ~act.dangerous /\ cmds'[k] = Run(act, model.rows[model.rowIndex])
           \/ /\ model.mode = "form" /\ ~model.form.action.dangerous
              /\ cmds'[k] = Run(model.form.action, model.form.entry)
           \/ /\ model.mode = "confirm" /\ model.pending # None
              /\ cmds'[k] = Run(model.pending.action, model.pending.entry)
<1>1. ASSUME NEW c, Issue(c), c.type # "run"
      PROVE  FALSE
  BY <1>1, IssuedOnly DEF Started
<1>2. ~UNCHANGED cmds
  BY DEF Started
<1>3. ASSUME NEW m, Silent(m)
      PROVE  FALSE
  BY <1>2, <1>3 DEF Silent
<1>4. ASSUME NEW act, NEW entry, StartAction(act, entry)
      PROVE  ~act.dangerous /\ cmds'[k] = Run(act, entry)
  BY <1>1, <1>3, <1>4, SubmitStarts, LoadsAreNotRuns DEF StartAction, OpenPicker, OpenForm
<1>5. CASE ChooseRow
  BY <1>2, <1>3, <1>4, <1>5 DEF ChooseRow, OpenMenu
<1>6. CASE ChooseAction
  BY <1>3, <1>4, <1>6 DEF ChooseAction
<1>7. CASE ChooseInForm
  BY <1>3, <1>7, SubmitStarts DEF ChooseInForm, LeaveForm
<1>8. CASE Execute
  BY <1>3, <1>8, IssuedOnly DEF Execute
<1>9. CASE ChooseInPicker
  BY <1>1, <1>3, <1>9, LoadsAreNotRuns DEF ChooseInPicker, LeavePicker
<1>10. CASE (\E s \in Sections : OpenSection(s)) \/ Refresh
  BY <1>1, <1>10, LoadsAreNotRuns DEF OpenSection, Refresh
<1>11. CASE LeaveSection \/ MoveInRows \/ LeaveMenu \/ MoveInMenu \/ LeaveForm \/ MoveInForm
            \/ MoveInConfirm \/ Decline \/ LeavePicker \/ MoveInPicker
  BY <1>3, <1>11 DEF LeaveSection, MoveInRows, LeaveMenu, MoveInMenu, LeaveForm, MoveInForm,
     MoveInConfirm, Decline, LeavePicker, MoveInPicker
<1>12. CASE Result
  <2>1. PICK j \in Slots : LoadArrives(j) \/ LoadFails(j) \/ ActionDone(j) \/ OptionsArrive(j) \/ OptionsFail(j)
    BY <1>12 DEF Result
  <2>2. cmds[j] # None
    BY <2>1, CommandTypes DEF LoadArrives, LoadFails, ActionDone, OptionsArrive, OptionsFail
  <2>3. j # k
    BY <2>2 DEF Started
  <2>4. cmds'[k] = cmds[k]
    BY <2>1, <2>3 DEF LoadArrives, LoadFails, ActionDone, OptionsArrive, OptionsFail, Done, TypeOK
  <2>. QED  BY <2>4 DEF Started
<1>13. CASE UNCHANGED vars
  BY <1>2, <1>13 DEF vars
<1>. QED  BY <1>5, <1>6, <1>7, <1>8, <1>9, <1>10, <1>11, <1>12, <1>13 DEF Next, Key, AnswerConfirm

(* Between the choice of a dangerous action and its execution lies the     *)
(* confirmation: no other step starts one, and what it starts is the       *)
(* action and the record displayed, though the list behind may be another. *)
THEOREM DangerNeedsConfirmation == Spec => DangerIsConfirmed
<1>1. ScreenInv /\ [Next]_vars => [DangerStep]_vars
  <2>. SUFFICES ASSUME ScreenInv, [Next]_vars, NEW k \in Slots,
                       Started(k), cmds'[k].action.dangerous
                PROVE  /\ model.mode = "confirm"
                       /\ model.pending.action = cmds'[k].action
                       /\ model.pending.entry = cmds'[k].entry
    BY DEF DangerStep
  <2>1. \A a, e : Run(a, e).action = a /\ Run(a, e).entry = e
    BY DEF Run
  <2>. QED  BY <2>1, WhatStarts DEF ScreenInv
<1>2. Spec => []ScreenInv
  BY ScreenInit, ScreenStep, PTL DEF Spec
<1>3. Spec => [][DangerStep]_vars
  BY <1>1, <1>2, PTL DEF Spec
<1>. QED  BY <1>3 DEF DangerIsConfirmed, DangerStep

-----------------------------------------------------------------------------
(* What stands on the screen fits together: lists, menus and dialogs.      *)

Fits(act, entry) == Reaches(Run(act, entry)) => Offers(entry, act)

ListsFit ==
    /\ model.rows \in Seq(EntriesOf(model.section))
    /\ model.actions = <<>> \/ model.actions = Append(RowActions(model.section), Back)

DialogsFit ==
    /\ model.mode = "form" => Fits(model.form.action, model.form.entry)
    /\ model.pending # None => Fits(model.pending.action, model.pending.entry)

MenuFits ==
    MenuOpen /\ ~reloaded =>
        /\ model.rows[model.rowIndex] = opened
        /\ model.mode = "form" => model.form.entry = opened
        /\ model.mode = "confirm" => model.pending.entry = opened

DialogInv == ListsFit /\ DialogsFit /\ MenuFits

LEMMA RowActionFits ==
    ASSUME ScreenInv, model.rows # <<>>, NEW e, e = model.rows[model.rowIndex], e.kind = "action"
    PROVE  e.action \in ActionsOf(Sections) /\ Fits(e.action, e)
<1>1. e \in Entries
  BY RowTypes
<1>. QED  BY <1>1, EntryKinds DEF Fits, Offers

LEMMA MenuActionFits ==
    ASSUME ScreenInv, ListsFit, model.mode = "actions",
           NEW act, act = model.actions[model.actionIndex], act # Back
    PROVE  Fits(act, model.rows[model.rowIndex])
<1>. DEFINE s    == model.section
            menu == RowActions(s)
            e    == model.rows[model.rowIndex]
<1>1. model.rows # <<>> /\ model.actionIndex \in 1 .. Len(model.actions)
  BY DEF ScreenInv, CursorsInRange, MenuOpen
<1>2. s \in Sections
  BY DEF ScreenInv, NothingIsMissing
<1>3. menu \in Seq(ActionsOf(Sections))
  BY <1>2, SectionActionsType
<1>4. model.actions = Append(menu, Back)
  BY <1>1 DEF ListsFit
<1>. HIDE DEF menu
<1>5. PICK i \in DOMAIN menu : act = menu[i]
  BY <1>1, <1>3, <1>4
<1>6. act.id \notin SectionActionNames
  BY <1>5, RowActionsNeedRecords DEF menu
<1>7. e \in EntriesOf(s)
  BY <1>1 DEF ListsFit, ScreenInv, CursorsInRange
<1>8. e.kind = "record" => e.section = s
  BY <1>7 DEF EntriesOf
<1>9. Reaches(Run(act, e)) => e.kind = "record"
  BY <1>6 DEF Reaches, Run, SectionActionNames
<1>. QED  BY <1>5, <1>8, <1>9 DEF Fits, Offers, menu

(* A step that leaves menu and dialogs.                                    *)
LEMMA LeavingKeeps ==
    ASSUME DialogInv, model'.mode \in {"rows", "sections", "picker"},
           model'.rows = model.rows, model'.section = model.section,
           model'.actions \in {model.actions, <<>>}, model'.pending \in {model.pending, None}
    PROVE  DialogInv'
<1>1. ListsFit'
  BY DEF DialogInv, ListsFit
<1>2. DialogsFit'
  BY DEF DialogInv, DialogsFit
<1>3. MenuFits'
  BY DEF MenuFits, MenuOpen
<1>. QED  BY <1>1, <1>2, <1>3 DEF DialogInv

(* A step within the same mode.                                            *)
LEMMA StayingKeeps ==
    ASSUME DialogInv, model'.mode = model.mode,
           model'.rows = model.rows, model'.section = model.section,
           model'.rowIndex = model.rowIndex \/ model.mode = "rows",
           model'.actions = model.actions, model'.pending = model.pending,
           model'.form.action = model.form.action, model'.form.entry = model.form.entry,
           model'.form.ret = model.form.ret, UNCHANGED history
    PROVE  DialogInv'
<1>1. ListsFit'
  BY DEF DialogInv, ListsFit
<1>2. DialogsFit'
  BY DEF DialogInv, DialogsFit
<1>3. MenuFits'
  BY DEF DialogInv, MenuFits, MenuOpen, history
<1>. QED  BY <1>1, <1>2, <1>3 DEF DialogInv

LEMMA SubmitFits ==
    ASSUME ScreenInv, DialogInv, NEW m \in {model, [model EXCEPT !.form = NoForm]},
           NEW act, NEW entry, NEW ret \in {"rows", "actions"}, Fits(act, entry),
           ret = "actions" /\ ~reloaded => entry = opened /\ model.rows[model.rowIndex] = opened,
           Submit(m, act, entry, ret)
    PROVE  DialogInv'
<1>. model \in Models
  BY DEF ScreenInv, TypeOK
<1>1. CASE act.dangerous
  <2>. DEFINE p == [action |-> act, entry |-> entry, ret |-> ret]
  <2>1. p.action = act /\ p.entry = entry /\ p.ret = ret
    OBVIOUS
  <2>2. Silent([m EXCEPT !.pending = p, !.confirmIndex = 1, !.mode = "confirm"])
    BY <1>1 DEF Submit
  <2>. HIDE DEF p
  <2>3. /\ model'.mode = "confirm" /\ model'.pending = p
        /\ model'.rows = model.rows /\ model'.section = model.section
        /\ model'.rowIndex = model.rowIndex /\ model'.actions = model.actions
        /\ reloaded' = reloaded /\ opened' = opened
    BY <2>2 DEF Silent, history, Models
  <2>4. ListsFit'
    BY <2>3 DEF DialogInv, ListsFit
  <2>5. DialogsFit'
    BY <2>1, <2>3 DEF DialogsFit
  <2>6. MenuFits'
    BY <2>1, <2>3 DEF MenuFits, MenuOpen
  <2>. QED  BY <2>4, <2>5, <2>6 DEF DialogInv
<1>2. CASE ~act.dangerous
  <2>1. model' = IF ret = "actions"
                 THEN [m EXCEPT !.mode = "rows", !.actions = <<>>, !.actionIndex = 1]
                 ELSE [m EXCEPT !.mode = "rows"]
    BY <1>2 DEF Submit
  <2>2. /\ model'.mode = "rows" /\ model'.rows = model.rows /\ model'.section = model.section
        /\ model'.actions \in {model.actions, <<>>} /\ model'.pending = model.pending
    BY <2>1 DEF Models
  <2>. QED  BY <2>2, LeavingKeeps
<1>. QED  BY <1>1, <1>2

LEMMA StartActionFits ==
    ASSUME ScreenInv, DialogInv, NEW act, NEW entry, Fits(act, entry),
           model.mode \in {"rows", "actions"}, StartAction(act, entry),
           model.mode = "actions" => entry = model.rows[model.rowIndex]
    PROVE  DialogInv'
<1>. model \in Models
  BY DEF ScreenInv, TypeOK
<1>0. model.mode = "actions" /\ ~reloaded => entry = opened /\ model.rows[model.rowIndex] = opened
  BY DEF DialogInv, MenuFits, MenuOpen
<1>1. CASE OpenPicker
  <2>1. /\ model'.mode = "picker" /\ model'.rows = model.rows /\ model'.section = model.section
        /\ model'.actions = model.actions /\ model'.pending = model.pending
    BY <1>1 DEF OpenPicker, Models
  <2>. QED  BY <2>1, LeavingKeeps
<1>2. CASE OpenForm(act, entry)
  <2>. DEFINE f == [action |-> act, entry |-> entry, index |-> 1, ret |-> model.mode]
  <2>1. f.action = act /\ f.entry = entry /\ f.ret = model.mode
    OBVIOUS
  <2>2. Silent([model EXCEPT !.mode = "form", !.form = f])
    BY <1>2 DEF OpenForm
  <2>. HIDE DEF f
  <2>3. /\ model'.mode = "form" /\ model'.form = f /\ model'.pending = model.pending
        /\ model'.rows = model.rows /\ model'.section = model.section
        /\ model'.rowIndex = model.rowIndex /\ model'.actions = model.actions
        /\ reloaded' = reloaded /\ opened' = opened
    BY <2>2 DEF Silent, history, Models
  <2>4. ListsFit'
    BY <2>3 DEF DialogInv, ListsFit
  <2>5. DialogsFit'
    BY <2>1, <2>3 DEF DialogInv, DialogsFit
  <2>6. MenuFits'
    BY <1>0, <2>1, <2>3 DEF MenuFits, MenuOpen
  <2>. QED  BY <2>4, <2>5, <2>6 DEF DialogInv
<1>3. CASE Submit(model, act, entry, model.mode)
  BY <1>0, <1>3, SubmitFits
<1>. QED  BY <1>1, <1>2, <1>3 DEF StartAction

LEMMA SameModelFits ==
    ASSUME DialogInv, UNCHANGED <<model, history>>
    PROVE  DialogInv'
BY StayingKeeps

LEMMA RowsFit ==
    ASSUME ScreenInv, DialogInv,
           (\E s \in Sections : OpenSection(s)) \/ LeaveSection \/ MoveInRows \/ Refresh \/ ChooseRow
    PROVE  DialogInv'
<1>. model \in Models
  BY DEF ScreenInv, TypeOK
<1>1. ASSUME NEW s \in Sections, OpenSection(s)
      PROVE  DialogInv'
  <2>. DEFINE m == [model EXCEPT !.mode = "rows", !.section = s, !.rows = <<>>, !.rowIndex = 1]
              n == [m EXCEPT !.actions = <<>>, !.actionIndex = 1, !.pending = None]
  <2>1. n \in Models
    BY ModelUpdates, NothingTypes DEF Modes
  <2>2. m.mode = "rows" /\ m.rows = <<>>
    BY DEF Models
  <2>3. m \in Models
    BY ModelUpdates, NothingTypes DEF Modes
  <2>. HIDE DEF m
  <2>4. n.mode = "rows" /\ n.rows = <<>> /\ n.actions = <<>> /\ n.pending = None
    BY <2>2, <2>3 DEF Models
  <2>5. model' = [n EXCEPT !.confirmIndex = 1, !.picker = NoPicker]
    BY <1>1 DEF OpenSection, m
  <2>. HIDE DEF n
  <2>6. model'.mode = "rows" /\ model'.rows = <<>> /\ model'.actions = <<>> /\ model'.pending = None
    BY <2>1, <2>4, <2>5 DEF Models
  <2>7. ListsFit'
    BY <2>6 DEF ListsFit
  <2>8. DialogsFit' /\ MenuFits'
    BY <2>6 DEF DialogsFit, MenuFits, MenuOpen
  <2>. QED  BY <2>7, <2>8 DEF DialogInv
<1>2. ASSUME Silent([model EXCEPT !.mode = "sections"])
      PROVE  DialogInv'
  <2>1. /\ model'.mode = "sections" /\ model'.rows = model.rows /\ model'.section = model.section
        /\ model'.actions \in {model.actions, <<>>} /\ model'.pending \in {model.pending, None}
    BY <1>2 DEF Silent, Models
  <2>. QED  BY <2>1, LeavingKeeps
<1>3. CASE LeaveSection
  BY <1>2, <1>3 DEF LeaveSection
<1>4. CASE MoveInRows
  <2>1. PICK i : model.mode = "rows" /\ Silent([model EXCEPT !.rowIndex = i])
    BY <1>4 DEF MoveInRows
  <2>2. /\ model'.mode = model.mode /\ model'.rows = model.rows /\ model'.section = model.section
        /\ model'.actions = model.actions /\ model'.pending = model.pending
        /\ model'.form = model.form /\ UNCHANGED history
    BY <2>1 DEF Silent, history, Models
  <2>. QED  BY <2>1, <2>2, StayingKeeps
<1>5. CASE Refresh
  BY <1>5, SameModelFits DEF Refresh
<1>6. CASE ChooseRow
  <2>. DEFINE entry == model.rows[model.rowIndex]
  <2>1. CASE entry.kind = "action" /\ StartAction(entry.action, entry)
    BY <1>6, <2>1, RowActionFits, StartActionFits DEF ChooseRow
  <2>2. CASE OpenMenu(entry)
    <3>. DEFINE menu == Append(RowActions(model.section), Back)
    <3>. HIDE DEF menu
    <3>1. /\ model' = [model EXCEPT !.mode = "actions", !.actionIndex = 1, !.actions = menu]
          /\ opened' = entry
      BY <2>2 DEF OpenMenu, menu
    <3>2. /\ model'.mode = "actions" /\ model'.rows = model.rows /\ model'.section = model.section
          /\ model'.rowIndex = model.rowIndex /\ model'.actions = menu /\ model'.pending = model.pending
      BY <3>1 DEF Models
    <3>3. ListsFit'
      BY <3>2 DEF DialogInv, ListsFit, menu
    <3>4. DialogsFit'
      BY <3>2 DEF DialogInv, DialogsFit
    <3>5. MenuFits'
      BY <3>1, <3>2 DEF MenuFits
    <3>. QED  BY <3>3, <3>4, <3>5 DEF DialogInv
  <2>. QED  BY <1>2, <1>6, <2>1, <2>2 DEF ChooseRow
<1>. QED  BY <1>1, <1>3, <1>4, <1>5, <1>6

LEMMA MenuStepsFit ==
    ASSUME ScreenInv, DialogInv, LeaveMenu \/ MoveInMenu \/ ChooseAction
    PROVE  DialogInv'
<1>. model \in Models
  BY DEF ScreenInv, TypeOK
<1>1. ASSUME Silent(CloseMenu(model))
      PROVE  DialogInv'
  <2>1. /\ model'.mode = "rows" /\ model'.rows = model.rows /\ model'.section = model.section
        /\ model'.actions \in {model.actions, <<>>} /\ model'.pending \in {model.pending, None}
    BY <1>1 DEF Silent, CloseMenu, Models
  <2>. QED  BY <2>1, LeavingKeeps
<1>2. CASE LeaveMenu
  BY <1>1, <1>2 DEF LeaveMenu
<1>3. CASE MoveInMenu
  <2>1. PICK i : Silent([model EXCEPT !.actionIndex = i])
    BY <1>3 DEF MoveInMenu
  <2>2. /\ model'.mode = model.mode /\ model'.rows = model.rows /\ model'.section = model.section
        /\ model'.rowIndex = model.rowIndex /\ model'.actions = model.actions
        /\ model'.pending = model.pending /\ model'.form = model.form /\ UNCHANGED history
    BY <2>1 DEF Silent, history, Models
  <2>. QED  BY <2>2, StayingKeeps
<1>4. CASE ChooseAction
  <2>. DEFINE act == model.actions[model.actionIndex]
  <2>1. CASE act # Back /\ StartAction(act, model.rows[model.rowIndex])
    BY <1>4, <2>1, MenuActionFits, StartActionFits DEF ChooseAction, DialogInv
  <2>. QED  BY <1>1, <1>4, <2>1 DEF ChooseAction
<1>. QED  BY <1>2, <1>3, <1>4

LEMMA FormStepsFit ==
    ASSUME ScreenInv, DialogInv, LeaveForm \/ MoveInForm \/ ChooseInForm
    PROVE  DialogInv'
<1>. model \in Models /\ model.form \in Forms
  BY FieldTypes DEF ScreenInv, TypeOK
<1>1. model.mode = "form" => model.form.ret \in {"rows", "actions"}
  BY DEF Forms, ScreenInv, NothingIsMissing
<1>2. CASE LeaveForm
  <2>1. /\ model.mode = "form" /\ model'.mode = model.form.ret
        /\ model'.rows = model.rows /\ model'.section = model.section
        /\ model'.rowIndex = model.rowIndex /\ model'.actions = model.actions
        /\ model'.pending = model.pending /\ UNCHANGED history
    BY <1>2 DEF LeaveForm, Silent, Models
  <2>2. ListsFit'
    BY <2>1 DEF DialogInv, ListsFit
  <2>3. DialogsFit'
    BY <1>1, <2>1 DEF DialogInv, DialogsFit
  <2>4. MenuFits'
    BY <1>1, <2>1 DEF DialogInv, MenuFits, MenuOpen, history
  <2>. QED  BY <2>2, <2>3, <2>4 DEF DialogInv
<1>3. ASSUME NEW i, Silent([model EXCEPT !.form.index = i])
      PROVE  DialogInv'
  <2>1. /\ model'.mode = model.mode /\ model'.rows = model.rows /\ model'.section = model.section
        /\ model'.rowIndex = model.rowIndex /\ model'.actions = model.actions
        /\ model'.pending = model.pending /\ model'.form = [model.form EXCEPT !.index = i]
        /\ UNCHANGED history
    BY <1>3 DEF Silent, Models
  <2>2. /\ model'.form.action = model.form.action /\ model'.form.entry = model.form.entry
        /\ model'.form.ret = model.form.ret
    BY <2>1 DEF Forms
  <2>. QED  BY <2>1, <2>2, StayingKeeps
<1>4. CASE MoveInForm
  BY <1>3, <1>4 DEF MoveInForm
<1>5. CASE ChooseInForm
  <2>1. CASE Submit([model EXCEPT !.form = NoForm], model.form.action, model.form.entry, model.form.ret)
    <3>1. model.mode = "form"
      BY <1>5 DEF ChooseInForm
    <3>2. Fits(model.form.action, model.form.entry)
      BY <3>1 DEF DialogInv, DialogsFit
    <3>3. model.form.ret = "actions" /\ ~reloaded =>
              model.form.entry = opened /\ model.rows[model.rowIndex] = opened
      BY <3>1 DEF DialogInv, MenuFits, MenuOpen
    <3>. QED  BY <1>1, <2>1, <3>1, <3>2, <3>3, SubmitFits
  <2>. QED  BY <1>2, <1>3, <1>5, <2>1 DEF ChooseInForm
<1>. QED  BY <1>2, <1>4, <1>5

LEMMA ConfirmStepsFit ==
    ASSUME ScreenInv, DialogInv, MoveInConfirm \/ AnswerConfirm
    PROVE  DialogInv'
<1>. model \in Models
  BY DEF ScreenInv, TypeOK
<1>0. AnswerConfirm => model.mode = "confirm" /\ model.pending \in Pendings /\ model.pending # None
  BY FieldTypes DEF AnswerConfirm, Decline, Execute, ScreenInv, NothingIsMissing
<1>1. CASE MoveInConfirm
  <2>1. PICK i : Silent([model EXCEPT !.confirmIndex = i])
    BY <1>1 DEF MoveInConfirm
  <2>2. /\ model'.mode = model.mode /\ model'.rows = model.rows /\ model'.section = model.section
        /\ model'.rowIndex = model.rowIndex /\ model'.actions = model.actions
        /\ model'.pending = model.pending /\ model'.form = model.form /\ UNCHANGED history
    BY <2>1 DEF Silent, history, Models
  <2>. QED  BY <2>2, StayingKeeps
<1>2. CASE Decline
  <2>1. Silent([model EXCEPT !.pending = None, !.confirmIndex = 2, !.mode = model.pending.ret])
    BY <1>0, <1>2 DEF Decline, AnswerConfirm
  <2>2. model.pending.ret \in {"rows", "actions"}
    BY <1>0, <1>2 DEF AnswerConfirm, Pendings
  <2>3. /\ model'.mode = model.pending.ret /\ model'.pending = None
        /\ model'.rows = model.rows /\ model'.section = model.section
        /\ model'.rowIndex = model.rowIndex /\ model'.actions = model.actions /\ UNCHANGED history
    BY <2>1 DEF Silent, Models
  <2>4. ListsFit'
    BY <2>3 DEF DialogInv, ListsFit
  <2>5. DialogsFit'
    BY <2>2, <2>3 DEF DialogsFit
  <2>6. MenuFits'
    BY <1>0, <1>2, <2>2, <2>3 DEF AnswerConfirm, DialogInv, MenuFits, MenuOpen, history
  <2>. QED  BY <2>4, <2>5, <2>6 DEF DialogInv
<1>3. CASE Execute
  <2>. DEFINE m == [model EXCEPT !.pending = None, !.mode = "rows", !.confirmIndex = 1]
  <2>1. model' = IF model.pending.ret = "actions"
                 THEN [m EXCEPT !.mode = "rows", !.actions = <<>>, !.actionIndex = 1] ELSE m
    BY <1>0, <1>3 DEF AnswerConfirm, Execute, CloseMenu
  <2>2. /\ model'.mode = "rows" /\ model'.rows = model.rows /\ model'.section = model.section
        /\ model'.actions \in {model.actions, <<>>} /\ model'.pending = None
    BY <2>1 DEF Models
  <2>. QED  BY <2>2, LeavingKeeps
<1>. QED  BY <1>1, <1>2, <1>3 DEF AnswerConfirm

LEMMA PickerStepsFit ==
    ASSUME ScreenInv, DialogInv, LeavePicker \/ MoveInPicker \/ ChooseInPicker
    PROVE  DialogInv'
<1>. model \in Models
  BY DEF ScreenInv, TypeOK
<1>1. ASSUME NEW q, Silent([model EXCEPT !.picker = q])
      PROVE  DialogInv'
  <2>1. /\ model'.mode = model.mode /\ model'.rows = model.rows /\ model'.section = model.section
        /\ model'.rowIndex = model.rowIndex /\ model'.actions = model.actions
        /\ model'.pending = model.pending /\ model'.form = model.form /\ UNCHANGED history
    BY <1>1 DEF Silent, history, Models
  <2>. QED  BY <2>1, StayingKeeps
<1>2. ASSUME model' = [model EXCEPT !.picker = NoPicker, !.mode = "rows"]
      PROVE  DialogInv'
  <2>1. /\ model'.mode = "rows" /\ model'.rows = model.rows /\ model'.section = model.section
        /\ model'.actions \in {model.actions, <<>>} /\ model'.pending \in {model.pending, None}
    BY <1>2 DEF NoPicker, Models
  <2>. QED  BY <2>1, LeavingKeeps
<1>3. CASE LeavePicker
  <2>1. CASE model.picker.stage = 1
    <3>1. Silent([model EXCEPT !.picker = [model.picker EXCEPT !.stage = 0, !.index = 1]])
      BY <1>3, <2>1 DEF LeavePicker
    <3>. QED  BY <1>1, <3>1
  <2>2. CASE model.picker.stage # 1
    BY <1>2, <1>3, <2>2 DEF LeavePicker, Silent
  <2>. QED  BY <2>1, <2>2
<1>4. CASE MoveInPicker
  <2>1. PICK i : Silent([model EXCEPT !.picker.index = i])
    BY <1>4 DEF MoveInPicker
  <2>2. Silent([model EXCEPT !.picker = [model.picker EXCEPT !.index = i]])
    BY <2>1
  <2>. QED  BY <1>1, <2>2
<1>5. CASE ChooseInPicker
  <2>. DEFINE g == Options[model.picker.index]
  <2>1. CASE Silent([model EXCEPT !.picker.selected = g, !.picker.stage = 1, !.picker.index = 1])
    <3>1. Silent([model EXCEPT !.picker = [model.picker EXCEPT !.selected = g, !.stage = 1, !.index = 1]])
      BY <2>1
    <3>. HIDE DEF g
    <3>. QED  BY <1>1, <3>1
  <2>. QED  BY <1>2, <1>3, <1>5, <2>1 DEF ChooseInPicker
<1>. QED  BY <1>3, <1>4, <1>5

LEMMA ResultStepsFit ==
    ASSUME ScreenInv, DialogInv, Result
    PROVE  DialogInv'
<1>. TypeOK /\ model \in Models
  BY DEF ScreenInv, TypeOK
<1>. PICK k \in Slots : LoadArrives(k) \/ LoadFails(k) \/ ActionDone(k) \/ OptionsArrive(k) \/ OptionsFail(k)
  BY DEF Result
<1>1. CASE LoadArrives(k)
  <2>1. PICK list \in Lists(Ids) : SectionLoaded(cmds[k].section, list)
    BY <1>1 DEF LoadArrives
  <2>2. CASE cmds[k].section = model.section
    <3>. DEFINE rows == BuildEntries(model.section, list)
    <3>1. model.section \in Sections
      BY <1>1 DEF LoadArrives, ScreenInv, NothingIsMissing
    <3>2. rows \in Seq(EntriesOf(model.section))
      BY <3>1, BuildEntriesType
    <3>3. /\ model' = [model EXCEPT !.rows = rows, !.rowIndex = Clamp(model.rowIndex, Len(rows))]
          /\ reloaded' = TRUE
      BY <2>1, <2>2 DEF SectionLoaded
    <3>. HIDE DEF rows
    <3>4. /\ model'.rows = rows /\ model'.section = model.section /\ model'.actions = model.actions
          /\ model'.mode = model.mode /\ model'.form = model.form /\ model'.pending = model.pending
      BY <3>3 DEF Models
    <3>5. ListsFit'
      BY <3>2, <3>4 DEF DialogInv, ListsFit
    <3>6. DialogsFit'
      BY <3>4 DEF DialogInv, DialogsFit
    <3>7. MenuFits'
      BY <3>3 DEF MenuFits
    <3>. QED  BY <3>5, <3>6, <3>7 DEF DialogInv
  <2>. QED  BY <2>1, <2>2, SameModelFits DEF SectionLoaded
<1>2. CASE LoadFails(k) \/ ActionDone(k)
  BY <1>2, SameModelFits DEF LoadFails, ActionDone
<1>3. CASE OptionsArrive(k)
  <2>1. PICK q : model' = [model EXCEPT !.picker = q] /\ UNCHANGED history
    BY <1>3 DEF OptionsArrive
  <2>2. /\ model'.mode = model.mode /\ model'.rows = model.rows /\ model'.section = model.section
        /\ model'.rowIndex = model.rowIndex /\ model'.actions = model.actions
        /\ model'.pending = model.pending /\ model'.form = model.form /\ UNCHANGED history
    BY <2>1 DEF history, Models
  <2>. QED  BY <2>2, StayingKeeps
<1>4. CASE OptionsFail(k)
  <2>1. /\ model'.mode = "rows" /\ model'.rows = model.rows /\ model'.section = model.section
        /\ model'.actions \in {model.actions, <<>>} /\ model'.pending \in {model.pending, None}
    BY <1>4 DEF OptionsFail, Models
  <2>. QED  BY <2>1, LeavingKeeps
<1>. QED  BY <1>1, <1>2, <1>3, <1>4

-----------------------------------------------------------------------------
LEMMA DialogInit == Init => DialogInv
<1>. SUFFICES ASSUME Init PROVE DialogInv
  OBVIOUS
<1>1. ListsFit
  BY DEF Init, ListsFit
<1>2. DialogsFit /\ MenuFits
  BY DEF Init, DialogsFit, MenuFits, MenuOpen
<1>. QED  BY <1>1, <1>2 DEF DialogInv

LEMMA DialogStep == ScreenInv /\ DialogInv /\ [Next]_vars => DialogInv'
<1>. SUFFICES ASSUME ScreenInv, DialogInv, [Next]_vars PROVE DialogInv'
  OBVIOUS
<1>1. CASE Next
  BY <1>1, RowsFit, MenuStepsFit, FormStepsFit, ConfirmStepsFit, PickerStepsFit, ResultStepsFit
     DEF Next, Key
<1>2. CASE UNCHANGED vars
  BY <1>2, SameModelFits DEF vars, history
<1>. QED  BY <1>1, <1>2

LEMMA DialogsAreSafe == Spec => [](ScreenInv /\ DialogInv)
BY ScreenInit, ScreenStep, DialogInit, DialogStep, PTL DEF Spec

(* What a step starts, in whatever mode, fits its record.                  *)
LEMMA WhatStartsFits ==
    ASSUME ScreenInv, DialogInv, [Next]_vars, NEW k \in Slots, Started(k)
    PROVE  Reaches(cmds'[k]) => Offers(cmds'[k].entry, cmds'[k].action)
<1>1. \A a, e : Run(a, e).action = a /\ Run(a, e).entry = e
  BY DEF Run
<1>2. PICK a, e : cmds'[k] = Run(a, e) /\ Fits(a, e)
  <2>. DEFINE row == model.rows[model.rowIndex]
              act == model.actions[model.actionIndex]
  <2>1. CASE /\ model.mode = "rows" /\ model.rows # <<>>
             /\ row.kind = "action" /\ cmds'[k] = Run(row.action, row)
    BY <2>1, RowActionFits
  <2>2. CASE model.mode = "actions" /\ act # Back /\ cmds'[k] = Run(act, row)
    BY <2>2, MenuActionFits DEF DialogInv
  <2>3. CASE model.mode = "form" /\ cmds'[k] = Run(model.form.action, model.form.entry)
    BY <2>3 DEF DialogInv, DialogsFit
  <2>4. CASE model.mode = "confirm" /\ model.pending # None
             /\ cmds'[k] = Run(model.pending.action, model.pending.entry)
    BY <2>4 DEF DialogInv, DialogsFit
  <2>. QED  BY <2>1, <2>2, <2>3, <2>4, WhatStarts DEF ScreenInv
<1>. QED  BY <1>1, <1>2 DEF Fits

(* A step changes a slot by putting a command into an empty one, or by     *)
(* emptying it or reusing it for a load.                                   *)
LEMMA SlotsChange ==
    ASSUME TypeOK, [Next]_vars, NEW k \in Slots, cmds'[k] # cmds[k]
    PROVE  cmds[k] = None \/ cmds'[k] = None \/ cmds'[k].type = "load"
<1>1. ASSUME NEW c, Issue(c)
      PROVE  cmds[k] = None
  BY <1>1 DEF Issue, TypeOK
<1>2. ASSUME NEW m, Silent(m)
      PROVE  FALSE
  BY <1>2 DEF Silent
<1>3. ASSUME NEW m, NEW act, NEW entry, NEW ret, Submit(m, act, entry, ret)
      PROVE  cmds[k] = None
  BY <1>1, <1>2, <1>3 DEF Submit
<1>4. ASSUME NEW act, NEW entry, StartAction(act, entry)
      PROVE  cmds[k] = None
  BY <1>1, <1>2, <1>3, <1>4 DEF StartAction, OpenPicker, OpenForm
<1>5. CASE Key
  <2>1. CASE ChooseRow
    BY <1>2, <1>4, <2>1 DEF ChooseRow, OpenMenu
  <2>2. CASE ChooseAction
    BY <1>2, <1>4, <2>2 DEF ChooseAction
  <2>3. CASE ChooseInForm
    BY <1>2, <1>3, <2>3 DEF ChooseInForm, LeaveForm
  <2>4. CASE Execute
    BY <1>1, <1>2, <2>4 DEF Execute
  <2>5. CASE ChooseInPicker
    BY <1>1, <1>2, <2>5 DEF ChooseInPicker, LeavePicker
  <2>6. CASE (\E s \in Sections : OpenSection(s)) \/ Refresh
    BY <1>1, <2>6 DEF OpenSection, Refresh
  <2>7. CASE LeaveSection \/ MoveInRows \/ LeaveMenu \/ MoveInMenu \/ LeaveForm \/ MoveInForm
             \/ MoveInConfirm \/ Decline \/ LeavePicker \/ MoveInPicker
    BY <1>2, <2>7 DEF LeaveSection, MoveInRows, LeaveMenu, MoveInMenu, LeaveForm, MoveInForm,
       MoveInConfirm, Decline, LeavePicker, MoveInPicker
  <2>. QED  BY <1>5, <2>1, <2>2, <2>3, <2>4, <2>5, <2>6, <2>7 DEF Key, AnswerConfirm
<1>6. CASE Result
  <2>1. PICK j \in Slots : Done(j) \/ cmds' = [cmds EXCEPT ![j] = Load(model.section)]
    BY <1>6 DEF Result, LoadArrives, LoadFails, ActionDone, OptionsArrive, OptionsFail
  <2>2. cmds'[k] = None \/ cmds'[k] = Load(model.section)
    BY <2>1 DEF Done, TypeOK
  <2>. QED  BY <2>2 DEF Load
<1>. QED  BY <1>5, <1>6 DEF Next, vars

LEMMA ActionsStep ==
    ScreenInv /\ DialogInv /\ ActionsFitTheirRecords /\ [Next]_vars => ActionsFitTheirRecords'
<1>. SUFFICES ASSUME ScreenInv, DialogInv, ActionsFitTheirRecords, [Next]_vars, NEW k \in Slots,
                     cmds'[k] # None, cmds'[k].type = "run", Reaches(cmds'[k])
              PROVE  Offers(cmds'[k].entry, cmds'[k].action)
  BY DEF ActionsFitTheirRecords, Reaches, Offers
<1>1. CASE cmds'[k] = cmds[k]
  BY <1>1 DEF ActionsFitTheirRecords
<1>2. CASE cmds'[k] # cmds[k]
  <2>1. Started(k)
    BY <1>2, SlotsChange DEF ScreenInv, Started
  <2>. QED  BY <2>1, WhatStartsFits
<1>. QED  BY <1>1, <1>2

(* No late list, moved cursor or stale dialog pairs an action with a       *)
(* record of another section: what reaches a service was offered for the   *)
(* record it is given.                                                     *)
THEOREM ActionsFit == Spec => []ActionsFitTheirRecords
<1>1. Init => ActionsFitTheirRecords
  BY DEF Init, ActionsFitTheirRecords
<1>. QED  BY <1>1, ActionsStep, DialogsAreSafe, PTL DEF Spec

MenuStep ==
    \A k \in Slots : Started(k) /\ MenuOpen /\ ~reloaded => cmds'[k].entry = opened

(* From the opening of a menu, through forms and confirmations, to the     *)
(* execution: the action runs for the record the menu was opened for,      *)
(* unless the list under it was replaced.                                  *)
THEOREM MenusKeepTheirRecords == Spec => MenuKeepsItsRecord
<1>1. ScreenInv /\ DialogInv /\ [Next]_vars => [MenuStep]_vars
  <2>. SUFFICES ASSUME ScreenInv, DialogInv, [Next]_vars, NEW k \in Slots,
                       Started(k), MenuOpen, ~reloaded
                PROVE  cmds'[k].entry = opened
    BY DEF MenuStep
  <2>1. \A a, e : Run(a, e).entry = e
    BY DEF Run
  <2>2. /\ model.rows[model.rowIndex] = opened
        /\ model.mode = "form" => model.form.entry = opened
        /\ model.mode = "confirm" => model.pending.entry = opened
    BY DEF DialogInv, MenuFits
  <2>3. model.mode \in {"actions", "form", "confirm"}
    BY DEF MenuOpen
  <2>. QED  BY <2>1, <2>2, <2>3, WhatStarts DEF ScreenInv
<1>2. Spec => [][MenuStep]_vars
  BY <1>1, DialogsAreSafe, PTL DEF Spec
<1>. QED  BY <1>2 DEF MenuKeepsItsRecord, MenuStep

=============================================================================
