-------------------------- MODULE MigrationsProofs --------------------------
(***************************************************************************)
(* What schema_migrations says of the schema, and that 0004 loses no name, *)
(* whatever sessions run into each other.                                  *)
(***************************************************************************)
EXTENDS Migrations, TLAPS

(* The images that carry the names of users: this one, and the one before  *)
(* 0004.                                                                   *)
RecentImages == Images \subseteq {3, 4}

(* What a session has left is the rest of its files, in their order. *)
RestOfFiles(m) ==
    LET r == run[m] IN
    /\ r.dir \in {"up", "down"} /\ r.image \in Images /\ r.at # "idle"
    /\ r.at = "check" => r.dir = "up"
    /\ Len(r.todo) <= r.image
    /\ \A i \in 1 .. Len(r.todo) :
          r.todo[i] = IF r.dir = "up" THEN r.image - Len(r.todo) + i ELSE Len(r.todo) + 1 - i

FilesInOrder == \A m \in Sessions : run[m] = Idle \/ RestOfFiles(m)

(* What one session has locked no other has. *)
LocksAreSole ==
    /\ \A k, m \in Sessions : k # m => holds[k] \cap holds[m] = {}
    /\ \A m \in Sessions : run[m] = Idle => holds[m] = {}

(* Columns are columns of max_users, in a draft as well. *)
ColumnsOfTables(s) == ~s.tables => s.split = "absent" /\ s.full = "absent"

DraftsHaveTables == \A m \in Sessions : ColumnsOfTables(draft[m])

-----------------------------------------------------------------------------
(* VersionsMeanSchema, as long as nobody strayed. *)

UsersAre(s, k) ==
    /\ s.tables <=> k >= 1
    /\ Present(s.split) <=> k = 3
    /\ Present(s.full) <=> k = 4

Recorded(k) ==
    /\ \A v \in Versions : v \in applied <=> v <= k
    /\ UsersAre(schema, k)
    /\ schema.function <=> k >= 2

Pos(m) == IF run[m].dir = "up" THEN run[m].image + 1 - Len(run[m].todo) ELSE Len(run[m].todo)

AtRecord(m) == run[m].at = "record"

(* How far the draft has got, upwards and downwards. *)
Risen(m)  == IF AtRecord(m) THEN Pos(m) ELSE Pos(m) - 1
Sunk(m)   == IF AtRecord(m) THEN Pos(m) - 1 ELSE Pos(m)

(* What a session may have done, by the file it is at: nothing; a "down"   *)
(* that got past its first file has done something;                        *)
Untouched(m) ==
    /\ holds[m] = {} /\ added[m] = {} /\ removed[m] = {}
    /\ ~AtRecord(m)
    /\ run[m].dir = "down" => Pos(m) = run[m].image

(* executed a first file.  What stands in its way is committed by now, or  *)
(* is not, and then nobody can until this session is through;              *)
FirstFile(m) ==
    /\ run[m].dir = "up" /\ AtRecord(m)
    /\ added[m] = {} /\ removed[m] = {} /\ holds[m] = {Object(Pos(m))}
    /\ Pos(m) = 1 /\ 1 \notin applied => UsersAre(draft[m], 1)
    /\ Pos(m) = 2 => draft[m].function
    /\ Pos(m) = 3 => 3 \in applied
    /\ Pos(m) = 4 => 3 \in applied /\ 4 \notin applied /\ UsersAre(draft[m], 4)

(* all files so far, on an empty database; *)
Building(m) ==
    /\ run[m].dir = "up" /\ Pos(m) > 1
    /\ 1 \notin applied /\ removed[m] = {}
    /\ \A v \in Versions : v \in added[m] <=> v < Pos(m)
    /\ "users" \in holds[m] /\ UsersAre(draft[m], Risen(m))
    /\ Risen(m) >= 2 => "function" \in holds[m] /\ draft[m].function

(* 0002 alone, because a "down" was committed after it had seen 0001: it   *)
(* cannot execute 0003;                                                    *)
Stuck(m) ==
    /\ run[m].dir = "up" /\ Pos(m) = 3 /\ ~AtRecord(m)
    /\ 1 \notin applied /\ added[m] = {2} /\ removed[m] = {} /\ holds[m] = {"function"}

(* 0004 alone, on a database that stood at 0003; *)
Renamed(m) ==
    /\ run[m].dir = "up" /\ Pos(m) = 5
    /\ 3 \in applied /\ 4 \notin applied /\ added[m] = {4} /\ removed[m] = {}
    /\ holds[m] = {"users"} /\ UsersAre(draft[m], 4)

(* or the newest migrations of its image, downwards: all there are, unless *)
(* it is about to stray.                                                   *)
TakingDown(m) ==
    /\ run[m].dir = "down"
    /\ Sunk(m) < run[m].image
    /\ run[m].image \in applied
    /\ added[m] = {} /\ "users" \in holds[m]
    /\ \A v \in Versions : v \in removed[m] <=> Pos(m) < v /\ v <= run[m].image
    /\ run[m].image + 1 \notin applied =>
          /\ UsersAre(draft[m], Sunk(m))
          /\ Sunk(m) <= 1 => "function" \in holds[m] /\ ~draft[m].function
          /\ Sunk(m) >= 2 => "function" \notin holds[m]

Fits(m) ==
    Untouched(m) \/ FirstFile(m) \/ Building(m) \/ Stuck(m) \/ Renamed(m) \/ TakingDown(m)

VersionInv ==
    strayDown \/ ((\A m \in Sessions : Fits(m)) /\ \E k \in {0, 3, 4} : Recorded(k))

-----------------------------------------------------------------------------
(* NamesSurvive. *)

HasName(s) == "name" \in {s.split, s.full}

(* An "up" that is changing the columns has taken the name along, and the  *)
(* services cannot store another meanwhile.                                *)
DraftsKeepNames ==
    \A m \in Sessions :
        run[m].dir = "up" /\ "users" \in holds[m] /\ HasName(schema) => HasName(draft[m])

-----------------------------------------------------------------------------
(* The files. *)

LEMMA UpFiles ==
    ASSUME NEW v \in Versions, NEW s \in Schemas
    PROVE  /\ Up(v, s) \in Schemas
           /\ Up(v, s).tables <=> v = 1 \/ s.tables
           /\ Up(v, s).function <=> v = 2 \/ s.function
           /\ Up(v, s).split = IF v = 3 /\ s.split = "absent" THEN "null"
                               ELSE IF v = 4 THEN "absent" ELSE s.split
           /\ Up(v, s).full = IF v = 4 THEN NameIn(s.full, s.split) ELSE s.full
  <1> USE DEF Schemas, Columns, NameIn, Present
  <1>1. CASE v = 1
    <2>1. Up(v, s) = [s EXCEPT !.tables = TRUE]
      BY <1>1 DEF Up
    <2>2. Up(v, s) \in Schemas
      BY <2>1
    <2>3. (Up(v, s).tables <=> TRUE) /\ (Up(v, s).function <=> s.function)
      BY <2>1
    <2> QED
      BY <1>1, <2>1, <2>2, <2>3
  <1>2. CASE v = 2
    <2>1. Up(v, s) = [s EXCEPT !.function = TRUE]
      BY <1>2 DEF Up
    <2>2. Up(v, s) \in Schemas
      BY <2>1
    <2>3. (Up(v, s).tables <=> s.tables) /\ (Up(v, s).function <=> TRUE)
      BY <2>1
    <2> QED
      BY <1>2, <2>1, <2>2, <2>3
  <1>3. CASE v = 3
    <2>1. Up(v, s) = [s EXCEPT !.split = IF Present(@) THEN @ ELSE "null"]
      BY <1>3 DEF Up
    <2>2. Up(v, s) \in Schemas
      BY <2>1
    <2>3. (Up(v, s).tables <=> s.tables) /\ (Up(v, s).function <=> s.function)
      BY <2>1
    <2> QED
      BY <1>3, <2>1, <2>2, <2>3
  <1>4. CASE v = 4
    <2>1. Up(v, s) = [s EXCEPT !.full = NameIn(@, s.split), !.split = "absent"]
      BY <1>4 DEF Up
    <2>2. Up(v, s) \in Schemas
      BY <2>1
    <2>3. (Up(v, s).tables <=> s.tables) /\ (Up(v, s).function <=> s.function)
      BY <2>1
    <2>4. Up(v, s).full = NameIn(s.full, s.split) /\ Up(v, s).split = "absent"
      BY <2>1
    <2> QED
      BY <1>4, <2>1, <2>2, <2>3, <2>4
  <1> QED
    BY <1>1, <1>2, <1>3, <1>4 DEF Versions

LEMMA DownFiles ==
    ASSUME NEW v \in Versions, NEW s \in Schemas
    PROVE  /\ Down(v, s) \in Schemas
           /\ Down(v, s).tables <=> v # 1 /\ s.tables
           /\ Down(v, s).function <=> v # 2 /\ s.function
           /\ Down(v, s).split = IF v \in {1, 3} THEN "absent"
                                 ELSE IF v = 4 THEN NameIn(s.split, s.full) ELSE s.split
           /\ Down(v, s).full = IF v \in {1, 4} THEN "absent" ELSE s.full
  <1> USE DEF Schemas, Columns, NameIn, Present
  <1>1. CASE v = 1
    <2>1. Down(v, s) = [s EXCEPT !.tables = FALSE, !.split = "absent", !.full = "absent"]
      BY <1>1 DEF Down
    <2>2. Down(v, s) \in Schemas
      BY <2>1
    <2>3. (Down(v, s).tables <=> FALSE) /\ (Down(v, s).function <=> s.function)
      BY <2>1
    <2>4. Down(v, s).split = "absent" /\ Down(v, s).full = "absent"
      BY <2>1
    <2> QED
      BY <1>1, <2>1, <2>2, <2>3, <2>4
  <1>2. CASE v = 2
    <2>1. Down(v, s) = [s EXCEPT !.function = FALSE]
      BY <1>2 DEF Down
    <2>2. Down(v, s) \in Schemas
      BY <2>1
    <2>3. (Down(v, s).tables <=> s.tables) /\ (Down(v, s).function <=> FALSE)
      BY <2>1
    <2> QED
      BY <1>2, <2>1, <2>2, <2>3
  <1>3. CASE v = 3
    <2>1. Down(v, s) = [s EXCEPT !.split = "absent"]
      BY <1>3 DEF Down
    <2>2. Down(v, s) \in Schemas
      BY <2>1
    <2>3. (Down(v, s).tables <=> s.tables) /\ (Down(v, s).function <=> s.function)
      BY <2>1
    <2> QED
      BY <1>3, <2>1, <2>2, <2>3
  <1>4. CASE v = 4
    <2>1. Down(v, s) = [s EXCEPT !.split = NameIn(@, s.full), !.full = "absent"]
      BY <1>4 DEF Down
    <2>2. Down(v, s) \in Schemas
      BY <2>1
    <2>3. (Down(v, s).tables <=> s.tables) /\ (Down(v, s).function <=> s.function)
      BY <2>1
    <2>4. Down(v, s).split = NameIn(s.split, s.full) /\ Down(v, s).full = "absent"
      BY <2>1
    <2> QED
      BY <1>4, <2>1, <2>2, <2>3, <2>4
  <1> QED
    BY <1>1, <1>2, <1>3, <1>4 DEF Versions

LEMMA FilesKeepColumns ==
    ASSUME NEW v \in Versions, NEW s \in Schemas, ColumnsOfTables(s)
    PROVE  /\ Runs("up", v, s) => ColumnsOfTables(Up(v, s))
           /\ Runs("down", v, s) => ColumnsOfTables(Down(v, s))
  BY UpFiles, DownFiles DEF Versions, ColumnsOfTables, Runs

(* A migration upwards moves a name, and drops none. *)
LEMMA UpKeepsNames ==
    ASSUME NEW v \in Versions, NEW s \in Schemas, HasName(s)
    PROVE  HasName(Up(v, s))
  BY UpFiles DEF Versions, Schemas, Columns, HasName, NameIn

LEMMA SeenIsSchema ==
    ASSUME TypeOK, NEW m \in Sessions
    PROVE  Seen(m) \in Schemas
  BY DEF TypeOK, Seen, Schemas

-----------------------------------------------------------------------------
(* Sequences of files. *)

LEMMA FilesAreFiles ==
    ASSUME NEW n \in Versions, NEW dir \in {"up", "down"}
    PROVE  /\ Files(dir, n) \in Seq(Versions) /\ Len(Files(dir, n)) = n
           /\ \A i \in 1 .. n : Files(dir, n)[i] = IF dir = "up" THEN i ELSE n + 1 - i
  <1>1. \A i \in 1 .. n : (IF dir = "up" THEN i ELSE n + 1 - i) \in Versions
    BY DEF Versions
  <1>2. n \in Nat
    BY DEF Versions
  <1> QED
    BY <1>1, <1>2 DEF Files

LEMMA EmptyIsEmpty ==
    ASSUME NEW s \in Seq(Versions)
    PROVE  Len(s) \in Nat /\ (s = <<>> <=> Len(s) = 0)
  OBVIOUS

LEMMA RestIsRest ==
    ASSUME NEW s \in Seq(Versions), s # <<>>
    PROVE  /\ Head(s) = s[1] /\ Head(s) \in Versions
           /\ Tail(s) \in Seq(Versions) /\ Len(Tail(s)) = Len(s) - 1
           /\ \A i \in 1 .. Len(Tail(s)) : Tail(s)[i] = s[i + 1]
           /\ Len(s) \in Nat /\ Len(s) >= 1
  OBVIOUS
-----------------------------------------------------------------------------
(* Types. *)

TypeInv == TypeOK /\ FilesInOrder /\ DraftsHaveTables

LEMMA TypeInit == Init => TypeInv
  <1> SUFFICES ASSUME Init PROVE TypeInv
    OBVIOUS
  <1>1. Idle \in Transactions /\ Idle.at = "idle" /\ NoSchema \in Schemas /\ ColumnsOfTables(NoSchema)
    BY DEF Idle, Transactions, NoSchema, Schemas, Columns, ColumnsOfTables
  <1> QED
    BY <1>1 DEF Init, TypeInv, TypeOK, FilesInOrder, DraftsHaveTables, NoSchema

LEMMA SeenHasTables ==
    ASSUME TypeInv, NEW m \in Sessions
    PROVE  ColumnsOfTables(Seen(m))
  BY DEF TypeInv, TypeOK, DraftsHaveTables, ColumnsOfTables, Seen

(* The file a session is at, and the one after it. *)
LEMMA RunningIsInOrder ==
    ASSUME TypeInv, NEW m \in Sessions, run[m] # Idle
    PROVE  /\ run[m].dir \in {"up", "down"} /\ run[m].image \in Images /\ run[m].image \in Versions
           /\ RestOfFiles(m)
           /\ Len(run[m].todo) \in 0 .. run[m].image
           /\ run[m].todo = <<>> <=> Len(run[m].todo) = 0
  <1>1. RestOfFiles(m) /\ run[m].todo \in Seq(Versions)
    BY DEF TypeInv, TypeOK, FilesInOrder, Transactions
  <1>2. Len(run[m].todo) \in Nat /\ (run[m].todo = <<>> <=> Len(run[m].todo) = 0)
    BY <1>1, EmptyIsEmpty
  <1>3. /\ run[m].dir \in {"up", "down"} /\ run[m].image \in Images
        /\ Len(run[m].todo) <= run[m].image
    BY <1>1 DEF RestOfFiles
  <1>4. run[m].image \in Versions
    BY <1>3, ImagesCarryMigrations
  <1>5. Len(run[m].todo) \in 0 .. run[m].image
    BY <1>2, <1>3, <1>4 DEF Versions
  <1> QED
    BY <1>1, <1>2, <1>3, <1>4, <1>5

LEMMA AtIsAtPos ==
    ASSUME TypeInv, NEW m \in Sessions, run[m].todo # <<>>
    PROVE  /\ run[m] # Idle
           /\ Head(run[m].todo) = Pos(m) /\ Pos(m) \in 1 .. run[m].image
           /\ Len(run[m].todo) \in 1 .. run[m].image
  <1>1. run[m] # Idle
    BY DEF Idle
  <1>2. RestOfFiles(m) /\ run[m].todo \in Seq(Versions) /\ run[m].image \in Versions
    BY <1>1, RunningIsInOrder DEF TypeInv, TypeOK, Transactions
  <1>3. /\ Head(run[m].todo) = run[m].todo[1] /\ Len(run[m].todo) \in Nat /\ Len(run[m].todo) >= 1
    BY <1>2, RestIsRest
  <1>4. Head(run[m].todo) = Pos(m) /\ Len(run[m].todo) \in 1 .. run[m].image
    BY <1>2, <1>3 DEF RestOfFiles, Pos, Versions
  <1>5. Pos(m) \in 1 .. run[m].image
    BY <1>2, <1>4 DEF Pos, Versions
  <1> QED
    BY <1>1, <1>4, <1>5

LEMMA OneOff ==
    ASSUME NEW n \in Int, NEW a \in Int, NEW b \in Int, NEW i \in Int, b = a - 1
    PROVE  n - a + (i + 1) = n - b + i /\ a + 1 - (i + 1) = b + 1 - i
  OBVIOUS

LEMMA RestCounts ==
    ASSUME NEW s \in Seq(Versions), s # <<>>, NEW n \in Versions, NEW dir,
           \A i \in 1 .. Len(s) : s[i] = IF dir = "up" THEN n - Len(s) + i ELSE Len(s) + 1 - i
    PROVE  \A i \in 1 .. Len(Tail(s)) :
              Tail(s)[i] = IF dir = "up" THEN n - Len(Tail(s)) + i ELSE Len(Tail(s)) + 1 - i
  <1> DEFINE t == Tail(s)
             a == Len(s)
             b == Len(t)
  <1>1. /\ a \in Int /\ b \in Int /\ b = a - 1 /\ n \in Int
        /\ \A i \in 1 .. b : t[i] = s[i + 1]
        /\ \A i \in 1 .. a : s[i] = IF dir = "up" THEN n - a + i ELSE a + 1 - i
    BY RestIsRest DEF Versions
  <1> HIDE DEF t, a, b
  <1> SUFFICES ASSUME NEW i \in 1 .. b
               PROVE  t[i] = IF dir = "up" THEN n - b + i ELSE b + 1 - i
    BY DEF t, b
  <1>2. b = a - 1 /\ a \in Int /\ b \in Int /\ n \in Int
    BY <1>1
  <1>3. i \in Int /\ i + 1 \in 1 .. a
    BY <1>2
  <1>4. n - a + (i + 1) = n - b + i /\ a + 1 - (i + 1) = b + 1 - i
    BY <1>2, <1>3, OneOff
  <1>5. t[i] = s[i + 1] /\ s[i + 1] = IF dir = "up" THEN n - a + (i + 1) ELSE a + 1 - (i + 1)
    BY <1>1, <1>3
  <1> QED
    BY <1>4, <1>5

LEMMA NextIsNext ==
    ASSUME TypeInv, NEW m \in Sessions, run[m].todo # <<>>, NextFile(m)
    PROVE  /\ run' \in [Sessions -> Transactions] /\ run'[m] # Idle /\ RestOfFiles(m)'
           /\ run'[m].dir = run[m].dir /\ run'[m].image = run[m].image /\ ~AtRecord(m)'
           /\ Pos(m)' = IF run[m].dir = "up" THEN Pos(m) + 1 ELSE Pos(m) - 1
           /\ run'[m].todo = <<>> <=> Len(run[m].todo) = 1
           /\ \A k \in Sessions \ {m} : run'[k] = run[k]
  <1> DEFINE s == run[m].todo
             t == run'[m].todo
  <1>1. /\ s \in Seq(Versions) /\ RestOfFiles(m) /\ run[m].image \in Versions
        /\ run[m].dir \in {"up", "down"} /\ run[m].image \in Images
    BY AtIsAtPos, RunningIsInOrder DEF TypeInv, TypeOK, Transactions
  <1>2. /\ t = Tail(s) /\ run'[m].at = FirstStatement(run[m].dir)
        /\ run'[m].dir = run[m].dir /\ run'[m].image = run[m].image
        /\ run' \in [Sessions -> Transactions]
        /\ \A k \in Sessions \ {m} : run'[k] = run[k]
    <2>1. /\ Tail(s) \in Seq(Versions) /\ run \in [Sessions -> Transactions]
          /\ FirstStatement(run[m].dir) \in {"idle", "check", "execute", "record"}
      BY <1>1, RestIsRest DEF TypeInv, TypeOK, FirstStatement
    <2>2. run' = [run EXCEPT ![m] = [@ EXCEPT !.todo = Tail(s), !.at = FirstStatement(run[m].dir)]]
      BY <2>1 DEF NextFile, Transactions
    <2>3. [run[m] EXCEPT !.todo = Tail(s), !.at = FirstStatement(run[m].dir)] \in Transactions
      BY <2>1 DEF Transactions
    <2>4. run'[m] = [run[m] EXCEPT !.todo = Tail(s), !.at = FirstStatement(run[m].dir)]
      BY <2>1, <2>2
    <2>5. /\ t = Tail(s) /\ run'[m].at = FirstStatement(run[m].dir)
          /\ run'[m].dir = run[m].dir /\ run'[m].image = run[m].image
      BY <2>1, <2>4 DEF Transactions
    <2> QED
      BY <2>1, <2>2, <2>3, <2>5
  <1>3. /\ Len(t) = Len(s) - 1 /\ Len(s) \in Nat /\ Len(s) >= 1 /\ t \in Seq(Versions)
        /\ \A i \in 1 .. Len(t) : t[i] = s[i + 1]
    BY <1>1, <1>2, RestIsRest
  <1>4. t = <<>> <=> Len(s) = 1
    <2>1. t = <<>> <=> Len(t) = 0
      BY <1>3, EmptyIsEmpty
    <2> QED
      BY <1>3, <2>1
  <1>5. run'[m].at = IF run[m].dir = "up" THEN "check" ELSE "execute"
    BY <1>2 DEF FirstStatement
  <1>6. RestOfFiles(m)'
    <2>1. \A i \in 1 .. Len(s) : s[i] = IF run[m].dir = "up" THEN run[m].image - Len(s) + i
                                       ELSE Len(s) + 1 - i
      BY <1>1 DEF RestOfFiles
    <2>2. \A i \in 1 .. Len(t) : t[i] = IF run[m].dir = "up" THEN run[m].image - Len(t) + i
                                       ELSE Len(t) + 1 - i
      <3>1. s \in Seq(Versions) /\ s # <<>> /\ run[m].image \in Versions /\ t = Tail(s)
        BY <1>1, <1>2
      <3>2. \A i \in 1 .. Len(Tail(s)) :
               Tail(s)[i] = IF run[m].dir = "up" THEN run[m].image - Len(Tail(s)) + i
                            ELSE Len(Tail(s)) + 1 - i
        BY <3>1, <2>1, RestCounts, Zenon
      <3> QED
        BY <3>1, <3>2, Zenon
    <2>3. Len(t) <= run[m].image
      BY <1>1, <1>3 DEF RestOfFiles, Versions
    <2> QED
      BY <1>1, <1>2, <1>5, <2>2, <2>3 DEF RestOfFiles
  <1>7. run'[m] # Idle
    BY <1>1, <1>2 DEF Idle
  <1>8. Pos(m)' = IF run[m].dir = "up" THEN Pos(m) + 1 ELSE Pos(m) - 1
    BY <1>1, <1>2, <1>3 DEF Pos, Versions
  <1> QED
    BY <1>2, <1>4, <1>5, <1>6, <1>7, <1>8 DEF AtRecord
LEMMA StayingIsInOrder ==
    ASSUME TypeInv, NEW m \in Sessions, run[m].todo # <<>>, NEW a \in {"execute", "record"},
           run' = [run EXCEPT ![m].at = a]
    PROVE  /\ run' \in [Sessions -> Transactions] /\ run'[m] # Idle /\ RestOfFiles(m)'
           /\ run'[m].dir = run[m].dir /\ run'[m].image = run[m].image /\ run'[m].at = a
           /\ Pos(m)' = Pos(m) /\ run'[m].todo = run[m].todo
           /\ \A k \in Sessions \ {m} : run'[k] = run[k]
  <1>1. run \in [Sessions -> Transactions] /\ RestOfFiles(m)
    BY AtIsAtPos, RunningIsInOrder DEF TypeInv, TypeOK
  <1>2. run' = [run EXCEPT ![m] = [@ EXCEPT !.at = a]] /\ [run[m] EXCEPT !.at = a] \in Transactions
    BY <1>1 DEF Transactions
  <1>3. run'[m] = [run[m] EXCEPT !.at = a] /\ run' \in [Sessions -> Transactions]
        /\ \A k \in Sessions \ {m} : run'[k] = run[k]
    BY <1>1, <1>2
  <1>4. /\ run'[m].at = a /\ run'[m].todo = run[m].todo
        /\ run'[m].dir = run[m].dir /\ run'[m].image = run[m].image
    BY <1>1, <1>3 DEF Transactions
  <1>5. RestOfFiles(m)' /\ Pos(m)' = Pos(m)
    BY <1>1, <1>4 DEF RestOfFiles, Pos
  <1>6. run'[m] # Idle
    BY <1>4 DEF Idle
  <1> QED
    BY <1>3, <1>4, <1>5, <1>6

LEMMA StartIsInOrder ==
    ASSUME TypeInv, NEW m \in Sessions, NEW dir \in {"up", "down"}, NEW n \in Images, Start(m, dir, n)
    PROVE  /\ run' \in [Sessions -> Transactions] /\ run'[m] # Idle /\ RestOfFiles(m)'
           /\ run'[m].dir = dir /\ run'[m].image = n /\ ~AtRecord(m)'
           /\ Pos(m)' = IF dir = "up" THEN 1 ELSE n
           /\ run'[m].todo # <<>>
           /\ \A k \in Sessions \ {m} : run'[k] = run[k]
  <1> DEFINE t == Files(dir, n)
             r == [dir |-> dir, image |-> n, todo |-> t, at |-> FirstStatement(dir)]
  <1>1. n \in Versions
    BY ImagesCarryMigrations
  <1>2. /\ t \in Seq(Versions) /\ Len(t) = n
        /\ \A i \in 1 .. n : t[i] = IF dir = "up" THEN i ELSE n + 1 - i
    BY <1>1, FilesAreFiles
  <1>3. t # <<>>
    BY <1>1, <1>2, EmptyIsEmpty DEF Versions
  <1> HIDE DEF t
  <1>4. r \in Transactions
    BY <1>2 DEF Transactions, FirstStatement
  <1>5. run'[m] = r /\ run' \in [Sessions -> Transactions] /\ \A k \in Sessions \ {m} : run'[k] = run[k]
    BY <1>4 DEF Start, TypeInv, TypeOK, t
  <1>6. /\ run'[m].dir = dir /\ run'[m].image = n /\ run'[m].todo = t
        /\ run'[m].at = IF dir = "up" THEN "check" ELSE "execute"
    BY <1>5 DEF FirstStatement
  <1>7. RestOfFiles(m)' /\ Pos(m)' = IF dir = "up" THEN 1 ELSE n
    <2>1. n \in Nat /\ Len(t) = n /\ n - n = 0
      BY <1>1, <1>2 DEF Versions
    <2>2. \A i \in 1 .. n : t[i] = IF dir = "up" THEN n - n + i ELSE n + 1 - i
      BY <1>2, <2>1
    <2>3. RestOfFiles(m)'
      BY <1>6, <2>1, <2>2 DEF RestOfFiles
    <2> QED
      BY <1>6, <2>1, <2>3 DEF Pos
  <1>8. run'[m] # Idle
    BY <1>6 DEF Idle
  <1> QED
    BY <1>3, <1>5, <1>6, <1>7, <1>8 DEF AtRecord

(* The others do not notice that a session goes on. *)
OthersStay(m) ==
    \A k \in Sessions \ {m} :
        /\ run'[k] = run[k] /\ draft'[k] = draft[k] /\ holds'[k] = holds[k]
        /\ added'[k] = added[k] /\ removed'[k] = removed[k]

LEMMA EndIsIdle ==
    ASSUME TypeInv, NEW m \in Sessions, End(m)
    PROVE  /\ OthersStay(m)
           /\ run'[m] = Idle /\ draft'[m] = NoSchema
           /\ holds'[m] = {} /\ added'[m] = {} /\ removed'[m] = {}
           /\ run' \in [Sessions -> Transactions] /\ draft' \in [Sessions -> Schemas]
           /\ holds' \in [Sessions -> SUBSET {"users", "function"}]
           /\ added' \in [Sessions -> SUBSET Versions] /\ removed' \in [Sessions -> SUBSET Versions]
           /\ Idle.at = "idle" /\ ColumnsOfTables(NoSchema)
  <1>1. Idle \in Transactions /\ NoSchema \in Schemas
    BY DEF Idle, Transactions, NoSchema, Schemas, Columns
  <1>2. Idle.at = "idle" /\ ColumnsOfTables(NoSchema)
    BY DEF Idle, NoSchema, ColumnsOfTables
  <1> QED
    BY <1>1, <1>2 DEF End, OthersStay, TypeInv, TypeOK

(* What a file does to its session. *)
LEMMA ExecuteIsTyped ==
    ASSUME TypeInv, NEW m \in Sessions, ExecuteFile(m)
    PROVE  /\ OthersStay(m) /\ AtRecord(m)' /\ RestOfFiles(m)' /\ run'[m] # Idle
           /\ run' \in [Sessions -> Transactions] /\ draft' \in [Sessions -> Schemas]
           /\ holds' \in [Sessions -> SUBSET {"users", "function"}]
           /\ ColumnsOfTables(draft'[m])
           /\ run'[m].todo # <<>>
           /\ UNCHANGED <<schema, applied, added, removed, serving, released, named, strayDown>>
  <1> DEFINE v == Head(run[m].todo)
             after == IF run[m].dir = "up" THEN Up(v, Seen(m)) ELSE Down(v, Seen(m))
  <1>1. /\ run[m].todo # <<>> /\ run' = [run EXCEPT ![m].at = "record"]
        /\ Runs(run[m].dir, v, Seen(m))
        /\ UNCHANGED <<schema, applied, added, removed, serving, released, named, strayDown>>
        /\ \/ draft' = [draft EXCEPT ![m] = after] /\ holds' = [holds EXCEPT ![m] = @ \cup {Object(v)}]
           \/ UNCHANGED <<draft, holds>>
    BY DEF ExecuteFile, At
  <1>2. v \in Versions /\ run[m].dir \in {"up", "down"}
    BY <1>1, AtIsAtPos, RunningIsInOrder, RestIsRest DEF TypeInv, TypeOK, Transactions
  <1>3. Seen(m) \in Schemas /\ ColumnsOfTables(Seen(m))
    BY SeenIsSchema, SeenHasTables DEF TypeInv
  <1>4. after \in Schemas /\ ColumnsOfTables(after)
    BY <1>1, <1>2, <1>3, UpFiles, DownFiles, FilesKeepColumns
  <1>5. Object(v) \in {"users", "function"}
    BY DEF Object
  <1> HIDE DEF after, v
  <1>6. /\ draft' \in [Sessions -> Schemas] /\ ColumnsOfTables(draft'[m])
        /\ holds' \in [Sessions -> SUBSET {"users", "function"}]
        /\ \A k \in Sessions \ {m} : draft'[k] = draft[k] /\ holds'[k] = holds[k]
    BY <1>1, <1>4, <1>5 DEF TypeInv, TypeOK, DraftsHaveTables
  <1> QED
    BY <1>1, <1>6, StayingIsInOrder DEF OthersStay, AtRecord

LEMMA TypeStep == TypeInv /\ [Next]_vars => TypeInv'
  <1> SUFFICES ASSUME TypeInv, [Next]_vars
               PROVE  TypeInv'
    OBVIOUS
  <1> USE DEF TypeInv, TypeOK, DraftsHaveTables, FilesInOrder
  <1>0. \A k, m \in Sessions : run'[k] = run[k] /\ RestOfFiles(k) => RestOfFiles(k)'
    BY DEF RestOfFiles
  <1>1. ASSUME NEW m \in Sessions, NEW dir \in {"up", "down"}, NEW n \in Images, Start(m, dir, n)
        PROVE  TypeInv'
    <2>1. UNCHANGED <<schema, applied, draft, holds, added, removed, serving, released, named, strayDown>>
      BY <1>1 DEF Start
    <2> QED
      BY <1>0, <1>1, <2>1, StartIsInOrder DEF AtRecord
  <1>2. ASSUME NEW m \in Sessions, CheckVersion(m)
        PROVE  TypeInv'
    <2>1. /\ run[m].todo # <<>>
          /\ NextFile(m) \/ run' = [run EXCEPT ![m].at = "execute"]
          /\ UNCHANGED <<schema, applied, draft, holds, added, removed, serving, released, named, strayDown>>
      BY <1>2 DEF CheckVersion, At
    <2> QED
      BY <1>0, <2>1, NextIsNext, StayingIsInOrder DEF AtRecord
  <1>3. ASSUME NEW m \in Sessions, ExecuteFile(m)
        PROVE  TypeInv'
    BY <1>0, <1>3, ExecuteIsTyped DEF OthersStay
  <1>4. ASSUME NEW m \in Sessions, InsertVersion(m) \/ DeleteVersion(m)
        PROVE  TypeInv'
    <2>1. run[m].todo # <<>> /\ NextFile(m)
      BY <1>4 DEF InsertVersion, DeleteVersion, At
    <2>2. Head(run[m].todo) \in Versions
      BY <2>1, RestIsRest DEF Transactions
    <2>3. /\ added' \in [Sessions -> SUBSET Versions] /\ removed' \in [Sessions -> SUBSET Versions]
          /\ UNCHANGED <<schema, applied, draft, holds, serving, released, named, strayDown>>
      BY <1>4, <2>2 DEF InsertVersion, DeleteVersion
    <2> QED
      BY <1>0, <2>1, <2>3, NextIsNext DEF AtRecord
  <1>5. ASSUME NEW m \in Sessions, Commit(m)
        PROVE  TypeInv'
    <2>1. Seen(m) \in Schemas /\ ColumnsOfTables(Seen(m))
      BY SeenIsSchema, SeenHasTables
    <2>2. run[m].image \in Images
      BY <1>5, RunningIsInOrder DEF Commit, Commits
    <2>3. /\ schema' \in Schemas /\ applied' \in SUBSET Versions /\ released' \in SUBSET Images
          /\ named' \in BOOLEAN /\ strayDown' \in BOOLEAN /\ UNCHANGED serving /\ End(m)
          /\ ColumnsOfTables(schema')
      BY <1>5, <2>1, <2>2 DEF Commit
    <2> QED
      BY <1>0, <2>3, EndIsIdle DEF OthersStay, ColumnsOfTables
  <1>6. ASSUME NEW m \in Sessions, Fail(m)
        PROVE  TypeInv'
    <2>1. End(m) /\ UNCHANGED <<schema, applied, serving, released, named, strayDown>>
      BY <1>6 DEF Fail
    <2> QED
      BY <1>0, <2>1, EndIsIdle DEF OthersStay
  <1>7. CASE \E n \in Images : StartServices(n)
    BY <1>0, <1>7 DEF StartServices, sessionVars
  <1>8. CASE SaveName
    <2>1. schema' \in Schemas /\ ColumnsOfTables(schema')
      BY <1>8 DEF SaveName, Schemas, Columns, Present, ColumnsOfTables
    <2> QED
      BY <1>0, <1>8, <2>1 DEF SaveName, sessionVars, ColumnsOfTables
  <1>9. CASE UNCHANGED vars
    BY <1>0, <1>9 DEF vars, sessionVars
  <1> QED
    BY <1>1, <1>2, <1>3, <1>4, <1>5, <1>6, <1>7, <1>8, <1>9 DEF Next, SessionStep

(* Every reachable state of the schema, its versions and the sessions is   *)
(* well typed, whatever images run.                                        *)
THEOREM MigrationsTypeCorrect == Spec => []TypeOK
  <1>1. TypeInv => TypeOK
    BY DEF TypeInv
  <1> QED
    BY <1>1, TypeInit, TypeStep, PTL DEF Spec
-----------------------------------------------------------------------------
(* Locks. *)

(* A file is executed on what its session sees, and locks what it changes; *)
(* a "down" that finds nothing to drop does neither.                       *)
LEMMA ExecuteLocks ==
    ASSUME TypeInv, NEW m \in Sessions, ExecuteFile(m)
    PROVE  /\ run[m].todo # <<>> /\ run[m].at = "execute" /\ run[m].dir \in {"up", "down"}
           /\ Runs(run[m].dir, Pos(m), Seen(m))
           /\ run' = [run EXCEPT ![m].at = "record"]
           /\ \/ run[m].dir = "down" /\ ~There(Pos(m), Seen(m)) /\ UNCHANGED <<draft, holds>>
              \/ /\ run[m].dir = "up" \/ There(Pos(m), Seen(m))
                 /\ \A k \in Sessions \ {m} : Object(Pos(m)) \notin holds[k]
                 /\ holds'[m] = holds[m] \cup {Object(Pos(m))}
                 /\ draft'[m] = IF run[m].dir = "up" THEN Up(Pos(m), Seen(m)) ELSE Down(Pos(m), Seen(m))
  <1>1. /\ run[m].todo # <<>> /\ run[m].at = "execute" /\ run[m].dir \in {"up", "down"}
        /\ Head(run[m].todo) = Pos(m)
    BY AtIsAtPos, RunningIsInOrder DEF ExecuteFile, At
  <1> QED
    BY <1>1 DEF ExecuteFile, MustWait, TypeInv, TypeOK

(* All other steps lock nothing. *)
LEMMA NoOtherLocks ==
    ASSUME TypeInv, NEW m \in Sessions,
           \/ \E dir \in {"up", "down"}, n \in Images : Start(m, dir, n)
           \/ CheckVersion(m) \/ InsertVersion(m) \/ DeleteVersion(m)
    PROVE  /\ UNCHANGED <<schema, applied, draft, holds, serving, released, named, strayDown>>
           /\ \A k \in Sessions \ {m} : run'[k] = run[k]
           /\ run'[m] # Idle
           /\ run[m] = Idle \/ run'[m].dir = run[m].dir
  <1>1. CASE \E dir \in {"up", "down"}, n \in Images : Start(m, dir, n)
    BY <1>1, StartIsInOrder DEF Start
  <1>2. CASE CheckVersion(m)
    BY <1>2, NextIsNext, StayingIsInOrder DEF CheckVersion, At
  <1>3. CASE InsertVersion(m) \/ DeleteVersion(m)
    BY <1>3, NextIsNext DEF InsertVersion, DeleteVersion, At
  <1> QED
    BY <1>1, <1>2, <1>3

LEMMA LocksStep == TypeInv /\ LocksAreSole /\ [Next]_vars => LocksAreSole'
  <1> SUFFICES ASSUME TypeInv, LocksAreSole, [Next]_vars
               PROVE  LocksAreSole'
    OBVIOUS
  <1> USE DEF LocksAreSole
  <1>1. ASSUME NEW m \in Sessions,
               \/ \E dir \in {"up", "down"}, n \in Images : Start(m, dir, n)
               \/ CheckVersion(m) \/ InsertVersion(m) \/ DeleteVersion(m)
        PROVE  LocksAreSole'
    BY <1>1, NoOtherLocks
  <1>2. ASSUME NEW m \in Sessions, ExecuteFile(m)
        PROVE  LocksAreSole'
    <2>1. OthersStay(m) /\ run'[m] # Idle
      BY <1>2, ExecuteIsTyped
    <2>2. \A k \in Sessions \ {m} : holds'[m] \cap holds[k] = {}
      BY <1>2, ExecuteLocks
    <2> QED
      BY <2>1, <2>2 DEF OthersStay
  <1>3. ASSUME NEW m \in Sessions, Commit(m) \/ Fail(m)
        PROVE  LocksAreSole'
    <2>1. End(m)
      BY <1>3 DEF Commit, Fail
    <2> QED
      BY <2>1, EndIsIdle DEF OthersStay
  <1>4. CASE (\E n \in Images : StartServices(n)) \/ SaveName \/ UNCHANGED vars
    BY <1>4 DEF StartServices, SaveName, vars, sessionVars
  <1> QED
    BY <1>1, <1>2, <1>3, <1>4 DEF Next, SessionStep

LEMMA LocksHold == Spec => [](TypeInv /\ LocksAreSole)
  <1>1. Init => LocksAreSole
    BY DEF Init, LocksAreSole
  <1> QED
    BY <1>1, TypeInit, TypeStep, LocksStep, PTL DEF Spec

-----------------------------------------------------------------------------
(* Names. *)

NamesInv == DraftsKeepNames /\ NamesSurvive

LEMMA SeenHasName ==
    ASSUME DraftsKeepNames, NEW m \in Sessions, run[m].dir = "up", HasName(schema)
    PROVE  HasName(Seen(m))
  BY DEF DraftsKeepNames, HasName, Seen

LEMMA NamesStep == TypeInv /\ LocksAreSole /\ NamesInv /\ [Next]_vars => NamesInv'
  <1> SUFFICES ASSUME TypeInv, LocksAreSole, NamesInv, [Next]_vars
               PROVE  NamesInv'
    OBVIOUS
  <1> USE DEF NamesInv, DraftsKeepNames, NamesSurvive
  <1>1. ASSUME NEW m \in Sessions,
               \/ \E dir \in {"up", "down"}, n \in Images : Start(m, dir, n)
               \/ CheckVersion(m) \/ InsertVersion(m) \/ DeleteVersion(m)
        PROVE  NamesInv'
    BY <1>1, NoOtherLocks DEF LocksAreSole
  <1>2. ASSUME NEW m \in Sessions, ExecuteFile(m)
        PROVE  NamesInv'
    <2>1. OthersStay(m) /\ UNCHANGED <<schema, named>> /\ run[m].todo # <<>>
      BY <1>2, ExecuteIsTyped, ExecuteLocks
    <2>2. run'[m].dir = run[m].dir
      BY <1>2, ExecuteLocks, StayingIsInOrder
    <2>3. ASSUME run[m].dir = "up", HasName(schema)
          PROVE  HasName(draft'[m])
      <3>1. Pos(m) \in Versions /\ Seen(m) \in Schemas /\ HasName(Seen(m))
        BY <2>1, <2>3, AtIsAtPos, RunningIsInOrder, SeenIsSchema, SeenHasName DEF TypeInv, Versions
      <3> QED
        BY <1>2, <2>3, <3>1, ExecuteLocks, UpKeepsNames
    <2> QED
      BY <2>1, <2>2, <2>3 DEF OthersStay
  <1>3. ASSUME NEW m \in Sessions, Commit(m)
        PROVE  NamesInv'
    <2>1. /\ OthersStay(m) /\ holds'[m] = {} /\ schema' = Seen(m)
          /\ named' = (named /\ run[m].dir # "down") /\ run[m].dir \in {"up", "down"}
      BY <1>3, EndIsIdle, RunningIsInOrder DEF Commit, Commits
    <2>2. NamesSurvive'
      BY <2>1, SeenHasName DEF HasName
    <2>3. ASSUME NEW k \in Sessions \ {m}, "users" \in holds[k]
          PROVE  schema'.split = schema.split /\ schema'.full = schema.full
      BY <2>1, <2>3 DEF Seen, LocksAreSole
    <2> QED
      BY <2>1, <2>2, <2>3 DEF OthersStay, HasName
  <1>4. ASSUME NEW m \in Sessions, Fail(m)
        PROVE  NamesInv'
    <2>1. End(m) /\ UNCHANGED <<schema, named>>
      BY <1>4 DEF Fail
    <2> QED
      BY <2>1, EndIsIdle DEF OthersStay
  <1>5. CASE SaveName
    <2>1. (\A m \in Sessions : "users" \notin holds[m]) /\ UNCHANGED holds
      BY <1>5 DEF SaveName, UsersUnlocked, sessionVars
    <2>2. "name" \in {schema'.split, schema'.full}
      BY <1>5 DEF SaveName, TypeInv, TypeOK, Schemas
    <2> QED
      BY <2>1, <2>2
  <1>6. CASE (\E n \in Images : StartServices(n)) \/ UNCHANGED vars
    BY <1>6 DEF StartServices, vars, sessionVars
  <1> QED
    BY <1>1, <1>2, <1>3, <1>4, <1>5, <1>6 DEF Next, SessionStep

(* A name that was stored is in one of the columns until somebody migrates *)
(* down, whichever sessions of whichever images run, fail or wait for each *)
(* other, and under services that go on writing.                           *)
THEOREM NamesAreKept == Spec => []NamesSurvive
  <1>1. Init => NamesInv
    BY DEF Init, NamesInv, DraftsKeepNames, NamesSurvive
  <1>2. NamesInv => NamesSurvive
    BY DEF NamesInv
  <1> QED
    BY <1>1, <1>2, LocksHold, NamesStep, PTL DEF Spec
-----------------------------------------------------------------------------
(* Versions.  The images are recent from here on. *)

LEMMA UpGoesUp ==
    ASSUME NEW v \in Versions, NEW s \in Schemas, UsersAre(s, v - 1)
    PROVE  UsersAre(Up(v, s), v)
  BY UpFiles DEF Versions, UsersAre, Schemas, Columns, Present, NameIn

LEMMA DownGoesDown ==
    ASSUME NEW v \in Versions, NEW s \in Schemas, UsersAre(s, v)
    PROVE  UsersAre(Down(v, s), v - 1)
  BY DownFiles DEF Versions, UsersAre, Schemas, Columns, Present, NameIn

LEMMA SeenUsers ==
    ASSUME NEW m \in Sessions, NEW k
    PROVE  /\ "users" \in holds[m] => (UsersAre(Seen(m), k) <=> UsersAre(draft[m], k))
           /\ "users" \notin holds[m] => (UsersAre(Seen(m), k) <=> UsersAre(schema, k))
           /\ "function" \in holds[m] => (Seen(m).function <=> draft[m].function)
           /\ "function" \notin holds[m] => (Seen(m).function <=> schema.function)
  BY DEF Seen, UsersAre

(* A session that is not disturbed still fits, as long as the rows stay. *)
LEMMA StillFits ==
    ASSUME NEW k \in Sessions, Fits(k), applied' = applied,
           run'[k] = run[k], draft'[k] = draft[k], holds'[k] = holds[k],
           added'[k] = added[k], removed'[k] = removed[k]
    PROVE  Fits(k)'
  <1> USE DEF AtRecord, Pos, Risen, Sunk, UsersAre
  <1>1. CASE Untouched(k)
    BY <1>1 DEF Untouched, Fits
  <1>2. CASE FirstFile(k)
    BY <1>2 DEF FirstFile, Fits
  <1>3. CASE Building(k)
    BY <1>3 DEF Building, Fits
  <1>4. CASE Stuck(k)
    BY <1>4 DEF Stuck, Fits
  <1>5. CASE Renamed(k)
    BY <1>5 DEF Renamed, Fits
  <1>6. CASE TakingDown(k)
    BY <1>6 DEF TakingDown, Fits
  <1> QED
    BY <1>1, <1>2, <1>3, <1>4, <1>5, <1>6 DEF Fits

(* The numbers of a running session. *)
LEMMA RecentNumbers ==
    ASSUME RecentImages, TypeInv, NEW m \in Sessions, run[m] # Idle
    PROVE  /\ run[m].dir \in {"up", "down"} /\ run[m].image \in {3, 4}
           /\ run[m].at = "check" => run[m].dir = "up"
           /\ run[m].dir = "up" => Pos(m) \in 1 .. run[m].image + 1
           /\ run[m].dir = "down" => Pos(m) \in 0 .. run[m].image
           /\ run[m].todo # <<>> => Pos(m) \in 1 .. run[m].image
           /\ run[m].todo = <<>> => Pos(m) = IF run[m].dir = "up" THEN run[m].image + 1 ELSE 0
           /\ AtRecord(m) => run[m].todo # <<>>
  <1>1. /\ run[m].dir \in {"up", "down"} /\ run[m].image \in {3, 4} /\ RestOfFiles(m)
        /\ Len(run[m].todo) \in 0 .. run[m].image
        /\ run[m].todo = <<>> <=> Len(run[m].todo) = 0
    BY RunningIsInOrder DEF RecentImages
  <1>2. AtRecord(m) => run[m].todo # <<>>
    BY DEF AtRecord, TypeInv, TypeOK
  <1>3. run[m].at = "check" => run[m].dir = "up"
    BY <1>1 DEF RestOfFiles
  <1>4. run[m].todo # <<>> => Pos(m) \in 1 .. run[m].image
    BY AtIsAtPos
  <1>5. run[m].todo = <<>> => Pos(m) = IF run[m].dir = "up" THEN run[m].image + 1 ELSE 0
    BY <1>1 DEF Pos
  <1>6. /\ run[m].dir = "up" => Pos(m) \in 1 .. run[m].image + 1
        /\ run[m].dir = "down" => Pos(m) \in 0 .. run[m].image
    BY <1>1 DEF Pos
  <1> QED
    BY <1>1, <1>2, <1>3, <1>4, <1>5, <1>6

LEMMA CheckFits ==
    ASSUME RecentImages, TypeInv, NEW k \in {0, 3, 4}, Recorded(k),
           NEW m \in Sessions, Fits(m), CheckVersion(m)
    PROVE  Fits(m)'
  <1>1. /\ run[m].todo # <<>> /\ run[m].at = "check" /\ run[m] # Idle
        /\ UNCHANGED <<applied, draft, holds, added, removed>>
        /\ IF RowSeen(m, Pos(m)) THEN NextFile(m) ELSE run' = [run EXCEPT ![m].at = "execute"]
    BY AtIsAtPos DEF CheckVersion, At
  <1>2. run[m].dir = "up" /\ Pos(m) \in 1 .. run[m].image /\ run[m].image \in {3, 4} /\ ~AtRecord(m)
    BY <1>1, RecentNumbers DEF AtRecord
  <1>3. /\ run'[m].dir = "up" /\ run'[m].image = run[m].image /\ ~AtRecord(m)'
        /\ Pos(m)' = IF RowSeen(m, Pos(m)) THEN Pos(m) + 1 ELSE Pos(m)
    BY <1>1, <1>2, NextIsNext, StayingIsInOrder DEF AtRecord
  <1>4. CASE Untouched(m)
    BY <1>1, <1>3, <1>4 DEF Untouched, Fits
  <1>5. CASE Building(m)
    <2>1. ~RowSeen(m, Pos(m))
      BY <1>2, <1>5 DEF Building, RowSeen, Recorded, Versions
    <2> QED
      BY <1>1, <1>2, <1>3, <1>5, <2>1 DEF Building, Risen, UsersAre, Fits
  <1>6. CASE Stuck(m)
    <2>1. ~RowSeen(m, Pos(m))
      BY <1>2, <1>6 DEF Stuck, RowSeen, Recorded, Versions
    <2> QED
      BY <1>1, <1>3, <1>6, <2>1 DEF Stuck, Fits
  <1> QED
    BY <1>2, <1>4, <1>5, <1>6 DEF Fits, FirstFile, Renamed, TakingDown

LEMMA InsertFits ==
    ASSUME RecentImages, TypeInv, NEW k \in {0, 3, 4}, Recorded(k),
           NEW m \in Sessions, Fits(m), InsertVersion(m)
    PROVE  Fits(m)'
  <1>1. /\ run[m].todo # <<>> /\ run[m].at = "record" /\ run[m].dir = "up" /\ run[m] # Idle
        /\ UNCHANGED <<applied, draft, holds, removed>>
        /\ Pos(m) \notin applied
        /\ added'[m] = added[m] \cup {Pos(m)}
        /\ NextFile(m)
    BY AtIsAtPos DEF InsertVersion, At, TypeInv, TypeOK
  <1>2. Pos(m) \in 1 .. run[m].image /\ run[m].image \in {3, 4} /\ AtRecord(m)
    BY <1>1, RecentNumbers DEF AtRecord
  <1>3. /\ run'[m].dir = "up" /\ run'[m].image = run[m].image /\ ~AtRecord(m)'
        /\ Pos(m)' = Pos(m) + 1
    BY <1>1, NextIsNext
  <1>4. CASE FirstFile(m)
    <2>1. CASE Pos(m) = 1
      BY <1>1, <1>2, <1>3, <1>4, <2>1 DEF FirstFile, Object, Building, Risen, UsersAre, Fits, Versions
    <2>2. CASE Pos(m) = 2
      BY <1>1, <1>2, <1>3, <1>4, <2>2 DEF FirstFile, Object, Stuck, Fits, Recorded, Versions
    <2>3. CASE Pos(m) = 4
      BY <1>1, <1>2, <1>3, <1>4, <2>3 DEF FirstFile, Object, Renamed, UsersAre, Fits
    <2> QED
      BY <1>1, <1>2, <1>4, <2>1, <2>2, <2>3 DEF FirstFile
  <1>5. CASE Building(m)
    BY <1>1, <1>2, <1>3, <1>5 DEF Building, Risen, UsersAre, Fits, Versions
  <1>6. FirstFile(m) \/ Building(m)
    BY <1>1, <1>2 DEF Fits, Untouched, Stuck, Renamed, TakingDown
  <1> QED
    BY <1>4, <1>5, <1>6

LEMMA DeleteFits ==
    ASSUME RecentImages, TypeInv, NEW k \in {0, 3, 4}, Recorded(k),
           NEW m \in Sessions, Fits(m), DeleteVersion(m)
    PROVE  Fits(m)'
  <1>1. /\ run[m].todo # <<>> /\ run[m].at = "record" /\ run[m].dir = "down" /\ run[m] # Idle
        /\ UNCHANGED <<applied, draft, holds, added>>
        /\ removed'[m] = removed[m] \cup ({Pos(m)} \cap applied)
        /\ NextFile(m)
    BY AtIsAtPos DEF DeleteVersion, At, TypeInv, TypeOK
  <1>2. Pos(m) \in 1 .. run[m].image /\ run[m].image \in {3, 4} /\ AtRecord(m)
    BY <1>1, RecentNumbers DEF AtRecord
  <1>3. /\ run'[m].dir = "down" /\ run'[m].image = run[m].image /\ ~AtRecord(m)'
        /\ Pos(m)' = Pos(m) - 1
    BY <1>1, NextIsNext
  <1>4. TakingDown(m)
    BY <1>1, <1>2 DEF Fits, Untouched, FirstFile, Building, Stuck, Renamed
  <1>5. Pos(m) \in applied
    BY <1>2, <1>4 DEF TakingDown, Recorded, Versions
  <1>6. \A v \in Versions : v \in removed'[m] <=> Pos(m)' < v /\ v <= run'[m].image
    BY <1>1, <1>2, <1>3, <1>4, <1>5 DEF TakingDown, Versions
  <1>7. Sunk(m)' = Sunk(m)
    BY <1>2, <1>3 DEF Sunk
  <1>8. TakingDown(m)'
    BY <1>1, <1>3, <1>4, <1>6, <1>7 DEF TakingDown, UsersAre
  <1> QED
    BY <1>8 DEF Fits
LEMMA ExecuteFits ==
    ASSUME RecentImages, TypeInv, LocksAreSole, NEW k \in {0, 3, 4}, Recorded(k),
           NEW m \in Sessions, Fits(m), ExecuteFile(m)
    PROVE  Fits(m)'
  <1> DEFINE up == run[m].dir = "up"
             n == run[m].image
             p == Pos(m)
             s == Seen(m)
  <1>1. /\ run[m].todo # <<>> /\ run[m].at = "execute" /\ run[m] # Idle
        /\ Runs(run[m].dir, p, s)
        /\ UNCHANGED <<applied, added, removed>>
    BY ExecuteLocks, ExecuteIsTyped, AtIsAtPos
  <1>2. p \in 1 .. n /\ n \in {3, 4} /\ p \in Versions /\ ~AtRecord(m) /\ run[m].dir \in {"up", "down"}
    BY <1>1, RecentNumbers DEF AtRecord, Versions
  <1>3. AtRecord(m)' /\ run'[m].dir = run[m].dir /\ run'[m].image = n /\ Pos(m)' = p
    BY <1>1, ExecuteLocks, StayingIsInOrder DEF AtRecord
  <1>4. s \in Schemas
    BY SeenIsSchema DEF TypeInv
  <1>5. up \/ There(p, s)
        => holds'[m] = holds[m] \cup {Object(p)} /\ draft'[m] = IF up THEN Up(p, s) ELSE Down(p, s)
    BY ExecuteLocks
  <1>6. ~up /\ ~There(p, s) => UNCHANGED <<draft, holds>>
    BY ExecuteLocks
  <1> HIDE DEF s
  <1>7. CASE Untouched(m) /\ up
    <2>1. /\ UsersAre(s, k) /\ (s.function <=> k >= 2)
      BY <1>7, SeenUsers DEF Untouched, Recorded, s
    <2>2. holds'[m] = {Object(p)} /\ draft'[m] = Up(p, s)
      BY <1>5, <1>7 DEF Untouched
    <2>3. CASE p = 1
      <3>1. 1 \notin applied => UsersAre(draft'[m], 1)
        <4>1. 1 \notin applied => k = 0
          BY DEF Recorded, Versions
        <4> QED
          BY <1>2, <1>4, <2>1, <2>2, <2>3, <4>1, UpGoesUp
      <3> QED
        BY <1>1, <1>3, <1>7, <2>2, <2>3, <3>1 DEF Untouched, FirstFile, Fits, UsersAre
    <2>4. CASE p = 2
      <3>1. draft'[m].function
        BY <1>2, <1>4, <2>2, <2>4, UpFiles
      <3> QED
        BY <1>1, <1>3, <1>7, <2>2, <2>4, <3>1 DEF Untouched, FirstFile, Fits
    <2>5. CASE p = 3
      <3>1. 3 \in applied
        BY <1>1, <2>1, <2>5 DEF Runs, UsersAre, Recorded, Versions
      <3> QED
        BY <1>1, <1>3, <1>7, <2>2, <2>5, <3>1 DEF Untouched, FirstFile, Fits
    <2>6. CASE p = 4
      <3>1. k = 3
        BY <1>1, <1>7, <2>1, <2>6 DEF Runs, UsersAre
      <3>2. 3 \in applied /\ 4 \notin applied /\ UsersAre(draft'[m], 4)
        BY <1>2, <1>4, <2>1, <2>2, <2>6, <3>1, UpGoesUp DEF Recorded, Versions
      <3> QED
        BY <1>1, <1>3, <1>7, <2>2, <2>6, <3>2 DEF Untouched, FirstFile, Fits, UsersAre
    <2> QED
      BY <1>2, <2>3, <2>4, <2>5, <2>6
  <1>8. CASE Building(m)
    <2>1. up /\ p > 1 /\ UsersAre(s, p - 1) /\ Risen(m) = p - 1
      BY <1>2, <1>8, SeenUsers DEF Building, Risen, s
    <2>2. holds'[m] = holds[m] \cup {Object(p)} /\ draft'[m] = Up(p, s)
      BY <1>5, <2>1
    <2>3. UsersAre(draft'[m], p)
      BY <1>2, <1>4, <2>1, <2>2, UpGoesUp
    <2>4. "function" \in holds'[m] /\ draft'[m].function
      <3>1. CASE p = 2
        BY <1>2, <1>4, <2>2, <3>1, UpFiles DEF Object
      <3>2. CASE p > 2
        <4>1. "function" \in holds[m] /\ s.function
          BY <1>2, <1>8, <2>1, <3>2, SeenUsers DEF Building, s
        <4> QED
          BY <1>2, <1>4, <2>2, <4>1, UpFiles
      <3> QED
        BY <1>2, <2>1, <3>1, <3>2
    <2>5. Risen(m)' = p
      BY <1>3 DEF Risen
    <2>6. "users" \in holds'[m] /\ 1 \notin applied /\ removed[m] = {}
          /\ \A v \in Versions : v \in added[m] <=> v < p
      BY <1>8, <2>2 DEF Building
    <2>7. Building(m)'
      BY <1>1, <1>3, <2>1, <2>3, <2>4, <2>5, <2>6 DEF Building, UsersAre
    <2> QED
      BY <2>7 DEF Fits
  <1>9. CASE Stuck(m)
    <2>1. UsersAre(s, k)
      BY <1>9, SeenUsers DEF Stuck, Recorded, s
    <2> QED
      BY <1>1, <1>9, <2>1 DEF Stuck, Runs, UsersAre, Recorded, Versions
  <1>10. CASE TakingDown(m) \/ (Untouched(m) /\ ~up)
    <2>1. /\ ~up /\ p <= n /\ added[m] = {} /\ Sunk(m) = p
          /\ \A v \in Versions : v \in removed[m] <=> p < v /\ v <= n
      BY <1>2, <1>10 DEF TakingDown, Untouched, Sunk, Versions
    <2>2. "users" \notin holds[m] => Untouched(m) /\ p = n
      BY <1>2, <1>10, <2>1 DEF TakingDown, Untouched
    <2>3. Untouched(m) => UsersAre(s, k) /\ "function" \notin holds[m]
      BY SeenUsers DEF Untouched, Recorded, s
    <2>4. Untouched(m) => n <= k /\ There(p, s) /\ p = n
      BY <1>1, <1>2, <1>10, <2>1, <2>3 DEF Runs, There, UsersAre, TakingDown, Untouched
    <2>5. n <= k /\ n \in applied
      BY <1>2, <1>10, <2>4 DEF TakingDown, Recorded, Versions
    <2>6. /\ "users" \in holds'[m]
          /\ holds'[m] = holds[m] \cup {Object(p)} \/ holds'[m] = holds[m]
      BY <1>2, <1>5, <1>6, <2>1, <2>2, <2>4 DEF Object
    <2>7. ASSUME n + 1 \notin applied
          PROVE  /\ UsersAre(draft'[m], p - 1)
                 /\ p - 1 <= 1 => "function" \in holds'[m] /\ ~draft'[m].function
                 /\ p - 1 >= 2 => "function" \notin holds'[m]
      <3>1. n = k
        BY <1>2, <2>5, <2>7 DEF Recorded, Versions
      <3>2. UsersAre(s, p)
        <4>1. CASE Untouched(m)
          BY <2>3, <2>4, <3>1, <4>1
        <4>2. CASE TakingDown(m)
          BY <2>1, <2>7, <4>2, SeenUsers DEF TakingDown, s
        <4> QED
          BY <1>10, <4>1, <4>2
      <3>3. p >= 2 => "function" \notin holds[m] /\ s.function
        <4>1. p >= 2 => "function" \notin holds[m]
          BY <1>10, <2>1, <2>3, <2>7 DEF TakingDown
        <4> QED
          BY <1>2, <3>1, <4>1, SeenUsers DEF Recorded, s
      <3>4. p = 1 => "function" \in holds[m] /\ ~s.function
        BY <1>2, <1>10, <2>1, <2>4, <2>7, SeenUsers DEF TakingDown, s
      <3>5. There(p, s)
        BY <1>2, <3>2, <3>3 DEF There, UsersAre
      <3>6. holds'[m] = holds[m] \cup {Object(p)} /\ draft'[m] = Down(p, s)
        BY <1>5, <2>1, <3>5
      <3>7. UsersAre(draft'[m], p - 1)
        BY <1>2, <1>4, <3>2, <3>6, DownGoesDown
      <3>8. p - 1 <= 1 => "function" \in holds'[m] /\ ~draft'[m].function
        BY <1>2, <1>4, <3>3, <3>4, <3>6, DownFiles DEF Object
      <3>9. p - 1 >= 2 => "function" \notin holds'[m]
        BY <1>2, <3>3, <3>6 DEF Object
      <3> QED
        BY <3>7, <3>8, <3>9
    <2>8. Sunk(m)' = p - 1
      BY <1>3 DEF Sunk
    <2>9. TakingDown(m)'
      <3>1. run'[m].dir = "down"
        BY <1>2, <1>3, <2>1
      <3> QED
        BY <1>1, <1>2, <1>3, <2>1, <2>5, <2>6, <2>7, <2>8, <3>1 DEF TakingDown, UsersAre
    <2> QED
      BY <2>9 DEF Fits
  <1>11. ~FirstFile(m) /\ ~Renamed(m)
    BY <1>2 DEF FirstFile, Renamed
  <1> QED
    BY <1>7, <1>8, <1>9, <1>10, <1>11 DEF Fits
LEMMA IdleFits ==
    ASSUME NEW m \in Sessions, run[m] = Idle, Fits(m)
    PROVE  Untouched(m)
  <1>1. run[m].dir = "none"
    BY DEF Idle
  <1> QED
    BY <1>1 DEF Fits, FirstFile, Building, Stuck, Renamed, TakingDown

LEMMA StartFits ==
    ASSUME TypeInv, NEW m \in Sessions, Fits(m),
           NEW dir \in {"up", "down"}, NEW n \in Images, Start(m, dir, n)
    PROVE  Fits(m)'
  <1>1. Untouched(m) /\ UNCHANGED <<holds, added, removed>>
    BY IdleFits DEF Start
  <1>2. run'[m].dir = dir /\ run'[m].image = n /\ ~AtRecord(m)' /\ (dir = "down" => Pos(m)' = n)
    BY StartIsInOrder
  <1> QED
    BY <1>1, <1>2 DEF Untouched, Fits

(* A commit: the versions go with the schema, and where they change,       *)
(* nobody else was half way.                                               *)
LEMMA CommitFits ==
    ASSUME RecentImages, TypeInv, LocksAreSole, \A j \in Sessions : Fits(j),
           NEW k \in {0, 3, 4}, Recorded(k), NEW m \in Sessions, Commit(m)
    PROVE  strayDown' \/ ((\A j \in Sessions : Fits(j)') /\ \E l \in {0, 3, 4} : Recorded(l)')
  <1> DEFINE n == run[m].image
  <1>1. /\ run[m] # Idle /\ run[m].todo = <<>> /\ ~AtRecord(m)
        /\ run[m].dir \in {"up", "down"} /\ n \in {3, 4}
        /\ Pos(m) = IF run[m].dir = "up" THEN n + 1 ELSE 0
    BY RecentNumbers DEF Commit, Commits
  <1>2. /\ schema' = Seen(m) /\ applied' = (applied \ removed[m]) \cup added[m]
        /\ strayDown' <=> strayDown \/ (run[m].dir = "down" /\ \E v \in applied : v > n)
        /\ End(m)
    BY DEF Commit
  <1>3. OthersStay(m) /\ Untouched(m)'
    BY <1>2, EndIsIdle DEF Untouched, AtRecord, Idle
  <1>4. ASSUME NEW l, UsersAre(Seen(m), l), Seen(m).function <=> l >= 2
        PROVE  UsersAre(schema, l)' /\ (schema'.function <=> l >= 2)
    BY <1>2, <1>4 DEF UsersAre
  <1>5. CASE Untouched(m)
    <2>1. applied' = applied
      BY <1>2, <1>5 DEF Untouched
    <2>2. UsersAre(Seen(m), k) /\ (Seen(m).function <=> k >= 2)
      BY <1>5, SeenUsers DEF Untouched, Recorded
    <2>3. Recorded(k)'
      BY <1>4, <2>1, <2>2 DEF Recorded
    <2>4. \A j \in Sessions \ {m} : Fits(j)'
      BY <1>3, <2>1, StillFits DEF OthersStay
    <2> QED
      BY <1>3, <2>3, <2>4 DEF Fits
  (* Whoever else has changed something has a lock. *)
  <1>6. ASSUME NEW j \in Sessions \ {m}, "users" \in holds[m], ~Untouched(j)
        PROVE  (FirstFile(j) /\ Pos(j) = 2 /\ "function" \in holds[j]) \/ (Stuck(j) /\ "function" \in holds[j])
    <2>1. "users" \notin holds[j]
      BY <1>6 DEF LocksAreSole
    <2>2. FirstFile(j) \/ Stuck(j)
      BY <1>6, <2>1 DEF Fits, Building, Renamed, TakingDown
    <2> QED
      BY <2>1, <2>2 DEF FirstFile, Stuck, Object
  <1>7. ASSUME NEW j \in Sessions \ {m}, Untouched(j)
        PROVE  Fits(j)'
    BY <1>3, <1>7 DEF OthersStay, Untouched, Fits, AtRecord, Pos
  <1>8. CASE Building(m)
    <2>1. run[m].dir = "up" /\ Pos(m) = n + 1 /\ Risen(m) = n
      BY <1>1, <1>8 DEF Building, Risen
    <2>2. /\ "users" \in holds[m] /\ UsersAre(draft[m], n)
          /\ "function" \in holds[m] /\ draft[m].function
      BY <1>1, <1>8, <2>1 DEF Building
    <2>3. UsersAre(Seen(m), n) /\ Seen(m).function
      BY <2>2, SeenUsers
    <2>4. \A v \in Versions : v \in applied' <=> v <= n
      BY <1>1, <1>2, <1>8, <2>1 DEF Building, Recorded, Versions
    <2> PICK l \in {3, 4} : l = n
      BY <1>1
    <2>5. Recorded(l)'
      BY <1>4, <2>3, <2>4 DEF Recorded
    <2>6. \A j \in Sessions \ {m} : Untouched(j)
      BY <1>6, <2>2 DEF LocksAreSole
    <2> QED
      BY <1>1, <1>3, <1>7, <2>5, <2>6 DEF Fits
  <1>9. CASE Renamed(m)
    <2>1. n = 4 /\ k = 3
      BY <1>1, <1>9 DEF Renamed, Recorded, Versions
    <2>2. UsersAre(Seen(m), 4) /\ Seen(m).function
      BY <1>9, <2>1, SeenUsers DEF Renamed, Recorded
    <2>3. \A v \in Versions : v \in applied' <=> v <= 4
      BY <1>2, <1>9, <2>1 DEF Renamed, Recorded, Versions
    <2>4. Recorded(4)'
      BY <1>4, <2>2, <2>3 DEF Recorded
    <2>5. ASSUME NEW j \in Sessions \ {m}
          PROVE  Fits(j)'
      <3>1. CASE Untouched(j)
        BY <1>7, <3>1
      <3>2. CASE ~Untouched(j)
        <4>1. FirstFile(j) /\ Pos(j) = 2
          BY <1>6, <1>9, <3>2 DEF Renamed, Stuck, Recorded, Versions
        <4> QED
          BY <1>3, <4>1 DEF OthersStay, FirstFile, Fits, AtRecord, Pos
      <3> QED
        BY <3>1, <3>2
    <2> QED
      BY <1>3, <2>4, <2>5 DEF Fits
  <1>10. CASE TakingDown(m)
    <2>1. run[m].dir = "down" /\ Pos(m) = 0 /\ Sunk(m) = 0
      BY <1>1, <1>10 DEF TakingDown, Sunk
    <2>2. CASE n + 1 \in applied
      BY <1>1, <1>2, <2>1, <2>2
    <2>3. CASE n + 1 \notin applied
      <3>1. n = k
        BY <1>1, <1>10, <2>3 DEF TakingDown, Recorded, Versions
      <3>2. /\ "users" \in holds[m] /\ UsersAre(draft[m], 0)
            /\ "function" \in holds[m] /\ ~draft[m].function
        BY <1>10, <2>1, <2>3 DEF TakingDown
      <3>3. UsersAre(Seen(m), 0) /\ ~Seen(m).function
        BY <3>2, SeenUsers
      <3>4. \A v \in Versions : v \in applied' <=> v <= 0
        BY <1>2, <1>10, <2>1, <3>1 DEF TakingDown, Recorded, Versions
      <3>5. Recorded(0)'
        BY <1>4, <3>3, <3>4 DEF Recorded
      <3>6. \A j \in Sessions \ {m} : Untouched(j)
        BY <1>6, <3>2 DEF LocksAreSole
      <3> QED
        BY <1>3, <1>7, <3>5, <3>6 DEF Fits
    <2> QED
      BY <2>2, <2>3
  <1>11. ~FirstFile(m) /\ ~Stuck(m)
    BY <1>1 DEF FirstFile, Stuck
  <1> QED
    BY <1>5, <1>8, <1>9, <1>10, <1>11 DEF Fits

LEMMA VersionStep ==
    RecentImages /\ TypeInv /\ LocksAreSole /\ VersionInv /\ [Next]_vars => VersionInv'
  <1> SUFFICES ASSUME RecentImages, TypeInv, LocksAreSole, VersionInv, [Next]_vars
               PROVE  VersionInv'
    OBVIOUS
  <1>1. CASE strayDown
    <2>1. strayDown'
      BY <1>1 DEF Next, SessionStep, CheckVersion, ExecuteFile, InsertVersion, DeleteVersion, Commit, Fail,
                  Start, StartServices, SaveName, vars
    <2> QED
      BY <2>1 DEF VersionInv
  <1>2. CASE ~strayDown
    <2>1. \A m \in Sessions : Fits(m)
      BY <1>2 DEF VersionInv
    <2> PICK k \in {0, 3, 4} : Recorded(k)
      BY <1>2 DEF VersionInv
    <2>2. UNCHANGED <<schema, applied>> => Recorded(k)'
      BY DEF Recorded, UsersAre
    <2>3. ASSUME NEW m \in Sessions, Fits(m)', OthersStay(m), UNCHANGED <<schema, applied>>
          PROVE  VersionInv'
      <3>1. \A j \in Sessions \ {m} : Fits(j)'
        BY <2>1, <2>3, StillFits DEF OthersStay
      <3> QED
        BY <2>2, <2>3, <3>1 DEF VersionInv
    <2>4. ASSUME NEW m \in Sessions, NEW dir \in {"up", "down"}, NEW n \in Images, Start(m, dir, n)
          PROVE  VersionInv'
      BY <2>1, <2>3, <2>4, StartFits, StartIsInOrder DEF Start, OthersStay
    <2>5. ASSUME NEW m \in Sessions, CheckVersion(m)
          PROVE  VersionInv'
      <3>1. OthersStay(m) /\ UNCHANGED <<schema, applied>>
        BY <2>5, NoOtherLocks DEF CheckVersion, OthersStay
      <3> QED
        BY <2>1, <2>3, <2>5, <3>1, CheckFits
    <2>6. ASSUME NEW m \in Sessions, ExecuteFile(m)
          PROVE  VersionInv'
      BY <2>1, <2>3, <2>6, ExecuteFits, ExecuteIsTyped
    <2>7. ASSUME NEW m \in Sessions, InsertVersion(m) \/ DeleteVersion(m)
          PROVE  VersionInv'
      <3>1. OthersStay(m) /\ UNCHANGED <<schema, applied>>
        BY <2>7, NoOtherLocks DEF InsertVersion, DeleteVersion, OthersStay, TypeInv, TypeOK
      <3> QED
        BY <2>1, <2>3, <2>7, <3>1, InsertFits, DeleteFits
    <2>8. ASSUME NEW m \in Sessions, Commit(m)
          PROVE  VersionInv'
      BY <2>1, <2>8, CommitFits DEF VersionInv
    <2>9. ASSUME NEW m \in Sessions, Fail(m)
          PROVE  VersionInv'
      <3>1. End(m) /\ UNCHANGED <<schema, applied>>
        BY <2>9 DEF Fail
      <3>2. Fits(m)' /\ OthersStay(m)
        BY <3>1, EndIsIdle DEF Fits, Untouched, AtRecord, Idle
      <3> QED
        BY <2>3, <3>1, <3>2
    <2>10. CASE (\E n \in Images : StartServices(n)) \/ SaveName \/ UNCHANGED vars
      <3>1. UNCHANGED <<applied, sessionVars>>
        BY <2>10 DEF StartServices, SaveName, vars
      <3>2. Recorded(k)'
        BY <2>10, <3>1 DEF StartServices, SaveName, vars, Recorded, UsersAre, Present,
                           TypeInv, TypeOK, Schemas, Columns
      <3>3. \A m \in Sessions : Fits(m)'
        BY <2>1, <3>1, StillFits DEF sessionVars
      <3> QED
        BY <3>2, <3>3 DEF VersionInv
    <2> QED
      BY <2>4, <2>5, <2>6, <2>7, <2>8, <2>9, <2>10 DEF Next, SessionStep
  <1> QED
    BY <1>1, <1>2

(* The rows of schema_migrations are the first versions and say what the   *)
(* schema is, whatever sessions of this image and the one before 0004 run  *)
(* into each other, unless a "down" has strayed.                           *)
THEOREM VersionsAreTrue == RecentImages /\ Spec => []VersionsMeanSchema
  <1>1. Init => VersionInv
    <2> SUFFICES ASSUME Init PROVE VersionInv
      OBVIOUS
    <2>1. \A m \in Sessions : Fits(m)
      BY DEF Init, Fits, Untouched, AtRecord, Idle
    <2>2. Recorded(0)
      BY DEF Init, Recorded, UsersAre, NoSchema, Present, Versions
    <2> QED
      BY <2>1, <2>2 DEF VersionInv
  <1>2. TypeInv /\ VersionInv => VersionsMeanSchema
    <2> SUFFICES ASSUME TypeInv, ~strayDown, NEW k \in {0, 3, 4}, Recorded(k)
                 PROVE  VersionsMeanSchema
      BY DEF VersionInv, VersionsMeanSchema
    <2>1. applied = 1 .. k
      <3>1. \A v \in 1 .. 4 : v \in applied <=> v <= k
        BY DEF Recorded, Versions
      <3>2. applied \subseteq 1 .. 4
        BY DEF TypeInv, TypeOK, Versions
      <3>3. applied \subseteq 1 .. k
        BY <3>1, <3>2
      <3>4. 1 .. k \subseteq applied
        BY <3>1
      <3> QED
        BY <3>3, <3>4
    <2>2. k \in Versions \cup {0}
      BY DEF Versions
    <2>3. /\ schema.tables <=> k >= 1
          /\ schema.function <=> k >= 2
          /\ Present(schema.split) <=> k = 3
          /\ Present(schema.full) <=> k = 4
      BY DEF Recorded, UsersAre
    <2> QED
      BY <2>1, <2>2, <2>3 DEF VersionsMeanSchema
  <1>3. RecentImages => RecentImages'
    BY DEF RecentImages
  <1> QED
    BY <1>1, <1>2, <1>3, LocksHold, VersionStep, PTL DEF Spec
=============================================================================
