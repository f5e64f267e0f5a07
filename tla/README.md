# MaxBridge in TLA+

MaxBridge copies messages of Telegram groups to users of the MAX messenger. Two Go processes share
one PostgreSQL database: the **bridge** (`cmd/bridge`) takes webhooks and fills a queue, the
**worker** (`cmd/worker`) empties it; an operator changes the same tables through a terminal
interface (`cmd/tui`), and a release migrates them. There is no other channel between them: what must
be right is what each process does to rows that others change under it, and what is left behind when
a step of it fails.

This directory holds TLA+ modules translated from the source, TLC configurations that check them on
small instances, and TLAPS proofs, for all instances, of every safety property they pass: of the
delivery queue, the two webhooks, the media pass, webhook and queue together, the migrations and the
operator's console.

    tlc -workers 2 -config DeliveryMishaps.cfg MCDelivery    # one run; PROJECT.json lists them all
    tlapm DeliveryPromiseProofs.tla                          # checks the proofs of one module

`PROJECT.json` maps every definition to its source lines, and lists runs, mutants, hazards, findings
and theorems.

## 1. Inventory

| Component | Source | State | What is hard about it | Module |
|---|---|---|---|---|
| delivery queue | `internal/storage/store.go`, `migrations/0001` | `delivery_jobs`, `delivery_attempts` | four writers, statements not fenced by status or lease | `JobTable`, `AtLeastOnce` |
| worker | `internal/delivery/worker.go`, `cmd/worker` | claimed rows, channel, a copy per goroutine | copies go stale, leases overrun, crash between send and write | `DeliveryWorker` |
| MAX client, Telegram client, media | `internal/max`, `internal/telegram`, `worker.go:190-420` | the media at work, an open download, warm-up delays | a timeout of one client under a request of the other, a dozen ways out, silence after acceptance | `MediaSend`, `OneRun` |
| circuit breaker | `internal/delivery/circuit.go` | counter, openUntil | shared by all goroutines; an open one costs attempts | `CircuitBreaker` |
| directory | `store.go` | `telegram_groups`, `max_users`, `routes` | changed while others read it | `Directory` |
| Telegram webhook | `internal/httpapi/server.go`, `store.go:204` | `dedupe_records`, an open transaction per request | redelivery overlapping the first delivery, lock order, foreign keys | `Ingress` |
| webhook and queue together | | | what a 200 promises once the worker, the operator and housekeeping have the row | `Pipeline` |
| MAX webhook, invites | `server.go:207`, `store.go:75` | `invites`, steps of a request | six commits in a row, each may be the last; two users with one code | `Onboarding` |
| migrations | `internal/storage/migrate.go`, `migrations/` | `schema_migrations`, the schema itself | sessions beside each other, images of different age, services that go on writing | `Migrations` |
| retention | `internal/ops/housekeeping.go`, `store.go:398` | – | wipes and deletes what a retry or a redelivery may need | in `JobTable`, `Ingress` |
| console, interface | `internal/tui/model.go` | the Bubble Tea `Model`, commands on their way | results arrive in any order, in any mode | `Console` |
| console, services | `internal/tui/service.go` | – | no check of what the row is by now | operator actions of the other modules |
| message rendering, metrics, logging, health, configuration, scripts | | – | – | not modelled, see section 7 |

What makes each of them correct:

* queue and worker: a job is settled in the end; nothing claims a success MAX did not confirm to
  itself; a dead letter has used its attempts; one goroutine per job and one message per job, except
  for causes that can be named;
* a pass over a message with media: MAX accepts it once, with all of its media, whole and in order; no
  download is left open; the pass ends;
* Telegram webhook: one job per route and message, however often it is delivered; a 200 means queued;
  nobody gets what he did not ask for;
* both together: what a 200 promised arrives, is dead or went with its route; every update is
  acknowledged and settled;
* MAX webhook: one user per invite; strangers leave no trace; a route needs a grant; a revocation
  that was reported is final; every link is answered;
* migrations: the recorded versions say what the schema is; no stored name is lost on the way up;
* console: no index out of range, no action on a record of another kind, no dangerous action without
  its confirmation.

## 2. Modules

    JobTable      CircuitBreaker          Directory
         \          /                     /        \
        DeliveryWorker                 Ingress    Onboarding      Console     Migrations
         |  implements                   |            |              |            |
         |    AtLeastOnce <--- queue --- Pipeline     |              |            |
         |                                |           |              |            |
      MCDelivery         MCIngress, MCPipeline   MCOnboarding    MCConsole   MCMigrations

    MediaSend  implements  OneRun      (what DeliveryWorker's steps "prepare" to "replying" stand for)

    DeliveryWorker <- DeliveryWorkerProofs <- DeliveryPromiseProofs
    Ingress        <- IngressProofs
    Pipeline       <- PipelineProofs     (EXTENDS IngressProofs too)
    Onboarding     <- OnboardingProofs
    MediaSend      <- MediaSendProofs
    Migrations     <- MigrationsProofs
    Console        <- ConsoleProofs

(Each module of proofs EXTENDS the one to its left. `DeliveryWorker` and `Pipeline` implement
`AtLeastOnce`, and `MediaSend` implements `OneRun`, by the INSTANCEs in the detailed modules.)

**One statement is one atomic step.** PostgreSQL runs under READ COMMITTED and the code uses a
transaction of several statements in four places only. So a SQL statement outside them is one
action. `RemoveUser` is one action too (nobody sees half of it). In the other three
(`EnqueueTelegramUpdate`, `ConsumeInvite`, `RunMigrations`) each statement is an action, what it
writes is invisible to others until the commit, and the locks it takes are guards of those it makes
wait. Every network call, channel operation and goroutine switch separates two actions.

**`JobTable`**: one operator per statement. `available_at` and `leased_until` are kept as what a
WHERE clause can see of them, on which side of `now()` they are; `BecomeDue` and `LeaseRunsOut` are
the clock. `ORDER BY available_at` is abstracted to "any claimable rows", so nothing shown here leans
on the order. Ids are not reused: a deleted row stays `deleted`.

**`CircuitBreaker`**: `Allow`, `MarkSuccess`, `MarkFailure`, each under the mutex in the code.

**`DeliveryWorker`**: `claimed` are the rows `ClaimJobs` returned that the loop has not yet sent to
the channel (while there are any, the loop sits in the send and serves no ticker: worker.go:121-129),
`jobsCh` the channel of capacity `2*concurrency`, `pc[w]`/`held[w]` the goroutine and its copy of the
row. `processOne` is `Admit`/`Refuse`, `Send`/`MediaFails`, `MaxAccepts`/`MaxRefuses`,
`ReplyArrives`/`ReplyLost`, `LogSuccess`, `Complete` and, for a failure, `LogFailure`, `Reschedule`,
then `Report`. MAX accepting a message and the worker hearing of it are different steps. A cancelled
context (SIGTERM) makes every later statement and request of the process fail, so it is `Crash`.
`accepted`, `hollow`, `revived`, `failedRuns`, `contended` and `unconfirmed` are history: no action
reads them. `revived` are the jobs the operator retried after they had been wiped, and only those;
`contended` are also the ones whose lease overran under a living copy.

**`MediaSend`**: the inside of those steps for one message: `prepareAttachments` medium by medium
(`Download`, `RequestUploadURL`, `UploadFile` and their failures) and `sendWithAttachmentWarmup`
(`MaxAccepts`, `MaxRefuses`, `Warmup`). `body` is the download, which is read while MAX is asked for
an upload URL and may be cut off by the Telegram client's timeout at any moment (`BodyTimesOut`).
**`OneRun`** is the same pass as `DeliveryWorker` sees it, with the action names it has there; that
`MediaSend` implements it is what allows `DeliveryWorker` to take a pass for four steps. The link from
`OneRun` to the actions of `DeliveryWorker` is by name and by reading: no run or proof compares them.

**`AtLeastOnce`**: the promise of README.md ("at-least-once, retry, DLQ, lease recovery") with no
leases, copies or goroutines. `received` counts up to two, and a second delivery needs a message that
is `disturbed`, which under `DeliveryWorker`'s refinement is `contended \cup unconfirmed`.

**`Directory`**: who is connected to what; the guards are foreign keys and unique constraints. A
route id is one row for all its life, and a pair of chat and user may own several ids in turn.

**`Ingress`**: requests `h` with `cand[h]`, the candidates not yet gone through, and `mine[h]`, the
routes it has inserted key and job for and not committed. An insert waits for an open transaction
with the same key (`HeldBy`), a deletion of a route waits for transactions that refer to it, and
requests waiting in a circle lose one of them (`DeadlockVictim`). `owed` and `chance` are history: the
routes that wanted an update all along, or at some time, since it was sent.

**`Pipeline`**: `Ingress` with the queue behind it, as `AtLeastOnce` describes it, instantiated for
the jobs of the pairs of route and update. The rows a step of the bridge commits enter the queue in
the same step (`BridgeSteps`), a deleted route takes its rows along (`DeleteRouteAndJobs`), and the
worker's steps are those of `AtLeastOnce`, split into ordinary progress (`WorkerStep`), what disturbs a
job, stale copies and the operator do (`Contention`) and retention (`Retire`). That `Pipeline` implements
`AtLeastOnce` is therefore by construction, and nothing is claimed from it.

**`Onboarding`**: `lookup` and `delete` are inside `ConsumeInvite`, a request at `delete` holding the
row lock; then `upsert`, `routes`, `greet`, `status`, `reply`, each a commit or a call of its own.
`max_users.last_delivery_status` has two writers, this handler and the worker (worker.go:178, :236), and
both are here (`RecordStatus`, `WorkerReports`). Between them the column says what was last written, not
what was last delivered: no property speaks of more than whose it may be (`StrangersStayOut`).

**`Migrations`**: `RunMigrations` as a session with its files, its uncommitted schema (`draft`) and
rows (`added`, `removed`); `Up` and `Down` are what the files do, `Runs` whether PostgreSQL can
execute them at all. `max_users` with its name columns stands for the tables, `function` for 0002.
Services of an image are started once its `up` has gone through (`StartServices`, deploy and rollback)
and write names in the columns their image knows (`SaveName`).

**`Console`**: `Update` as one action per key and mode or message; `model` is the `Model`, `cmds` the
commands that have not returned. A load returns any list of up to two records, since the tables belong
to everybody. History: the record a menu was opened for and whether a list was replaced since.

The `MC` modules add the values of an instance and, where things go wrong, a budget: each kind of
mishap (a fault, a crash, an operator's change) costs one of `MaxMishaps`. Normal progress is not
bounded. Operators ending in `_M` are mutants: the definition that follows them with a bug it could
have had. `PROJECT.json` says which property of which run each of them breaks.

## 3. Runs

| Run | Instance | Shows |
|---|---|---|
| `delivery_mishaps` | 1 job, 2 goroutines, 2 attempts, breaker at 2, any 2 mishaps | all safety properties of the worker and `ImplementsPromise` |
| `delivery_settles` | 1 goroutine, so a channel of 2, 2 attempts, breaker at 1, 3 mishaps (lease, crash, database, reply) for one job, or a second job and no mishap | every job settles, through retries, backoff, breaker, a full channel, stale copies or whatever else went wrong; a loop blocked on the channel comes back |
| `permanent_goes_dead` | 1 job, 1 goroutine, no mishap | finding 1 |
| `ingress_safety` | 2 updates (one filtered out by some routes), 2 requests, 2 users, 3 route ids, 2 mishaps | deduplication, acknowledgement, consent; a route deleted and added again with another filter |
| `disabled_group` | 1 update, 2 routes, 1 operator's change | finding 2 |
| `pipeline` | 1 update, 2 requests, 3 route ids (one a second try), 1 attempt per job, 1 mishap on either side | what a 200 promised, causes of a message sent twice, every update acknowledged and settled, deadlocks included |
| `onboarding_safety` | a group invite two users race for and an invite that copies a route, 2 requests, 2 mishaps | one use per invite, revocation, strangers, routes are granted (the source of a copied route may be deleted) |
| `onboarding_answers` | an invite without a chat next to a group invite, 2 requests, 2 mishaps | routes are granted; every link is answered |
| `lost_invite` | the same, 1 fault | finding 3 |
| `console` | two tours: three sections with lists of up to 2 records; routes, queue and the picker with one record and one option; 2 commands on their way | ranges, sections, confirmations, menus and pickers under late results |
| `media_send` | a message with any of the six media, no budget | one acceptance, nothing left out, bodies closed, the pass ends, `ImplementsOneRun` |
| `migrations` | 3 sessions, the images 3 and 4, no budget | recorded versions are the schema; names survive a release and a rollback of the image |

Why the bounds are enough.

* Delivery: the properties speak of one job (`OneCurrentCopy`, `DuplicateHasCause`, ...); jobs
  interact only through the channel, the breaker and the batch of a claim, which `delivery_settles`
  adds. Two goroutines are what it takes to have two copies at work. Two attempts tell a retry from a
  dead letter; a threshold of 2 has a breaker that counts before it opens. Two mishaps give every pair
  of causes: a lease that overruns twice, a crash after a lost reply, an operator's retry after a wipe.
  `delivery_settles` has one goroutine because the channel has room for two copies per goroutine: with
  three overruns of one job's lease a copy is at work, two fill the channel and the loop blocks in its
  send with the fourth. That is the least that fills it, and blocks the loop whatever the number of
  goroutines: all of them must be busy then. The second job comes only where nothing else goes wrong;
  with mishaps and several jobs together the safety properties are proved, which have no budget, and
  liveness is not checked.
* Webhooks: two overlapping requests are what the locks are about; a third would wait like the second.
  Two routes can be met in two orders, hence deadlock; a third id lets a pair be deleted and added again.
  The worker's reports cost nothing in `onboarding_safety`; no answer depends on what they write, so
  they are left out of `onboarding_answers`.
* `pipeline` starts from a directory in which everybody is linked (`Furnished`), since how it got there
  is the question of the other runs, and lets a job have one attempt: more of them are the question of
  the delivery runs. A pair may be queued twice, which takes a second mishap to exceed.
  A job that is disturbed costs the mishap, and the stale copy that sends it again nothing.
* Migrations: image 4 is the repository's; image 3 is what it was before 0004 and the only age that
  makes a difference to the name columns. Three sessions are two that collide and one that finds what
  they left.
* Console: one command on its way is always the one a property is about, and a second is one that
  overtakes it. A list of two records can shrink, grow and be turned round under a cursor.
* `media_send`: a message has at most one medium of each field, so this instance is the program's.

Deadlock checking is on, except for the delivery runs: a queue whose jobs are all settled and whose
budget is spent does stop. A finished pass of `MediaSend` stutters explicitly.

The safety runs use symmetry over interchangeable goroutines, jobs, requests, sessions or command
slots, the liveness runs none.

## 4. Fairness

* Worker: weak fairness of the tickers (`ClaimTick`, `StaleTick`), of pushing to the channel, of each
  goroutine, the clock (`BackoffEnds`, `LeaseLapses`, `BreakerCools`) and `Restart`. Tickers fire for
  ever, the Go scheduler is fair, HTTP calls end because the clients have timeouts, and the containers
  are restarted (`restart: unless-stopped`). No fairness for anything that goes wrong, so liveness does
  not lean on a lease overrunning or an operator coming by. Of success there is no promise: a job may
  also settle as a dead letter.
* A pass (`MediaSend`): weak fairness of its steps taken together. Both clients have timeouts and the
  delays of the warm-up end; which of the possible answers comes is left open.
* Telegram webhook: strong fairness of an update's arrival (Telegram repeats it until it gets a 200),
  weak fairness of a request's next step and of the end of a deadlock. An insert of a key waits in
  PostgreSQL's lock queue and is woken when the holder ends; the strong fairness of `FurtherThan(u, n)`
  says that of the requests for an update that have got as far as `n` rows, not all are overtaken for
  ever by requests that only arrive while they wait.
* Both together (`Pipeline`): in addition, weak fairness of `WorkerStep`: open jobs are tried and
  written down. That is what `EveryJobSettles` shows of `DeliveryWorker`.
* MAX webhook: strong fairness of a link's arrival and of a request's next step, for the same reasons
  (a request waiting for an invite's row is next when the holder commits).

Each mishap is bounded by the budget: no acknowledgement is promised while the database fails for ever.

## 5. What is proved

For any set of jobs, goroutines, requests, updates, invites, links, routes, users, migrating sessions
and console commands, any integer as `MaxAttempts` (the environment may say 0 or -1), any positive
threshold, any of the media and any sections:

| Theorem | Property | Argument |
|---|---|---|
| `TypeCorrect` | `TypeOK` | inductive by itself; one lemma per variable group (`TableTypes`, `BreakerTypes`, `LoopTypes`, `SlotTypes`, `OtherTypes`) |
| `NobodyStrands` | `NoStrandedJob` | every step is at most one statement (`StepIsStatement`), and no statement, by whomever and in whatever order, strands a row (`StatementStrandsNoJob`) |
| `SuccessIsTrue` | `NoFalseSuccess` | needs `HonestSlots`: a goroutine about to write a success has had the job accepted. `NoFalseSuccess` alone is not inductive, for `Complete` looks at the goroutine, not at MAX |
| `DeadLettersAreEarned` | `DeadLetterEarned` | needs `AttemptsBacked`: copies too carry no more attempts than there were failed runs, and a goroutine at the write of a failure has one more run behind it. `EveryRowMoves` lists what a step may do to a row |
| `OneHolder` | `OneCurrentCopy` | that there is one copy and that it agrees with its row only hold together: a second claim is impossible because the row agrees with the copy (it is `processing`), and the row agrees because nobody else holds a copy to write with (`ContentionStep`) |
| `FinishedStaysFinished` | `FinishedIsFinal` | from the invariant of `OneHolder`: an uncontended finished row has no copy that could reopen it |
| `DuplicatesAreExplained` | `DuplicateHasCause` | needs `OneMessage`: a job MAX has accepted, and of which nothing went wrong, is with the goroutine that had it accepted, past the send, or `completed` and out of everybody's hands; so nobody is left to send it again |
| `MessagesAreWhole` | `NoHollowMessage` | needs `WholeUntilRevived`: until the operator retries it, a wiped row is completed and in nobody's hands, so no late copy can reopen it and none is claimed of it, and every other row and copy has its payload, contended or not. Only housekeeping wipes (`WhoWipes`), and it takes completed rows that have aged out of every hand |
| `QueueKeepsItsPromise` | `ImplementsPromise` | the invariant `Backing` (who writes a success had the job accepted, who writes a dead letter has the tries, a copy has a row) and `OneMessage`, which allows a second acceptance to contended or unconfirmed jobs only (`SecondHasCause`); then step by step: what a step does to a row and to its pass is a step of `AtLeastOnce` or a stutter (`RowStep`, `PassStep`, `PromiseStep`) |
| `PassTypeCorrect` | `TypeOK` of `MediaSend` | part of `PassInv` |
| `SendsOnce`, `SendsAll`, `ClosesBodies` | `AcceptedOnce`, `NothingLeftOut`, `BodiesAreClosed` | one inductive invariant, `PassInv`: what has been uploaded are the first media of the message, whole; a body is open exactly during an upload; nothing is accepted before `accepted` and nobody comes back to `send` from there |
| `PassIsOneRun` | `ImplementsOneRun` | from `PassInv`, one case per action |
| `IngressTypeCorrect` | `TypeOK` of `Ingress` | inductive by itself, given what statements do to the directory (`DirectoryKeeps`) |
| `QueuedOnce`, `SkipsAreSafe` | `OneJobPerRoute`, `NothingSwallowed` | need the rest of `OnceInv`: the keys open transactions hold are not in the table, belong to live routes and have one holder each; and a queued pair keeps its record unless retention or the route's deletion takes it |
| `AcksAreTrue` | `AckMeansQueued` | needs the rest of `AckInv`: whoever is owed an open update still wants it, so a SELECT finds him; then he is a candidate, inserted or queued. A skipped duplicate leans on `NothingSwallowed` |
| `ConsentIsKept` | `NobodyUnasked` | needs the rest of `ConsentInv`: who wants a sent update has his chance noted, and requests work on such routes only, however old their SELECT |
| `OnboardingTypeCorrect` | `TypeOK` of `Onboarding` | inductive by itself, given what `CreateRoute` and `CloneRouteToUser` do |
| `InvitesAreUsedOnce` | `OneUsePerInvite` | needs `UseInv`: a row's lock has one holder (`LocksAreSole`), an invite in the table was used by nobody (`UnusedIsUntouched`), and a request past the commit is the only one that spends what it consumed (`SpentOnce`) |
| `RevocationIsFinal` | `RevokedIsFinal` | from `UseInv`: a reported revocation means the row is gone, unlocked (`RevokedIsGone`), so nobody can be at its deletion |
| `StrangersAreOut`, `RoutesHaveGrants` | `StrangersStayOut`, `RoutesAreGranted` | need `AccessInv`: a request past the commit serves a user who has consumed its invite (`ServesAConsumer`), and a route, though it be deleted by now, is of a user with a row, so the worker writes nobody else's status (`RoutesHaveUsers`) |
| `NothingIsLost` | `NothingLost` | `AckMeansQueued` says that the pair was queued; `PipeInv` ties the queue to it: as many rows of a pair are in the queue as were queued (`RowsAreQueued`), and a row is open, received, out of attempts or gone with its route, whatever has been done to it (`RowsAreAccountedFor`) |
| `TwiceIsExplained` | `TwiceHasCause` | what MAX received is a row of the queue, and what it received twice was disturbed (`RowsAreReceived`; of the worker itself that is `QueueKeepsItsPromise`); two rows of one route need an expired record (`OneJobPerRoute`); two routes of one user both belonged to the update's chat (`NobodyUnasked`, `ChancesAreRows`), and no two live routes have the same chat and user (`OneRowPerPair`), so one was deleted |
| `MigrationsTypeCorrect` | `TypeOK` of `Migrations` | with the order of a session's files (`FilesInOrder`), and that a draft has columns only where it has tables |
| `NamesAreKept` | `NamesSurvive` | needs `NamesInv`: an "up" that holds the users' table has the names in its draft whenever the schema has them (`DraftsKeepNames`); the lock has one holder (`LocksAreSole`), so nobody writes a name behind its back |
| `VersionsAreTrue` | `VersionsMeanSchema` | needs `VersionInv`: for every session at every step, whether its draft and its rows, committed now, would agree (`Fits`: it has touched nothing, is at its first file, is building up, is stuck, has renamed, or is taking down). Hypothesis `RecentImages` |
| `ConsoleTypeCorrect`, `ConsoleNeverPanics` | `TypeOK`, `NeverOutOfRange` of `Console` | hold only together, as `ScreenInv`: a row that is chosen has a type because the cursor is on one, and the cursor stays on one whatever list arrives in whatever mode (`CursorsInRange`); what a mode follows is there, and a command on its way means that a section was opened (`NothingIsMissing`) |
| `DangerNeedsConfirmation` | `DangerIsConfirmed` | from `WhatStarts`: the four places a step can start an action from, and what it starts there |
| `ActionsFit` | `ActionsFitTheirRecords` | needs `DialogInv`: the rows are of the section on the screen and the menu is that section's (`ListsFit`), and so was what a form or a confirmation holds when it was opened (`DialogsFit`). An action meets a row that is no record after a reload; then it has no id to run with |
| `MenusKeepTheirRecords` | `MenuKeepsItsRecord` | the third part of `DialogInv`, `MenuFits`: until a list is replaced, the row under the cursor, the form's and the confirmation's entry are the record the menu was opened for |

Each invariant was checked by TLC on the run of its component before it was proved.

The assumptions are those of the modules (`MaxAttemptsIsInt` of `DeliveryWorker` and of `Pipeline`,
`ThresholdIsPositive`, `RouteAndUserOfJobs`, `RoutesAreRows`, `UpdatesAreMessages`, `InvitesHaveScope`,
`LinksAreMessages`, `NoLinkIsNone`, `FieldsAreKnown`, `KnownSections`, and `NoneIsNothing`, which says
that nil is no command, confirmation or option), which TLC evaluates in the runs. `Spec` includes all
faults without a budget, so the theorems hold for any number of mishaps. The constraint of `MCConsole`
(`OnTour`) is not part of them either: they hold for all sections and lists at once.

`VersionsAreTrue` alone has a hypothesis, `RecentImages`: the images in use carry 0003. It is needed: with
image 2 a "down" of an empty database locks nothing; an "up" that commits 1 and 2 meanwhile has row 1
deleted under it, and `schema_migrations` is left with 2 alone. From image 3 on the files of 0003 and
0004 ask for `max_users`, in either direction, and such a "down" fails. The repository is at image 4.

Only model-checked: liveness (`EveryJobSettles`, `EveryUpdateSettles`, `EveryLinkAnswered`,
`LoopComesBack`, `PassEnds`), which is out of the prover's reach, as is ENABLED.

## 6. Findings

1. **A permanent error is retried** (`PermanentGoesDead`). `retry` is called with `temporary = false`
   and differs only in the time of the next attempt, which is now. docs/project-context.md:57 says
   "Permanent/exhausted -> `dead_letter`".
2. **A disabled group is still routed** (`DisabledGroupIsSilent`). `RemoveGroup` clears
   `telegram_groups.is_enabled`; the SELECT of `EnqueueTelegramUpdate` never looks at it.
   internal/tui/service.go:187 tells the operator that the group is off.
3. **An invite can be lost** (`ConsumedMeansLinked`). `ConsumeInvite` commits on its own, and the
   handler takes each of its errors for an unknown code. In the run's trace the COMMIT takes effect and
   its answer is lost (`ConsumeAnswerLost`): server.go:253-256 answers 204, `UpsertLinkedUser` is not
   called, nobody is linked and MAX has no reason to repeat the link. A second way, a step longer: the
   upsert fails (server.go:266-270), the handler answers 500, and the link MAX repeats finds no invite.
   docs/project-context.md:50 describes consume and link as one.

What the properties show to be possible, and the code accepts: a message sent twice after a lease has
overrun, after an operator's retry of a job at work, or when the success could not be written down
(`DuplicateHasCause` says there is no other cause); an update queued, and sent, twice after a route was
deleted and added again, or its dedupe record expired (`TwiceHasCause` names these next to the former); a job tried more often than its maximum after
two copies counted from the same number (`FinishedIsFinal` names the condition); a placeholder sent
for a job the operator retried after its payload was wiped (`NoHollowMessage`); a
`last_delivery_status` that is older than the last delivery (server.go:287); a schema that no longer agrees with
`schema_migrations` after an image older than it has migrated it down (`VersionsMeanSchema`); the death
of the worker when MAX answers an upload with `null` (`UploadAnsweredNull`).

## 7. Abstractions and what is not modelled

* Housekeeping acts on rows older than hours or days; the clock here has no hours, so it acts on rows
  of which no copy is in the process (`Aged`). A copy that outlived the retention time is not covered.
* One worker process (`deploy/compose/docker-compose.yml` runs one). Two of them would share the table, not the
  breaker; the table's lemmas (`StatementStrandsNoJob`) already allow any number of writers.
* A claim is one statement (`FOR UPDATE SKIP LOCKED` in a CTE): two claims never return one row.
* `last_delivery_status` of a job's user and route are written together or not at all in `DeliveryWorker`,
  where they are kept per job (`report`); `Onboarding` has the column per user, where the greeting is its
  other writer. There the worker may report any result of any route that has ever been, at any time.
* A transaction that fails may do so at any statement; the one that reads a failure after the commit
  (the answer is lost) is an action of its own.
* Invites of scope `group` and `route` come only from `AdminService.Exec`, which `cmd/tui` does
  not call; the console makes the third kind. All three are modelled, since the handler serves them.
* The queue behind `Pipeline` is `AtLeastOnce`, not `DeliveryWorker`: the proof that one implements the
  other is what connects them. `Pipeline` follows a pair through two jobs.
* Migrations: a schema is one user's row and one function. A session waits for a lock or fails;
  PostgreSQL's choice of a deadlock's victim is `Fail`. 0004 drops columns that an older image reads,
  although docs/migration.md:8 asks for changes that go by expand and contract; the older image is not
  in this repository, so its errors are not modelled, only which columns it would write.
* Media: names, sizes and JSON are left out; an upload is its two requests, an error its status class
  and whether it says that an attachment is not ready.
* Console: the typing in form fields, the cursor of the main menu, texts and the view are left out;
  that a reload shows fresh data is not claimed.
* Not modelled: rendering (pure formatting with its own tests), metrics, logging and health (they decide
  nothing), configuration (read once at start; what it leaves open is in the constants), the backoff's
  length and jitter, the partitions of `delivery_attempts`, group probes and their readiness column
  (which nothing reads to decide), the text commands of `Exec`, scripts and containers.

## 8. Plan

Done, in this order: `JobTable`, `CircuitBreaker`, `DeliveryWorker`, `AtLeastOnce`; `Directory`,
`Ingress`; `Onboarding`, `Console`; `MediaSend` with `OneRun`, `Migrations`, `Pipeline`; the proofs of
section 5.

Next:

1. One abstract specification from end to end, over webhook and queue (an update is sent, owed, then
   delivered, dead or gone with its route), with `Pipeline` as its implementation; and one of a link,
   for `Onboarding`: so far each of the two has its invariants only.
2. `Migrations`: what a "down" may leave behind beyond the versions.
3. The safety part of the liveness properties: that the steps the fairness speaks of are never undone
   except by a mishap.
4. `CircuitBreaker`: a success that was sent before the breaker opened closes it (circuit.go:29); the
   property worth stating bounds how often that can happen in one outage. `Console`: pause and resume of
   one route as two commands, whose order of effect nothing fixes (model.go:858).
